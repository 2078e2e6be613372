# Qvarn in TLA+

Qvarn is an HTTP/JSON store of *resources*. A resource type (`persons`,
`orgs`, ...) is described by a YAML specification; its items live in tables of
an SQL database, and any number of server processes, each with any number of
threads, serve requests for it. The server keeps no state of its own between
requests: all that matters is in the database, and what can go wrong goes wrong
between the SQL statements of requests that run at the same time, or on the way of an
item into the rows of a dozen tables and back.

This directory holds TLA+ modules for the parts of Qvarn where order and
interleaving matter and for the data they move, the TLC configurations that
check them on small instances, and the TLAPS proofs of what holds on every
instance.

    tlc -config storage_committed.cfg MCItemStorage
    tlapm ItemStorageProofs.tla

`PROJECT.json` lists runs, faulty variants, theorems, hazards and, for every
definition that models code, the lines it stands for.

## 1. The system

| Component | State | Operations | Hard behaviour | What makes it correct |
|---|---|---|---|---|
| Handlers (`list_resource.py`, `file_resource.py`) and storage (`write_only.py`, `read_only.py`) | the rows of one main table, list tables and subitem tables per resource type; no keys or constraints (`sql.py:113`) | POST, PUT, PUT subitem or file, DELETE, GET, GET subitem or file | several statements per request, concurrent requests, rollback or death at any statement | one row per item; an update applies to the revision it quotes, or answers 409; a deleted item stays deleted; the tables of an item agree; a reply shows one version; requests end |
| Search (`list_resource.py:185`, `read_only.py:99`) | none | parse criteria, one SELECT on a connection of its own, then one read per hit | one key in several tables, joins that repeat items, hits deleted between SELECT and reads; a second connection while the first is held | every match is found once, in order, and nothing else; the page asked for is the page shown |
| Listeners and notifications (`listener_resource.py`) | listener and notification tables | CRUD of listeners, list and delete notifications, `notify_create/update/delete` after each change, in a second transaction | change and notification are two transactions; listeners change meanwhile; crash between | a listener that listened throughout hears of a change; nobody hears of what did not happen; a deleted listener leaves nothing behind |
| Transaction and pool (`transaction.py`, `sql.py:342`) | free and used connections | `__enter__`, `__exit__`, `get_conn`, `put_conn` | errors in the middle, log writes that fail, a database that restarts, two connections per search, exhaustion | every connection taken comes back; none is given to two threads; nobody is refused one |
| Resource type preparation (`versioned_storage.py`, `restype_storage.py`, `backend_app.py`) | version tables, the `resource_type` table, the routes of each server | `--prepare-storage`, loading at start, adding a missing route on request | concurrent runs, crash between the two transactions | one row per type; known versions are exactly those whose tables exist |
| Structured log (`slog.py`, `slog_filter.py`, `counter.py`) | open files, per-thread contexts, message counter | configure, `log`, `write`, rotate, `reopen`, `close` | threads share one file and no lock; several logs are configured one after another; fork | no message lost whose `log()` returned, a closed file is opened again, a log holds what its filter asks for |
| Walker, schema, validation, defaults (`walker.py`, `schema.py`, `filler.py`, `validate.py`) | none | pure functions of a prototype and an item | nesting, empty lists, what a body leaves out or has of the wrong kind | what is written is what is read back; what is deleted is all that was written; what fits is accepted and nothing else |
| Request pipeline and access log (`*_plugin.py`, `authorization_validator.py`, `access_log.py`, `backend_app.py:165`) | routes, the counter of requests, log contexts | hook, log, authorize, validate, handle, notify, access log, answer | failures at every call, before and after the commit; threads share the log | an answer says what was done; nothing happens without a token; each id is in the access log once; every request is answered |

How they interact. A handler opens one `Transaction`, which takes a connection
from the process's pool, calls `WriteOnlyStorage` or `ReadOnlyStorage` for its
statements, and commits. Only then does it call `ListenerResource.notify_*`,
which opens a second transaction, searches the listeners (on a third
connection) and inserts notifications. All of them log through one
`StructuredLog`. Processes share only the database.

Server processes run "with a suitable number of threads" (`NEWS:308`), and the
server may have several processes, so every interleaving of statements is
possible. PostgreSQL is the database in production; no code sets an isolation
level, so it is the database's default, READ COMMITTED unless the
administrator has set `default_transaction_isolation`.

## 2. The modules

| Module | What it is |
|---|---|
| `VersionedStore` | abstract: what the API promises of items, every change one step |
| `ItemStorage` | handlers, transactions and SQL statements over the tables of one resource type |
| `Notifications` | the listeners and notifications of one resource type, beside its items (uses `VersionedStore`) |
| `Mirror` | `Notifications` composed with clients that keep a copy of the items |
| `ConnectionPool` | the database connections of one process |
| `ResourceTypes` | `--prepare-storage`, loading specifications, adding missing routes |
| `ItemTables` | the bodies of requests: defaults, validation, the tables of a prototype, writing, deleting and reading of rows |
| `Search` | `ItemTables` composed with searches: criteria, SELECT, answer, and changes in between |
| `StructuredLog` | the log's configuration, filters, fork, and the threads that rotate its files |
| `Requests` | the hook and the plugins around the handler, the access log, failures at every call |
| `MC...` | constant values for TLC |
| `ItemStorageProofs` | theorems and proofs about `ItemStorage`: at both isolation levels, and then under REPEATABLE READ |
| `NotificationsProofs` | theorems and proofs about `Notifications` and `Mirror` |
| `ItemTablesProofs`, `SearchProofs` | what rows hold of items, and the theorems about `ItemTables` and `Search` that follow |
| `ConnectionPoolProofs`, `ResourceTypesProofs`, `StructuredLogProofs`, `RequestsProofs` | theorems and proofs about the module of that name |

How they fit. `ItemStorage` implements `VersionedStore` (checked and proved), and
`Notifications` takes `VersionedStore` for the items, so that its handlers may
be read as those of `ItemStorage` with everything up to the commit in one step.
`ConnectionPool` abstracts from what the transactions do, and `ItemStorage` from
where they have their connections. `ResourceTypes` is what happens before
`ItemStorage`'s tables are there. `ItemTables` is the data that `ItemStorage`
abstracts to one row for each table and write; it takes requests one at a time.
`Requests` is what goes on around a handler, which there is a commit and a
notification; `StructuredLog` is what its calls of `log` do to the log files.

### ItemStorage

One resource type. `Workers` are the threads of all processes. Each serves one
request at a time; `pc` is its next statement, taken from `Handler`, which
gives for each handler the order of its statements:

* POST inserts; the id and revision come from `ResourceIdGenerator`, whose 128
  random bits are modelled as a choice of a value not in use.
* PUT checks the revision (a SELECT), deletes the main row, then the list rows,
  and inserts the new ones. PUT subitem or file checks, updates the revision in
  the main row, deletes the subitem's rows and inserts new ones. DELETE deletes
  main, list and subitem rows.
* GET reads the main row, then the list rows. GET subitem or file reads the
  subitem first and then the item, for its revision.

All list tables are one table, and all subitem tables are one: the code treats
each in the same way, one after another, and the interesting interleavings
need one of each. The rows one write puts in a table are one row, whose `key`
is the write's revision.

A DELETE or UPDATE is two steps: `PickRows` takes the rows the statement sees
and `ChangeRows` locks and changes them once no other transaction has them
locked. Under READ COMMITTED a row that another transaction deleted meanwhile is
skipped and one that it updated is changed in its new form. Under REPEATABLE
READ the statement fails. `Commit` makes everything visible at once; `Abort`
may end any transaction at any step with nothing changed, be it an error in a
statement or the death of the process.

`version` and `deleted` are history: which revision each committed write was
based on, and what was deleted. No guard reads them except to keep the inputs
to what a client can know (`Arrive` offers committed revisions of any item, and
with `NullRevision` also null).

`VersionedStore` has `Create`, `Update`, `UpdateSubitem` and `Remove`, each one
step, an update only when it quotes the current revision. `ItemStorage` maps its
tables to it (`AbstractItem`): an item whose rows are not those of one version
maps to no state of the store, so a torn write is a step the store cannot
take. `ImplementsStore` is `Store!Spec` as a property.

### Notifications

A handler that changes an item is `write` (the whole storage transaction, one
step of `VersionedStore`), then the searches of its `notify_*` call (`SeekNew`,
or `SeekOn` and `SeekAll`, each a SELECT that sees what is committed at that
moment), then `Add`, which inserts a notification per listener found and
commits. `Fail` ends a handler anywhere; what it had committed stays.
`PostListener` and `PutListener` are single steps at their commit, their own
interleavings being those of `ItemStorage`. `delete_listener` is two: the
search for notifications to delete, and the commit. `steady[w]` is history: the
listeners that have been listening to `w`'s change ever since it was made.

### Mirror

What notifications are for. A client creates a listener, reads each item once,
then reads an item again whenever it finds a notification about it, and deletes
the notification. The client is not part of the repository; it does what the API
document tells clients to do. `missed` is history: items whose `notify_*` call
failed since the client's last scan, for which the code promises nothing.

### ConnectionPool

`__enter__` (`Enter`, `LogEntered`), statements that may fail (`Execute`, `Fail`), the
second connection of a search (`Search`, `Select`, `EndSearch`), and `__exit__` (`Exit`,
`LogLeaving`, `Leave`). `Engine` is the connection that SQLAlchemy took when
the process started. The pool is psycopg2's, external: it gives out a free or
new connection and raises an error when `MaxConn` are out.

The database may restart at any time (`Restart`), which drops every connection
there is (`down`). The driver does not know before it next sends something on one
(`closed`). `putconn` keeps a connection, if the pool has fewer than `MinConn` and
the driver does not know it to be closed, and closes it otherwise; one that it keeps
in the middle of a transaction (`begun`) it first rolls back, and forgets that it was
used only afterwards. So `putconn` raises, and the connection counts as used for
ever, when the database restarts between the SELECT of a search and the put
(`PutFails`): a search does not end its transaction first, where `__exit__` does.

### ResourceTypes

A run of `--prepare-storage` is three transactions: tables (`Begin` ...
`CommitTables`), specifications (`PrepareTables` ... `CommitSpecs`) and the check
that loads them (`Check`). `Begin` reads the columns there are once; each type
then has its known versions selected and every unknown one prepared from that
memory, not from what is there by then. A run that found no table at all has
an empty memory, which the code takes for none, so that it reads the columns
again for each type (`ReadTables`): `prepare_storage` says `tables or
get_current_tables(transaction)`. A column is a table, a name and a type
of value. `Abort` ends a run at any point, and any release may be prepared after
any other. DDL takes the table's lock until the transaction ends; statements
that wait for it wait in the model, and where PostgreSQL would fail them the
run aborts.

The server starts by loading all specifications (`Boot`, `GetSpec`, `Serve`, or
`NoSpec` when one cannot be loaded). A request that no route matches loads its
type's (`Request`, `GetSpec`) and adds its routes one at a time (`AddRoute`).
Servers share nothing but the database and never write to it here, so one
stands for all.

### ItemTables

A resource type is a record: its prototype, and the prototypes of its subitems
and files. Values are tagged with their kind, as in `<<"str", "x">>`. `Walk` is
the sequence of visits of an `ItemWalker`; the four walkers of the code differ
in what they walk and in what they do at a visit, and so do the operators:

* `SchemaFromPrototype` gives the columns of the tables; `TableOf` names a
  table by the words of the fields on its path, as `table_name` does.
* `AddMissingItemFields` and `Valid` are the filler and the validator. `Crash`
  is an exception in the filler that nobody catches.
* `WriteWalker` walks the item and gives rows; `DeleteWalker` walks the
  prototype; `ReadWalker` puts an item together from the rows.

The actions are the requests, each with its checks in the code's order: a
status of 400 or 409 is a refusal, 500 an exception. A body that is a list or a
string is asked for `id` and `revision` as a dict is: where Python finds the word in
it, the code goes on to take it as a key and raises (`Tricky`). `RefuseFile` is what
`put_file` refuses for its headers. `stored` is history: what a
client who got every answer would expect to read.

The walkers call themselves for a list of dicts, and go three levels deep: the
item, the dicts of its lists, the dicts of theirs. So does the module: a walk is
put together from the visits of each level (`InnerListVisits`, `DictListVisits`,
`Walk`), and the operator of a level of the filler, the validator and the
assumptions takes that of the next as its parameter (`FillInInnermost`,
`FillInInner`, ...). None is recursive.

What the code takes for granted is stated as assumptions, which TLC evaluates.
`ResourcesAssumption`: a prototype of an item, a subitem or a file is at most three
levels deep, its fields are simple or lists of one string or one dict, none is named as a position column, an
item has an id, a type and a revision, and its subitems have none of their own; only
files have blobs, since for a blob elsewhere the filler raises `KeyError` at every body
that leaves it out, and the validator accepts no value of it.
`TablesAssumption`: no two paths of an item or of a subitem have a table of one
name, nor have two parts, be they the item, its subitems or its files; the code checks none of this, and the types that Qvarn comes with keep
to it. `BodiesAssumption`: a body is a value of one of JSON's six kinds, and its revision, if it has
one, is not null, which is left to `ItemStorage`.

Simplifications. The code walks the dict lists of a prototype in whatever order its
dict has them (`walker.py:103`); the model picks one, since no two of them share a
table and a filler that raises does so whichever comes first. String lists in dicts of an inner list are left out of the
bodies: the schema has a table for them, and no walker writes or reads it, so
that the code drops them without a word.

### Search

`Parse` takes the parts of the path from the left; `any` turns the next
condition into one with a list of values. `AddParam` and `AddSort` extend a plan
with joins, conditions and sort keys, each place that has the key under an alias
of its own. `Joined`, `Where`, `SelectDistinct`, `OrderBy` and `LimitOffset` are
the SELECT as PostgreSQL runs it: left joins, three-valued comparisons (a
comparison with NULL is not true), NULL last, ties in any order.

What a search should find is stated without any of that. `Matches` is the table of
conditions in the API document, over the values that an item has for a key, and
`FindsWhatMatches` compares the two. On two points they differ, and `Disputed` leaves
them out by name: `ne` is in the document "the inverse of `exact`", and in the code
finds the items in which some value differs, of a field with several values, and none
that has no value; and `startswith` and `contains` look for the texts "true" and
"false", which `exact` takes for booleans.

A search is `Select` in one step, then `ShowNext` for each hit that has to be
read. Any request of `ItemTables` may come between two of these steps
(`Meanwhile`). `all` and `then` are history.

`Text` gives for each string what comparisons need of it: lower case, letters,
place in the collation, the number and the JSON it spells. LIKE's wildcards,
which the code does not escape, are left out.

### StructuredLog

`Configure` runs once for each log option, or ends the program
(`ConfigureFails`) for a filter that is empty or cannot be opened or an unknown stdout, in the main thread of the process
that uWSGI forks (`Fork`) after the first message. In the worker each thread
calls `log` (`Log`), which numbers the message and asks the filters of each
writer in turn; for each that allows it the thread writes (`WriteMessage`),
flushes and measures the file (`Measure`), and when it is full closes it
(`CloseFull`), renames it (`Rename`), opens a new one (`OpenNew`) and keeps that
(`AssignFile`). Nothing is locked. A call on a file that another thread has
closed, or a rename of a file that is gone, raises out of `log`.

A file is full by the number of its messages. Writing with the flush of it by
`close`, and flush with `tell`, are one step each; reading the attribute
`_log_file` is one step with the call on it. The clock has whole seconds, which
is what the names of rotated files have. `content`, `renamed` and `returned`
outlive what the paths lead to, so that a file that was overwritten is still
known.

### Requests

One action per stage that a request passes: the `before_request` hook
(`AddMissingRoute`), `LoggingPlugin` (`StartContext`, `LogRequest`, `LogAccess`,
`LogResponse`, `LogError`), `ErrorTransformPlugin` (`Transform`),
`AuthorizationPlugin` (`CheckAuth`), `BasicValidationPlugin`
(`BasicValidation`), and the handler (`Handle`, `Notify`, `HandlerRefuses`).
`Fails` is an exception at any of them that is no `QvarnException`: logging, the
database, the notification. `Unmatched` are the requests that no route matches, which
bottle answers itself with 404 or 405: a type that nobody has defined, a path below a
type that is, a wrong method of either kind of resource. The hook looks for a
specification by the prefix of the path and logs an error only if there is none. Tokens and bodies are known by the status they
lead to. `effects`, `records` and `replies` are history.

Simplifications. The two installed `AuthorizationPlugin`s, which check the same
token in the same way, are one step. `StringToUnicodePlugin` does nothing to the
values that bottle gives it. What a handler commits is one step, whatever
`ItemStorage` does to get there.

## 3. The runs

| Run | Instance | Shows |
|---|---|---|
| `storage_snapshot` | REPEATABLE READ, 2 workers, 1 item, 3 revisions, every request | `TypeOK`, `OneRowPerItem`, `OneUpdatePerRevision`, `DeletedIsGone`, `ReadsOneVersion`, `ImplementsStore` |
| `storage_committed` | READ COMMITTED, 2 writers, 3 revisions, null revisions | `NoDeadlock`, `StaleUpdateRejected`, `RequestsEnd` |
| `storage_lost_update` | READ COMMITTED, 2 workers that PUT | violates `OneUpdatePerRevision` |
| `notify_audience` | 2 workers, 1 item, 1 listener that changes in any way but from all items to single ones, failures | `TypeOK`, `NoFalseNews`, `AudienceHears` |
| `notify_orphan` | 2 workers, no failure | violates `NoOrphans` |
| `mirror` | 2 workers, 1 item, 1 client that follows all items, failures | `MirrorCurrent`, `Converges` |
| `pool` | 2 threads, 7 connections of which the pool keeps 1, 1 restart | `NoLeak`, `NotShared`, `EnoughConnections` |
| `restypes` | 2 preparers, 3 releases of one type, a server with 2 threads | `TypeOK`, `KnownIsPrepared`, `RoutesHaveTables`, `TypesAreNewest` |
| `search` | 2 types, 2 items, 26 bodies of one item with any revision or none, 41 criteria, 1 change during a search | `ReadsBack`, `OnlyFilesAreLeft`, `AcceptsWhatFits`, `FindsWhatMatches`, `FirstInstancesSorted`, `AnswersThePage`, `ShowsWhatIsStored` |
| `log` | 3 threads, 1 call each, 10 configurations, 2 seconds | `TypeOK`, `WriterComesBack`, `ReturnedIsKept`, `OnlyAskedForIsLogged`, `WritingResumes` |
| `log_writers` | the same | violates `EveryLogIsWritten` |
| `requests` | 2 threads, 2 requests of 19 kinds, 2 failures, chunks of 2 | `OwnContext`, `AnsweredAsDone`, `OnlyWithToken`, `AccessIsLogged`, `ErrorsAreLogged`, `EveryRequestAnswered` |

The promises of the store hold when the database serialises conflicting
writes (`storage_snapshot`) and fail under the default isolation level with two
writers: the code checks the revision with a plain SELECT and relies on it
several statements later. What holds under the default level with any number of
writers is in `storage_committed`: no deadlock, an update that was already
stale when it arrived is refused, and every request ends.

**Bounds.** `MaxRev` bounds the revisions committed or in flight. Three make a
POST and two updates, concurrent or in sequence; the violation needs two. One
item is enough for all races inside an item, and nothing relates two items.
Two workers show every pairwise race; `NoDeadlock` for more of them is a
theorem. `MaxChange` bounds the changes of items in a history: three make a
POST, an update and a deletion. One listener is enough, since no step relates
two; the theorems are for any number. The pool keeps one connection, as by default, and has
the seven that two threads need with one restart, where `EnoughConnections` is just
not vacuous: with six, or with two restarts, somebody is refused. The three releases have none, one and both of
two versions; the second adds a table and a column and changes the type of
another, so that each branch of `_prepare_version` is taken.

In `search`, type `doc` has each kind of field and every depth of lists that the
walkers know, in an item and in a subitem, and bodies with lists that are empty,
short, long, out of order and with repeated values, and bodies wrong at each
depth; its two items show that rows of one are not taken for another's. Type
`cat` has the same keys in several tables of the item and its subitem, and
criteria with each operator, each way to be malformed, and keys found in one
place, in several and in none. One change during a search is enough to delete a
hit or change what is shown; two hits are enough to get an order wrong.

In `log`, three threads are one to rotate, one to rotate at once and one to
write meanwhile; one call each, since what a call finds is what others left, and
the main thread has one more from before the fork. Two seconds tell rotations of
one second from others. `requests` has two of each: requests follow each other
on one thread or run on two, an error may be followed by the failure to log it,
or be met by the next request. Three ids in chunks of two make a whole chunk and
a rest, two ids one whole chunk.

**Fairness.** `FairSpec` of `ItemStorage` has weak fairness of each worker's
next statement: a thread that can go on does. It also has strong fairness of
`ChangeRows`, since PostgreSQL queues the waiters of a row and wakes them in
order, so a waiter is not overtaken for ever. `FairMirrorSpec` has weak fairness
of each thread's step and of the client, which reads every item once after
setting its listener and keeps polling, as the API document has it do. Nothing
forces a client to send a request, a transaction to abort, or a client to scan
again after a failed `notify_*` call; `Converges` promises nothing for the items
such a call was about. `StructuredLog` and `Requests` have weak fairness of each
thread's next step inside `log` or a request: the interpreter runs every thread
that can run, and no step there waits for another thread. Nothing forces a call
of `log`, a request, or a failure: where a step may also fail, weak fairness is
of the whole of the thread's next step.

**Assumptions of single runs.** `notify_audience` leaves out listeners that
turn from all items to single ones: with `AnyChange` for `NoNarrowing` in its
cfg, TLC finds a listener that turns to the changed item between the two
searches and is found by neither. `mirror` keeps to a client that follows all
items. `restypes` lets two preparers overlap only with the same release: with
`Overlap = "any"` TLC finds `KnownIsPrepared` violated (`CREATE TABLE IF NOT
EXISTS` skips a table another release has just created with fewer columns, and
the version is recorded all the same), and with `Overlap = "none"` it finds
`StoredSuccessfully` to hold. `RoutesStay` may be checked with the constants of
`restypes.cfg`: it is violated, since a wrong method replaces routes. `pool`
assumes that logging does not fail. `storage_snapshot` leaves out null revisions
(section 4). `ReturnedIsKept` excepts a message whose
file was rotated in the same second as another and lost its name to it,
`AccessIsLogged` the answers that `HasTrail` names, `OnlyFilesAreLeft` files;
section 4 tells what the code does there.

**Deadlock checking** is on in the runs of the storage, notifications, mirror,
pool, resource types and search: there is always a request to serve, a run to
start, or one to abort. It is off in `log`, `log_writers` and `requests`, whose
calls and requests are bounded, so that they come to an end.

**Symmetry** of workers or preparers and threads is used in `restypes` only,
whose properties are all invariants.

**Type invariants.** `ConnectionPool`'s `TypeOK` is in no run, being part of the
theorems about it; `Requests`' is in none either and holds when it is
added to `requests.cfg`.

**Faulty variants.** Definitions such as `PutItemKeepsRow` stand before the
definition they vary and are used by no action. Each is a plausible slip in
that code (a forgotten DELETE, a forgotten check, another order of tables); put
in the place of the original it makes TLC report the property named beside it
in `PROJECT.json`, which shows that the property depends on the code.

## 4. What the runs found

1. *Lost update* (`storage_lost_update`). Two PUTs with the same revision both
   answer 200; the API document promises a 409 to one of them. With a DELETE and
   two INSERTs the item may even have two main rows. In the same way a PUT whose
   check came before a DELETE's commit brings the item back.
2. *Orphaned notification* (`notify_orphan`). A `notify_*` call that found a
   listener before it was deleted adds its notification afterwards; nothing
   deletes it.
3. *Only the last log is written* (`log_writers`). Each log option closes the
   writers of those before it, so with a main log and a second one nothing gets
   to the main log after start-up, whatever `NEWS` says of up to five of them.

More that TLC shows, each by one change of a cfg:

* *Torn read.* `ReadsOneVersion` with READ COMMITTED and `OneWriter` for `AnyOp`:
  GET of a subitem or file can return an old body with the new revision, and the
  client can then overwrite, with a correct revision, what it has not seen.
* *Null revision.* `DeletedIsGone` with one worker and `NullRevision = TRUE`: a
  PUT with `"revision": null` to a deleted item's URL recreates it, with no
  concurrency at all, since the missing row has revision `None`.
* *Leaked connection.* `NoLeak` with `LogMayFail = TRUE`: `__enter__` logs after
  it took the connection, `__exit__` before it puts it, and an exception in
  logging loses it.
* *Leaked by a restart.* With `NoLeak == [][Leaked' \subseteq Leaked]_vars` instead:
  the connection of a search that the database cut off after its SELECT stays in
  `_used`. Each restart may cost as many connections as there are threads, and with the
  default of five (`MaxConn = 5`) two threads may be refused one after a single restart.
* *Type stored twice.* `StoredSuccessfully` with the constants of `restypes.cfg`:
  two overlapping runs of `--prepare-storage` insert a type twice. Both end
  well, but no server can load the type, nor start.

And what the code was seen to do while its models were written, which the
properties describe or except by name:

* A log file that is rotated twice in a second overwrites the first rotated
  file. Of two threads that rotate at once one gets an exception out of `log()`,
  which turns its request into a 500 although the change may be committed. The
  same goes for a token in `Qvarn-Token` that cannot be decoded: it is looked at
  only after the commit.
* A filter without a field is accepted and raises at each message it is asked
  about. If an error cannot be logged, or the hook fails, the thread keeps its
  log context until its next request.
* DELETE of an item leaves its files' rows behind, and subitems, deleted
  listeners and deleted notifications are not in the access log. `NEWS:217` says
  "Do not log listener requests"; the ids of all other requests for listeners and
  notifications are logged all the same. `AccessIsLogged` demands neither.
* A request for a path below a known type that has no route, and a method that a path
  of it does not have, are answered with 404 and 405 by bottle, and there is no
  error of it in the log. `ErrorsAreLogged` excepts them by name (`BottleAnswers`).
* A body that is null, a number or a boolean is answered with 500, and so is a list
  or a string in which `id` or `revision` is found, a
  boolean for an integer (Python's booleans are integers, PostgreSQL's are not),
  and null, a number or a boolean for a list of dicts.
* `ne` is not "the inverse of exact" (`docs/yarns/050-api-overview.yarn:714`): it
  finds items that have the value beside another, and not those that have none.
  A search for the text `true` or `false`, and `startswith` and `contains` on a number,
  end in 500, though the API document says that other types "are matched exactly"
  (`050-api-overview.yarn:719-721`). `any` with an empty list is 400.
  `sort`, `limit` or `offset` as the last part is 500. Items with equal sort
  keys may be on two pages, or on none.

## 5. What is proved

All theorems are for every value of the constants that the modules' `ASSUME`s
allow: any number of workers or threads, items, revisions, listeners, types,
versions, releases, requests and failures. Each proof has one inductive
invariant, or a few on top of each other; before it was proved, each was checked
by TLC as an invariant of the instance above.

**`ItemStorageProofs`.** `TypeCorrect` (`[]TypeOK`), `NoDeadlockEver`
(`[]NoDeadlock`) and `StaleUpdatesRejected` (`[]StaleUpdateRejected`), at both
isolation levels.

* `TypeOK` is not inductive: that a step has a type depends on the worker being
  at it with a request that has that step. `ControlOK` says which requests each
  step belongs to, and when `new` is set.
* For `NoDeadlock`, `LockOrder` says that a worker has locked rows only in
  tables that come before the one it is at, in the order main, list, sub. In a
  set of workers that all wait, one is at the table furthest on; whoever it
  waits for has locked rows there and so is further still. `IInv` is `TypeOK /\
  ControlOK /\ LockOrder`.
* For `StaleUpdateRejected`, `SInv` is `OwnRevision /\ StaleOK`. `OwnRevision`: the
  revision a worker has generated is no other worker's and not committed, and the
  main rows the worker adds carry it. `StaleOK`: a stale request has not got past
  its check; the revision it is based on was committed once and is in no main row
  of its item that it can see, neither committed nor in its snapshot. Without
  `OwnRevision` a commit could bring the superseded revision back.

**`ItemStorageProofs`, second half.** From the hypothesis `Snapshots`, that the database
runs at REPEATABLE READ and no client quotes a null revision:
`OneRowPerItemEver`, `NoLostUpdate`, `DeletedStaysGone`, `RepliesShowOneVersion`
and the refinement `TablesImplementStore` (`Spec => Store!Spec`). Neither half of
the hypothesis can go: `storage_lost_update` and section 4 have the
counterexamples. None of the five is inductive. `SnapshotInv` says

* of each item (`ItemsOK`), that it has no row in any table, and then was deleted
  or not yet made, or has in each table the one row of one committed version,
  which no committed update quotes;
* of each transaction (`TransactionOK`), what it has locked and added, as a
  function of its request, its snapshot and its step;
* of each request (`RequestOK`), that its snapshot holds one version of its item
  or none, and past its check the one it quotes;
* of locks (`LocksOK`), that a locked row is still committed and has one owner.
  This is what makes the check good until the commit: a transaction that has
  changed a row found nobody else's change to it, or would have failed;
* of reads (`SeenOK`), that what was read is what the snapshot holds.

The refinement then has one case for each action: commits of writes are steps of
the store, and all else leaves every `AbstractItem` as it is.

**`NotificationsProofs`.** `TypesOfNotifications` (`[]TypeOK`): that the number of
changes stays within its bound needs that those counted and those at `write` do
so together, which is counting, and the reason for `WorkersAssumption` (there are
finitely many workers). `NoFalseNewsEver` (`[]NoFalseNews`): the invariant
`NInv` says of each request past its commit, and of each notification, that the
version it tells of was committed or the item is gone; both last.
`AudienceHearsUnlessNarrowed`, from the hypothesis that no change in `Replacements` narrows:
the invariant `AInv` says that a steady listener has been found already or will
be found by a search still to come. A listener that narrows is the one case in
which both searches miss it, so the hypothesis cannot go.

**`NotificationsProofs`, about `Mirror`.** `MirrorIsServed` (`MirrorSpec => Spec`): with its clients the
server does nothing that it does not do without them, so that the theorems about
`Notifications` hold here too. `MirrorStaysCurrent` (`[]MirrorCurrent`):
`ToldInv` says that a client whose copy is not the item as it is will be told,
since a handler is at its `notify_*` call and has found the client's listener or
will in a search to come, or an unread notification is there. It needs that each
change has a number of its own (`CausesOK`), or the handler of one change could
take another's notification for its own.

**`ConnectionPoolProofs`.** `OneHolderEach` (`[]NotShared`) from no hypothesis:
`PInv` says that what any thread or the engine holds is among the used
connections, no two hold the same, and `pool` and `used` have nothing in common.
From the hypothesis that logging does not fail: `ConnectionsComeBack` (`NoLeak`, which
excepts the put of a search that a restart has cut off), `RestartsCostLittle`, that at
most `restarts * Cardinality(Threads)` connections are lost, and `NobodyIsRefused`
(`[]EnoughConnections`). The second is why the third can be: of the connections that
are lost or in the middle of a transaction that a restart has cut off, each restart
adds at most one for each thread, since a lost one was some thread's at the restart.
The rest is counting: what is out is the engine's connection, those lost, and two for
each thread at most, and a thread that asks has at most one.

**`ResourceTypesProofs`.** `TypesOfPreparation` (`[]TypeOK`), and from the
hypothesis that runs of different releases do not overlap (`Overlap # "any"`;
section 3 has the counterexample) `RecordIsTrue` (`[]KnownIsPrepared`),
`ServedIsPrepared` (`[]RoutesHaveTables`) and `NewestTypesStay`
(`[]TypesAreNewest`). The dict of tables of a run goes stale when another run
commits. `TablesInv` says why that is harmless: either the dict still has every
table there is, or another run of the same release has committed, and then every
version this run could prepare is on record already (`AllPrepared`), so that it
prepares nothing. Columns are dropped only for others of the same name. `ServedInv`
follows a specification from file to route: the newest version it has is on record
at every place it passes. For the types of columns `NewestInv` has `OrderOK`, that
versions are prepared in their order, by each run and by all together; `DictOK`,
that the dict has what the run itself has changed and is up to date until another
run of its release commits; and `SeesNewest`, that what a run sees has the newest
types but for the versions it is about to prepare `Again`, those that another run
committed after it had looked for them. It prepares them again in order, so that the
newest comes last. Tables are locked by the run that changes them, so that no two
runs have uncommitted changes to one table. From the hypothesis that runs do not
overlap at all (`Overlap = "none"`; section 4 has the counterexample),
`SpecsAreStored` (`StoredSuccessfully`): `StoreInv` says that a run has one row,
stored or new, for each type its loop has come to, and a new one only for a type
that had none. `SchemaAssumption` says that a table belongs to one type, whose name
it begins with, and that a version has one column of a name.

**`StructuredLogProofs`.** `TypesOfLogging` (`[]TypeOK`), `FilesComeBack`
(`[]WriterComesBack`), `OnlyWhatIsAskedFor` (`[]OnlyAskedForIsLogged`) and
`LoggedIsKept` (`[]ReturnedIsKept`), for every number of threads, messages and
configurations. Since no lock orders the threads, there is no step at which the
writer's file is sure to be open, or under its name, or even under any name.
`LogInv` says what is: there is one writer at most; every path leads to a file of
its own and every renamed file is under the name it got or has lost it to a later
one; the writer's handle, and the file each thread has opened, is one that
belongs to the writer's option and this process. `Comes` says that a handle which
is closed, or whose file is gone from its name, has a thread on the way to open a
new one. `Written` says that a thread in the middle of a rotation has its message
in a file of the writer, or in one whose name a rotation of the same second took.
`ConfigurationsAssumption` leaves out configurations in which two options name
one file, which nothing in the code refuses; `StartupAssumption` says that only
the start of the program logs that the program starts.

**`RequestsProofs`.** `AnswersAreTrue` (`[]AnsweredAsDone`), `NothingWithoutToken`
(`[]OnlyWithToken`), `ContextsAreOwn` (`[]OwnContext`), `ErrorsAreSeen`
(`[]ErrorsAreLogged`) and `AccessIsTrailed` (`[]AccessIsLogged`).

* `DoneInv` says what a request has done by each stage, and what the exception on
  its way back tells of it.
* `ContextInv`: contexts of threads in a request are different numbers, none above
  the counter, and what is in the log under a request's number is the request's.
* `UnseenInv` counts: the 500s that nobody logged are no more than the failures
  so far.
* `TrailInv`: the entries so far are whole chunks of the first ids in their order,
  so that an id is in exactly one; for every number of ids and chunk size.

`RefusalsAssumption` says that a handler refuses with a status of 400 to 499,
`AskedAssumption` in which ways tokens and bodies may be wrong, and that an answer
is about each id once.

**`ItemTablesProofs` and `SearchProofs`.** `OnlyFilesAreLeftHolds`
(`[]OnlyFilesAreLeft`), and from the hypothesis `InnerDictsAreFlat`, that no dict of
an inner list has a string list, `ReadsBackHolds` (`[]ReadsBack`) and
`ShowsWhatIsStoredHolds` (`ShowsWhatIsStored`), for every set of types, every body and
every criterion. Without the hypothesis the code loses those string lists.
`AcceptsWhatFitsHolds` (`[]AcceptsWhatFits`) needs no hypothesis: such lists are
accepted and lost.

* The visits of a walk over a body say which rows the item has. `IsItemRow` says it
  without the walk: a row of a table is for a path of the prototype and, for each
  list on it, a position in the body.
* A body that the filler has filled and the validator accepted is `Formed`: it has
  the fields of its prototype and no others, each of its kind, at every level.
* A part has a table for each path, and nobody else has it (`TablesAssumption`). So
  the rows that a read selects by table, id and positions are those of one
  visit, and no other part's or item's are among them. Sorted by position (`InOrder`)
  they are the list that was written, which is counting: the k-th row is the one
  with k - 1 positions below its own.
* `DataInv` is the inductive invariant. Of each item, `Kept` says that a live one's
  parts have exactly their rows, that a deleted one has rows in the tables of its
  files only, and one not yet made has none; and every row is some item's. It holds
  through refused requests and exceptions too, since those change no row. A PUT of a
  deleted item is refused, as its revision is not null.
* `ShownInOrder` adds that a search appends what it reads to a sequence.
* `AcceptsWhatFits` compares three descriptions of an item: what fits a prototype,
  what the validator accepts once the filler has been there, and what the columns
  of the schema take. `FilledFitsOuter` joins the first two, level by level
  from the innermost: a body fits exactly if the filler does not crash and what it
  makes is valid and `Sound`, with values of the kind of their column (the
  validator alone takes a boolean for a number). `SchemaColumns` says which columns
  a prototype's tables have, and `TypeSchemas` that the other parts of a type add
  none to them. The one exception are two tables of a subitem that share a name,
  since `table_name` leaves out a third field; that only adds columns that no row
  has. So `ItemFits`: the database takes the rows of an item exactly if it is
  `Sound`.

**What the proofs found.** `ReadsBack` could not be proved for a body with a null
revision, which brings a deleted item back on top of the rows of its files: the
`NullRevision` of section 4. `OnlyWhatIsAskedFor` failed at `NamedBy`, whose two
arms applied both to a rule with a value and a regular expression; the code looks
at the value first, and now so does the definition. `RecordIsTrue` failed at a
first run on an empty database, until the model had the code's second reading of
the tables (`ReadTables`). `NotShared` turned out not to need that logging does not fail.
`AcceptsWhatFits` could not be proved while nothing was assumed of the tables of a
type's files, which might have added columns to the item's, and while the
arms of `CheckUpdate` and `CheckItem` overlapped: a `CASE` with two true
guards has either value, whichever TLC takes, and so they are now `IF`s in the
order of the code.

**Only model-checked.** Of `Search`: `FindsWhatMatches` and `FirstInstancesSorted`
(the SELECT finds what it should, in order; they rest on `FoldLeft` over the plan's
joins, whose value for every number of them is induction), and `AnswersThePage`. And liveness (`RequestsEnd`,
`Converges`, `WritingResumes`, `EveryRequestAnswered`), which is out of the proof
system's reach.

## 6. What is not modelled, and why

* Listing all items as a statement of its own (`get_item_ids`): it is a search
  without criteria.
* SQLite. It is the database of the unit tests: one connection, no concurrency.
* The HTTP server, what `/version`, the health check, the token endpoint and its
  proxy answer, the signature and the claims of tokens: no state that another
  part reads. That these resources need no token is in `Requests`.
* Measurements (`measurement.py`): timing for the log, read by no other part.
* Command line and configuration files, apart from the order in which they
  configure logs and prepare storage: parsing, and pure I/O.
* Text: SQL strings, YAML and JSON, identifiers, the conversion of values for log
  messages and their layout on stdout, accessors in access log entries.
* PostgreSQL, psycopg2, SQLAlchemy and Bottle are external and modelled by how
  the code uses them; `PROJECT.json` marks these definitions.

## 7. Plan

Every component with state is modelled, and of the safety properties that the runs
check all but those named above are proved. A type invariant of
`Requests` in full is not: that `counter` stays within its bound is a sum over the
threads, by induction over them; the rest of it is in `DoneInv` and `TrailInv`. What
is left to do is to shorten the long proofs (`ItemTablesProofs`, `ItemStorageProofs`,
`ResourceTypesProofs`) by lemmas they could share.
