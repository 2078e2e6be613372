---------------------------- MODULE StructuredLog ----------------------------
(***************************************************************************)
(* The structured log: how its writers are configured, what their filters  *)
(* let through, and how the threads of a worker process share a log file   *)
(* that is rotated when it is full.                                        *)
(*                                                                         *)
(* Nothing locks a FileSlogWriter.  Every call on its file and every       *)
(* assignment is a step; a call on a file that another thread has closed,  *)
(* and renaming a file that another has renamed, raise from log().         *)
(***************************************************************************)
EXTENDS Integers, Sequences, FiniteSets, Functions

CONSTANTS
  Threads,
  Main,            \* the thread that starts the program
  Configurations,  \* the log options, in the order they are looked up
  Startup,         \* the message logged at the end of the configuration
  Messages,        \* the messages that requests log: field -> value
  MaxCalls,        \* bound: calls of log by each thread of the worker
  MaxSecond        \* bound: seconds of the clock

ASSUME MainAssumption == Main \in Threads
ASSUME BoundsAssumption == MaxCalls \in Nat /\ MaxSecond \in Nat
\* Only the start of the program logs that the program starts.
ASSUME StartupAssumption == Startup \notin Messages
\* The options of a configuration are in order, and no two of them name one
\* log; so are the specs of a filter, each of which includes or excludes.
ASSUME ConfigurationsAssumption ==
  \A c \in Configurations :
    /\ c \in Seq(Range(c))
    /\ \A i, j \in DOMAIN c : c[i].log = c[j].log => i = j
    /\ \A i \in DOMAIN c : "filter" \in DOMAIN c[i] =>
         /\ c[i].filter \in Seq(Range(c[i].filter))
         /\ \A spec \in Range(c[i].filter) :
              "include" \in DOMAIN spec => spec.include \in BOOLEAN

VARIABLES
  options,     \* what the configuration file says
  todo,        \* those of the options not yet configured
  phase,       \* configuring, starting, worker or failed
  pid,         \* the process: master, and after the fork worker
  writers,     \* the options whose writers the log has
  handle,      \* log -> its _log_file: the file, and is it open?
  paths,       \* path -> file, for all paths there are
  content,     \* file -> its messages; the files are numbered
  clock,       \* seconds
  pc, current, \* of each thread: where it is in log(), with which message,
  nth, opened, \*   at which writer, and the file it has just opened
  counter,     \* _msg_counter
  called,      \* calls of log by each thread
  returned,    \* history: the messages whose log() has returned
  renamed      \* history: file -> the log and process that rotated it, and when

configVars == <<options, todo, phase, pid, writers>>
fileVars   == <<handle, paths, content, renamed>>
vars == <<configVars, fileVars, clock, pc, current, nth, opened, counter,
          called, returned>>

-----------------------------------------------------------------------------
(* Filters.  A filter is a sequence of specs, of which one has to allow a  *)
(* message; they are tried in order.  A spec without a field has no rule   *)
(* to ask, which raises an AttributeError.                                 *)

Selects(spec, m) ==
  /\ spec.field \in DOMAIN m
  /\ "value" \in DOMAIN spec => m[spec.field] = spec.value
  /\ {"value", "regexp"} \cap DOMAIN spec = {"regexp"} =>
       m[spec.field] \in spec.regexp

\* A spec that excludes is taken for one that includes.
RuleOfIncluded(spec, m) == Selects(spec, m)

RuleAllows(spec, m) ==
  IF "include" \in DOMAIN spec /\ ~spec.include
  THEN ~Selects(spec, m)
  ELSE Selects(spec, m)

HasNoRule(spec) == "field" \notin DOMAIN spec

FilterOutcome(option, m) ==
  IF "filter" \notin DOMAIN option THEN "allows"
  ELSE LET specs == option.filter
           decisive == {i \in DOMAIN specs :
                          HasNoRule(specs[i]) \/ RuleAllows(specs[i], m)}
       IN CASE decisive = {} -> "denies"
            [] \E i \in decisive : /\ HasNoRule(specs[i])
                                   /\ \A j \in decisive : i <= j -> "raises"
            [] OTHER -> "allows"

-----------------------------------------------------------------------------
(* Files.  A stream, stdout or syslog, is a file that is never closed and  *)
(* never renamed.                                                          *)

IsFile(option)  == option.to = "file"
PathOf(option)  == IF IsFile(option) THEN <<option.log, pid>> ELSE <<option.log>>
\* The name of a rotated file tells the day, and not the second.
RotatedOnDay(option)    == <<option.log, pid, 0>>
RotatedFilename(option) == <<option.log, pid, clock>>

\* open(path, 'a'): makes the file if there is none.
Existing(path)  == path \in DOMAIN paths
FileAt(path)    == IF Existing(path) THEN paths[path] ELSE Len(content) + 1
OpenForAppend(path) ==
  IF Existing(path) THEN UNCHANGED <<paths, content>>
  ELSE /\ paths' = [p \in DOMAIN paths \cup {path} |->
                      IF p = path THEN FileAt(path) ELSE paths[p]]
       /\ content' = Append(content, {})

Writer(t) == writers[nth[t]]
FileOf(t) == handle[Writer(t).log]

-----------------------------------------------------------------------------
(* Configuration: each option makes its writer, closes all writers that    *)
(* the log has so far, and adds its own.                                   *)

Init ==
  /\ options \in Configurations
  /\ todo = options
  /\ phase = "configuring" /\ pid = "master"
  /\ writers = <<>>
  /\ handle = <<>> /\ paths = <<>> /\ content = <<>> /\ renamed = <<>>
  /\ clock = 0
  /\ pc = [t \in Threads |-> "idle"]
  /\ current = [t \in Threads |-> [number |-> 0, fields |-> Startup]]
  /\ nth = [t \in Threads |-> 1] /\ opened = [t \in Threads |-> 0]
  /\ counter = 0
  /\ called = [t \in Threads |-> 0]
  /\ returned = {}

threadVars == <<clock, pc, current, nth, opened, counter, called, returned>>

\* A file of filters that is not there cannot be opened, an empty filter
\* raises NoFilter, and an unknown stdout-... is no log.
CannotConfigure(option) ==
  \/ "missing" \in DOMAIN option
  \/ "filter" \in DOMAIN option /\ option.filter = <<>>
  \/ option.to = "unknown"

ConfigureFails ==
  /\ phase = "configuring" /\ todo # <<>>
  /\ CannotConfigure(Head(todo))
  /\ phase' = "failed"
  /\ UNCHANGED <<options, todo, pid, writers, fileVars, threadVars>>

\* close() forgets to take the writers that it closes off the list.
ConfigureKeepsWriters ==
  /\ phase = "configuring" /\ todo # <<>>
  /\ ~CannotConfigure(Head(todo))
  /\ LET option == Head(todo)
         path   == PathOf(option)
     IN /\ OpenForAppend(path)
        /\ writers' = Append(writers, option)
        /\ handle' = [log \in DOMAIN handle \cup {option.log} |->
                        IF log = option.log
                        THEN [file |-> FileAt(path), open |-> TRUE]
                        ELSE [handle[log] EXCEPT !.open = FALSE]]
  /\ todo' = Tail(todo)
  /\ UNCHANGED <<options, phase, pid, renamed, threadVars>>

Configure ==
  /\ phase = "configuring" /\ todo # <<>>
  /\ ~CannotConfigure(Head(todo))
  /\ LET option == Head(todo)
         path   == PathOf(option)
     IN /\ OpenForAppend(path)
        /\ writers' = <<option>>
        /\ handle' = [log \in {option.log} |->
                        [file |-> FileAt(path), open |-> TRUE]]
  /\ todo' = Tail(todo)
  /\ UNCHANGED <<options, phase, pid, renamed, threadVars>>

Configured ==
  /\ phase = "configuring" /\ todo = <<>>
  /\ phase' = "starting"
  /\ UNCHANGED <<options, todo, pid, writers, fileVars, threadVars>>

\* uWSGI forks the worker, whose log reopens its files, now with the
\* worker's process id in their names.
ReopenedPath(option) ==
  IF IsFile(option) THEN <<option.log, "worker">> ELSE <<option.log>>

Fork ==
  /\ phase = "starting" /\ called[Main] = 1 /\ pc[Main] = "idle"
  /\ phase' = "worker" /\ pid' = "worker"
  /\ IF writers = <<>> THEN UNCHANGED <<handle, paths, content>>
     ELSE LET path == ReopenedPath(writers[1])
          IN /\ OpenForAppend(path)
             /\ handle' = [handle EXCEPT ![writers[1].log] =
                             [file |-> FileAt(path), open |-> TRUE]]
  /\ UNCHANGED <<options, todo, writers, renamed, threadVars>>

-----------------------------------------------------------------------------
(* A call of log().                                                        *)

Raise(t) ==
  /\ pc' = [pc EXCEPT ![t] = "idle"]
  /\ phase' = IF phase = "starting" THEN "failed" ELSE phase
  /\ UNCHANGED <<nth, returned>>

Return(t, message) ==
  /\ pc' = [pc EXCEPT ![t] = "idle"]
  /\ returned' = returned \cup {message}
  /\ UNCHANGED <<nth, phase>>

\* On to the next of the writers from the n-th on that gets the message.
Proceed(t, n, message) ==
  LET Outcome(i) == FilterOutcome(writers[i], message.fields)
      concerned  == {i \in n..Len(writers) : Outcome(i) # "denies"}
  IN \/ concerned = {} /\ Return(t, message)
     \/ \E i \in concerned :
          /\ \A j \in concerned : i <= j
          /\ IF Outcome(i) = "raises" THEN Raise(t)
             ELSE /\ pc' = [pc EXCEPT ![t] = "write"]
                  /\ nth' = [nth EXCEPT ![t] = i]
                  /\ UNCHANGED <<phase, returned>>

\* _add_extra_fields: the message gets its number.
Log(t) ==
  /\ pc[t] = "idle"
  /\ \/ phase = "starting" /\ t = Main /\ called[t] = 0
     \/ phase = "worker" /\ called[t] < MaxCalls + (IF t = Main THEN 1 ELSE 0)
  /\ \E fields \in (IF phase = "starting" THEN {Startup} ELSE Messages) :
       LET message == [number |-> counter + 1, fields |-> fields]
       IN /\ current' = [current EXCEPT ![t] = message]
          /\ Proceed(t, 1, message)
  /\ counter' = counter + 1
  /\ called' = [called EXCEPT ![t] = @ + 1]
  /\ UNCHANGED <<options, todo, pid, writers, fileVars, clock, opened>>

Continue(t) == Proceed(t, nth[t] + 1, current[t])

stepVars == <<options, todo, pid, writers, clock, current, counter, called>>

\* A ValueError: I/O operation on closed file.
OnClosedFile(t) == Raise(t) /\ UNCHANGED content

\* The text goes to the file with the flush, or with another thread's close
\* of the file before it.
WriteMessage(t) ==
  /\ pc[t] = "write"
  /\ IF ~FileOf(t).open THEN OnClosedFile(t)
     ELSE /\ content' = [content EXCEPT ![FileOf(t).file] = @ \cup {current[t]}]
          /\ IF IsFile(Writer(t))
             THEN /\ pc' = [pc EXCEPT ![t] = "measure"]
                  /\ UNCHANGED <<nth, phase, returned>>
             ELSE Continue(t)
  /\ UNCHANGED <<stepVars, handle, paths, renamed, opened>>

\* The flush, and the tell() of _rotate.
Measure(t) ==
  /\ pc[t] = "measure"
  /\ IF ~FileOf(t).open THEN OnClosedFile(t)
     ELSE /\ IF Cardinality(content[FileOf(t).file]) >= Writer(t).max
             THEN /\ pc' = [pc EXCEPT ![t] = "close"]
                  /\ UNCHANGED <<nth, phase, returned>>
             ELSE Continue(t)
          /\ UNCHANGED content
  /\ UNCHANGED <<stepVars, handle, paths, renamed, opened>>

CloseFull(t) ==
  /\ pc[t] = "close"
  /\ handle' = [handle EXCEPT ![Writer(t).log].open = FALSE]
  /\ pc' = [pc EXCEPT ![t] = "rename"]
  /\ UNCHANGED <<stepVars, paths, content, renamed, nth, opened, phase, returned>>

\* os.rename replaces what the new path was.
Rename(t) ==
  /\ pc[t] = "rename"
  /\ LET old == PathOf(Writer(t))
         new == RotatedFilename(Writer(t))
     IN IF ~Existing(old)
        THEN Raise(t) /\ UNCHANGED <<paths, renamed>>
        ELSE /\ paths' = [p \in (DOMAIN paths \ {old}) \cup {new} |->
                            IF p = new THEN paths[old] ELSE paths[p]]
             /\ renamed' = [i \in DOMAIN renamed \cup {paths[old]} |->
                              IF i = paths[old] THEN <<Writer(t).log, pid, clock>>
                              ELSE renamed[i]]
             /\ pc' = [pc EXCEPT ![t] = "open"]
             /\ UNCHANGED <<nth, phase, returned>>
  /\ UNCHANGED <<stepVars, handle, content, opened>>

\* The new file is opened, but not kept.
OpenNewUnkept(t) ==
  /\ pc[t] = "open"
  /\ OpenForAppend(PathOf(Writer(t)))
  /\ pc' = [pc EXCEPT ![t] = "assign"]
  /\ UNCHANGED <<stepVars, handle, renamed, nth, opened, phase, returned>>

OpenNew(t) ==
  /\ pc[t] = "open"
  /\ OpenForAppend(PathOf(Writer(t)))
  /\ opened' = [opened EXCEPT ![t] = FileAt(PathOf(Writer(t)))]
  /\ pc' = [pc EXCEPT ![t] = "assign"]
  /\ UNCHANGED <<stepVars, handle, renamed, nth, phase, returned>>

\* The rotation leaves the closed file in its place.
AssignNothing(t) ==
  /\ pc[t] = "assign"
  /\ opened' = [opened EXCEPT ![t] = 0]
  /\ Continue(t)
  /\ UNCHANGED <<stepVars, handle, paths, content, renamed>>

AssignFile(t) ==
  /\ pc[t] = "assign"
  /\ handle' = [handle EXCEPT ![Writer(t).log] =
                  [file |-> opened[t], open |-> TRUE]]
  /\ opened' = [opened EXCEPT ![t] = 0]
  /\ Continue(t)
  /\ UNCHANGED <<stepVars, paths, content, renamed>>

Tick ==
  /\ clock < MaxSecond
  /\ clock' = clock + 1
  /\ UNCHANGED <<configVars, fileVars, pc, current, nth, opened, counter,
                 called, returned>>

Step(t) ==
  \/ WriteMessage(t)
  \/ Measure(t)
  \/ CloseFull(t)
  \/ Rename(t)
  \/ OpenNew(t)
  \/ AssignFile(t)

Next ==
  \/ Configure
  \/ ConfigureFails
  \/ Configured
  \/ Fork
  \/ Tick
  \/ \E t \in Threads : Log(t) \/ Step(t)

\* The interpreter runs every thread that can run.
Fairness == \A t \in Threads : WF_vars(Step(t))

Spec == Init /\ [][Next]_vars /\ Fairness

-----------------------------------------------------------------------------
(* Properties.                                                             *)

\* Every writer has its file, and a thread is in log() only at a writer that
\* the log has.
TypeOK ==
  /\ options \in Configurations
  /\ phase \in {"configuring", "starting", "worker", "failed"}
  /\ pid \in {"master", "worker"}
  /\ writers \in Seq(Range(options))
  /\ DOMAIN handle = {writers[i].log : i \in DOMAIN writers}
  /\ \A log \in DOMAIN handle :
       handle[log] \in [file : DOMAIN content, open : BOOLEAN]
  /\ Range(paths) \subseteq DOMAIN content
  /\ pc \in [Threads -> {"idle", "write", "measure", "close", "rename",
                         "open", "assign"}]
  /\ \A t \in Threads : pc[t] # "idle" => nth[t] \in DOMAIN writers
  /\ \A t \in Threads : pc[t] = "assign" => opened[t] \in DOMAIN content
  /\ called \in [Threads -> 0..MaxCalls + 1]

\* What a filter asks for, in the words of its options: one of its specs
\* names the message, or names it not to be included and is about another.
NamedBy(spec, m) ==
  \E field \in DOMAIN m :
    /\ field = spec.field
    /\ IF "value" \in DOMAIN spec THEN m[field] = spec.value
       ELSE "regexp" \in DOMAIN spec => m[field] \in spec.regexp

AskedFor(option, m) ==
  "filter" \in DOMAIN option =>
    \E spec \in Range(option.filter) :
      /\ "field" \in DOMAIN spec
      /\ NamedBy(spec, m) <=> ("include" \in DOMAIN spec => spec.include)

FilesOf(log)     == {i \in DOMAIN content :
                       \E p \in DOMAIN paths : p[1] = log /\ paths[p] = i}
Overwritten(log) == {i \in DOMAIN renamed :
                       /\ renamed[i][1] = log
                       /\ i \notin FilesOf(log)
                       /\ \E j \in DOMAIN renamed : j # i /\ renamed[j] = renamed[i]}

IsIn(message, files) == \E i \in files : message \in content[i]

\* A closed log file comes back: as long as it is closed some thread is on its
\* way to open it, and as long as there is no file of its name some thread is
\* about to make one, whichever of the threads that rotate it at once is told
\* that the file to rename is gone.
WriterComesBack ==
  \A i \in DOMAIN writers : IsFile(writers[i]) =>
    /\ handle[writers[i].log].open \/
         \E t \in Threads : nth[t] = i /\ pc[t] \in {"rename", "open", "assign"}
    /\ Existing(PathOf(writers[i])) \/
         \E t \in Threads : nth[t] = i /\ pc[t] = "open"

\* A message whose log() has returned is in one of the files, under its name
\* or a rotated one, of every writer whose filter asks for it, however the
\* threads' rotations interleave; unless its file was rotated in the second of
\* another rotation, which took its name.
ReturnedIsKept ==
  \A m \in returned, i \in DOMAIN writers :
    (AskedFor(writers[i], m.fields) /\ phase # "configuring") =>
       IsIn(m, FilesOf(writers[i].log) \cup Overwritten(writers[i].log))

\* Nothing is in a log but what its filter asks for, and the files that carry
\* the id of a process have that process's messages alone.
OnlyAskedForIsLogged ==
  \A p \in DOMAIN paths, i \in DOMAIN options :
    p[1] = options[i].log =>
      \A m \in content[paths[p]] :
        /\ AskedFor(options[i], m.fields)
        /\ Len(p) > 1 => (p[2] = "master" <=> m.fields = Startup)

\* Writing resumes: a log file does not stay closed.
SomeLogIsClosed == \E log \in DOMAIN handle : ~handle[log].open
WritingResumes  == SomeLogIsClosed ~> ~SomeLogIsClosed

\* NEWS: "Qvarn can now log up to five log files simultanously.  Each file can
\* have its own filtering rules."  (Each option closes the writers of those
\* before it.)
EveryLogIsWritten ==
  \A m \in returned, i \in DOMAIN options :
    AskedFor(options[i], m.fields) =>
      IsIn(m, FilesOf(options[i].log) \cup Overwritten(options[i].log))

=============================================================================
