------------------------- MODULE StructuredLogProofs -------------------------
(***************************************************************************)
(* A log keeps what its filter asks for, and nothing else, through all     *)
(* rotations of its file by all threads.                                   *)
(*                                                                         *)
(* No lock orders the steps of the threads, so at no moment does the       *)
(* writer's file have to be open, nor be found under its own name, nor     *)
(* have any name at all.  The proofs follow every file from the name it    *)
(* was made under to the name it was rotated to and to the file that took  *)
(* that name away from it.                                                 *)
(***************************************************************************)
EXTENDS StructuredLog, FiniteSetTheorems, WellFoundedInduction, TLAPS

Entry == [number : Nat, fields : Messages \cup {Startup}]
Pids  == {"master", "worker"}
Logs  == {options[i].log : i \in DOMAIN options}

\* The names there are of files: of streams, of a process, and of rotated files.
Bare    == {<<l>> : l \in Logs}
Own     == Logs \X Pids
Rotated == Logs \X Pids \X Nat

Rotating == {"measure", "close", "rename", "open", "assign"}

\* The file i is the option's in this process, or was until it lost its name.
Belongs(i, option) ==
  \/ /\ i \in Range(paths)
     /\ \A p \in DOMAIN paths : paths[p] = i =>
          p[1] = option.log /\ (p \in Own \cup Rotated => p[2] = pid)
  \/ /\ i \in DOMAIN renamed
     /\ renamed[i][1] = option.log /\ renamed[i][2] = pid

Kept(log) == FilesOf(log) \cup Overwritten(log)

-----------------------------------------------------------------------------
(***************************************************************************)
(* The first invariant: at most one writer, a place for every thread, and  *)
(* names for the files.                                                    *)
(***************************************************************************)
ConfigOK ==
  /\ options \in Configurations
  /\ todo \in Seq(Range(options))
  /\ writers \in Seq(Range(options)) /\ Len(writers) <= 1
  /\ phase \in {"configuring", "starting", "worker", "failed"}
  /\ pid = IF phase = "worker" THEN "worker" ELSE "master"

ThreadsOK ==
  /\ pc \in [Threads -> {"idle", "write"} \cup Rotating]
  /\ nth \in [Threads -> Nat] /\ opened \in [Threads -> Nat]
  /\ current \in [Threads -> Entry]
  /\ called \in [Threads -> 0..MaxCalls + 1]
  /\ counter \in Nat /\ clock \in Nat /\ returned \subseteq Entry
  /\ phase = "configuring" => returned = {}
  /\ \A t \in Threads :
       /\ phase = "configuring" => pc[t] = "idle"
       /\ phase # "worker" /\ t # Main => pc[t] = "idle"
       /\ pc[t] # "idle" => Len(writers) = 1 /\ nth[t] = 1
       /\ pc[t] \in Rotating => IsFile(writers[1])

FilesOK ==
  /\ content \in Seq(SUBSET Entry)
  /\ paths \in [DOMAIN paths -> DOMAIN content]
  /\ DOMAIN paths \subseteq Bare \cup Own \cup Rotated
  /\ \A p, q \in DOMAIN paths : paths[p] = paths[q] => p = q
  /\ renamed \in [DOMAIN renamed -> Rotated]
  /\ DOMAIN renamed \subseteq DOMAIN content
  /\ \A p \in DOMAIN paths :
       IF p \in Rotated
       THEN paths[p] \in DOMAIN renamed /\ renamed[paths[p]] = p
       ELSE paths[p] \notin DOMAIN renamed
  /\ \A i \in DOMAIN renamed : i \notin Range(paths) =>
       \E j \in DOMAIN renamed : j # i /\ renamed[j] = renamed[i]

HandlesOK ==
  /\ DOMAIN handle = {writers[i].log : i \in DOMAIN writers}
  /\ \A log \in DOMAIN handle :
       handle[log] \in [file : DOMAIN content, open : BOOLEAN]
  /\ Len(writers) = 1 => Belongs(handle[writers[1].log].file, writers[1])
  /\ \A t \in Threads : pc[t] = "assign" =>
       opened[t] \in DOMAIN content /\ Belongs(opened[t], writers[1])

LogInv == ConfigOK /\ ThreadsOK /\ FilesOK /\ HandlesOK

(***************************************************************************)
(* What a thread in log() is about to write and has written.               *)
(***************************************************************************)
ToWrite ==
  \A t \in Threads : pc[t] # "idle" =>
    /\ AskedFor(writers[1], current[t].fields)
    /\ pid = "master" <=> current[t].fields = Startup

Written ==
  \A t \in Threads : pc[t] \in Rotating =>
    IsIn(current[t], Kept(writers[1].log))

-----------------------------------------------------------------------------
(***************************************************************************)
(* Filters.                                                                *)
(***************************************************************************)

\* A finite set of numbers has a least one: no initial part of it is within
\* all the others.
LEMMA LeastNumber ==
  ASSUME NEW S, S \subseteq Nat, IsFiniteSet(S), S # {}
  PROVE  \E i \in S : \A j \in S : i <= j
<1> DEFINE UpTo(i) == {j \in S : j <= i}
           parts == {UpTo(i) : i \in S}
<1>1. IsWellFoundedOn(StrictSubsetOrdering(S), FiniteSubsetsOf(S))
  BY FS_StrictSubsetOrderingWellFounded
<1>2. parts \subseteq FiniteSubsetsOf(S) /\ parts # {}
  <2>1. \A i \in S : UpTo(i) \subseteq S /\ IsFiniteSet(UpTo(i))
    BY FS_Subset
  <2>2. \A i \in S : UpTo(i) \in FiniteSubsetsOf(S)
    BY <2>1 DEF FiniteSubsetsOf
  <2> QED BY <2>2
<1> HIDE DEF parts
<1>3. \E x \in parts : \A y \in parts : <<y, x>> \notin StrictSubsetOrdering(S)
  BY <1>1, <1>2, WFMin
<1> USE DEF parts
<1>4. PICK i \in S : \A j \in S :
               <<UpTo(j), UpTo(i)>> \notin StrictSubsetOrdering(S)
  BY <1>3
<1>5. ASSUME NEW j \in S, ~(i <= j)
      PROVE  FALSE
  <2>1. i \in Nat /\ j \in Nat /\ j < i /\ \A k \in S : k \in Nat
    BY <1>5
  <2>2. UpTo(j) \subseteq UpTo(i)
    <3>1. \A k \in S : k <= j => k <= i
      BY <2>1
    <3> QED BY <3>1
  <2>3. i \notin UpTo(j) /\ i \in UpTo(i)
    BY <2>1
  <2>4. <<UpTo(j), UpTo(i)>> \in (SUBSET S) \X (SUBSET S)
    OBVIOUS
  <2> HIDE DEF UpTo
  <2>5. <<UpTo(j), UpTo(i)>> \in StrictSubsetOrdering(S)
    BY <2>2, <2>3, <2>4 DEF StrictSubsetOrdering
  <2> QED BY <1>4, <2>5
<1> QED BY <1>5

\* A spec with a rule allows what it names or, when it excludes, what it does
\* not name.
LEMMA RuleIsSpec ==
  ASSUME NEW spec, NEW m, "field" \in DOMAIN spec,
         "include" \in DOMAIN spec => spec.include \in BOOLEAN
  PROVE  RuleAllows(spec, m) <=>
           (NamedBy(spec, m) <=> ("include" \in DOMAIN spec => spec.include))
<1>1. Selects(spec, m) <=> NamedBy(spec, m)
  <2>1. ({"value", "regexp"} \cap DOMAIN spec = {"regexp"}) <=>
          ("value" \notin DOMAIN spec /\ "regexp" \in DOMAIN spec)
    OBVIOUS
  <2> QED BY <2>1 DEF Selects, NamedBy
<1> QED BY <1>1 DEF RuleAllows

LEMMA AllowedIsAskedFor ==
  ASSUME NEW c \in Configurations, NEW i \in DOMAIN c, NEW m,
         FilterOutcome(c[i], m) = "allows"
  PROVE  AskedFor(c[i], m)
<1> DEFINE specs    == c[i].filter
           decisive == {k \in DOMAIN specs :
                          HasNoRule(specs[k]) \/ RuleAllows(specs[k], m)}
<1> SUFFICES ASSUME "filter" \in DOMAIN c[i]
             PROVE  \E spec \in Range(specs) :
                      /\ "field" \in DOMAIN spec
                      /\ NamedBy(spec, m) <=>
                           ("include" \in DOMAIN spec => spec.include)
  BY DEF AskedFor
<1>1. /\ specs \in Seq(Range(specs))
      /\ \A spec \in Range(specs) :
           "include" \in DOMAIN spec => spec.include \in BOOLEAN
  BY ConfigurationsAssumption
<1>2. /\ decisive # {}
      /\ ~ \E k \in decisive : /\ HasNoRule(specs[k])
                               /\ \A j \in decisive : k <= j
  BY DEF FilterOutcome
<1>3. decisive \subseteq Nat /\ IsFiniteSet(decisive)
  <2>1. DOMAIN specs = 1..Len(specs) /\ Len(specs) \in Nat
    BY <1>1
  <2>2. decisive \subseteq 1..Len(specs) /\ 1..Len(specs) \subseteq Nat
    BY <2>1
  <2>3. IsFiniteSet(1..Len(specs))
    BY <2>1, FS_Interval
  <2> HIDE DEF decisive
  <2> QED BY <2>2, <2>3, FS_Subset
<1>4. PICK k \in decisive : \A j \in decisive : k <= j
  BY <1>2, <1>3, LeastNumber
<1>5. ~HasNoRule(specs[k]) /\ RuleAllows(specs[k], m) /\ specs[k] \in Range(specs)
  BY <1>2, <1>4 DEF Range
<1>6. "field" \in DOMAIN specs[k]
  BY <1>5 DEF HasNoRule
<1> QED BY <1>1, <1>5, <1>6, RuleIsSpec

LEMMA DeniedIsNotAskedFor ==
  ASSUME NEW c \in Configurations, NEW i \in DOMAIN c, NEW m,
         FilterOutcome(c[i], m) = "denies"
  PROVE  ~AskedFor(c[i], m)
<1> DEFINE specs    == c[i].filter
           decisive == {k \in DOMAIN specs :
                          HasNoRule(specs[k]) \/ RuleAllows(specs[k], m)}
<1>1. "filter" \in DOMAIN c[i] /\ decisive = {}
  BY DEF FilterOutcome
<1>2. \A spec \in Range(specs) :
        "include" \in DOMAIN spec => spec.include \in BOOLEAN
  BY <1>1, ConfigurationsAssumption
<1>3. ASSUME NEW spec \in Range(specs), "field" \in DOMAIN spec
      PROVE  ~RuleAllows(spec, m)
  BY <1>1, <1>3 DEF Range
<1> QED BY <1>1, <1>2, <1>3, RuleIsSpec DEF AskedFor

-----------------------------------------------------------------------------
(***************************************************************************)
(* Options and names.                                                      *)
(***************************************************************************)

\* Options are known by their logs.
LEMMA OptionFacts ==
  ASSUME ConfigOK
  PROVE  /\ options \in Seq(Range(options))
         /\ \A i, j \in DOMAIN options :
              options[i].log = options[j].log => i = j
         /\ \A option \in Range(options) :
              /\ option.log \in Logs
              /\ \A m : /\ FilterOutcome(option, m) = "allows" => AskedFor(option, m)
                        /\ FilterOutcome(option, m) = "denies" => ~AskedFor(option, m)
<1>1. options \in Configurations
  BY DEF ConfigOK
<1> QED BY <1>1, ConfigurationsAssumption, AllowedIsAskedFor, DeniedIsNotAskedFor
        DEF Range, Logs

\* The log has one writer or none.
LEMMA WriterFacts ==
  ASSUME ConfigOK
  PROVE  /\ Len(writers) = 0 \/ Len(writers) = 1
         /\ writers = <<>> <=> Len(writers) = 0
         /\ Len(writers) = 0 => DOMAIN writers = {}
         /\ Len(writers) = 1 => DOMAIN writers = {1} /\ writers[1] \in Range(options)
<1>1. writers \in Seq(Range(options)) /\ Len(writers) <= 1 /\ Len(writers) \in Nat
  BY DEF ConfigOK
<1> QED BY <1>1

\* No name is of two kinds.
LEMMA NameFacts ==
  /\ \A p \in Bare : Len(p) = 1 /\ p \notin Own /\ p \notin Rotated
  /\ \A p \in Own : Len(p) = 2 /\ p = <<p[1], p[2]>> /\ p \notin Rotated
  /\ \A p \in Rotated : Len(p) = 3
<1>1. \A p \in Bare : Len(p) = 1
  BY DEF Bare
<1>2. \A p \in Own : Len(p) = 2 /\ p = <<p[1], p[2]>>
  BY DEF Own
<1>3. \A p \in Rotated : Len(p) = 3
  <2>1. \A l, q, c : Len(<<l, q, c>>) = 3
    OBVIOUS
  <2> QED BY <2>1 DEF Rotated
<1> QED BY <1>1, <1>2, <1>3

\* The names a writer's file has and gets.
LEMMA PathFacts ==
  ASSUME ConfigOK, NEW option \in Range(options)
  PROVE  /\ PathOf(option) \in Bare \cup Own /\ PathOf(option)[1] = option.log
         /\ PathOf(option) \in Own <=> IsFile(option)
         /\ IsFile(option) => PathOf(option)[2] = pid
         /\ ReopenedPath(option) \in Bare \cup Own
         /\ ReopenedPath(option)[1] = option.log
         /\ ReopenedPath(option) \in Own => ReopenedPath(option)[2] = "worker"
<1>1. option.log \in Logs /\ pid \in Pids /\ "worker" \in Pids
  BY OptionFacts DEF ConfigOK, Pids
<1>2. CASE IsFile(option)
  BY <1>1, <1>2 DEF PathOf, ReopenedPath, Own
<1>3. CASE ~IsFile(option)
  <2>1. /\ PathOf(option) = <<option.log>>
        /\ ReopenedPath(option) = <<option.log>> /\ <<option.log>> \in Bare
    BY <1>1, <1>3 DEF PathOf, ReopenedPath, Bare
  <2> QED BY <1>3, <2>1, NameFacts
<1> QED BY <1>2, <1>3

\* A file is kept under its name, or under that of the file which took it.
LEMMA KeptIs ==
  ASSUME FilesOK, NEW log, NEW i
  PROVE  i \in Kept(log) <=>
           \/ \E p \in DOMAIN paths : p[1] = log /\ paths[p] = i
           \/ /\ i \in DOMAIN renamed /\ renamed[i][1] = log
              /\ \E j \in DOMAIN renamed : j # i /\ renamed[j] = renamed[i]
<1>1. Range(paths) \subseteq DOMAIN content
  BY DEF FilesOK, Range
<1> QED BY <1>1 DEF Kept, FilesOf, Overwritten, Range

\* What belongs to an option is kept for it.
LEMMA BelongingIsKept ==
  ASSUME FilesOK, NEW option, NEW i, Belongs(i, option)
  PROVE  i \in Kept(option.log)
<1>1. CASE i \in Range(paths)
  <2>1. PICK p \in DOMAIN paths : paths[p] = i
    BY <1>1 DEF Range
  <2>2. p[1] = option.log
    BY <2>1 DEF Belongs, FilesOK
  <2> QED BY <2>1, <2>2, KeptIs
<1>2. CASE i \notin Range(paths)
  BY <1>2, KeptIs DEF Belongs, FilesOK
<1> QED BY <1>1, <1>2

-----------------------------------------------------------------------------
(***************************************************************************)
(* What steps do to the files.  Files that are there stay, with all that   *)
(* is in them; so does what they are kept for.                             *)
(***************************************************************************)
FilesGrow ==
  /\ \A i \in DOMAIN content : i \in DOMAIN content' /\ content[i] \subseteq content'[i]
  /\ \A log, i : i \in Kept(log) => i \in Kept(log)'

LEMMA KeptGrows ==
  ASSUME FilesOK, FilesGrow, NEW m, NEW log, IsIn(m, Kept(log))
  PROVE  IsIn(m, Kept(log))'
<1>1. PICK i \in Kept(log) : m \in content[i]
  BY DEF IsIn
<1>2. i \in DOMAIN content
  BY DEF Kept, FilesOf, Overwritten, FilesOK
<1> QED BY <1>1, <1>2 DEF FilesGrow, IsIn

LEMMA SameFiles ==
  ASSUME FilesOK, UNCHANGED <<options, paths, renamed>>,
         content' = content
         \/ \E f \in DOMAIN content, e \in Entry :
              content' = [content EXCEPT ![f] = @ \cup {e}]
  PROVE  /\ FilesOK' /\ FilesGrow
         /\ DOMAIN content' = DOMAIN content
<1>1. /\ content' \in Seq(SUBSET Entry) /\ DOMAIN content' = DOMAIN content
      /\ \A i \in DOMAIN content : content[i] \subseteq content'[i]
  BY DEF FilesOK
<1>2. Bare' = Bare /\ Own' = Own /\ Rotated' = Rotated
  BY DEF Bare, Own, Rotated, Logs
<1>3. FilesOK'
  BY <1>1, <1>2 DEF FilesOK, Range
<1>4. \A log, i : i \in Kept(log) => i \in Kept(log)'
  BY <1>1 DEF Kept, FilesOf, Overwritten
<1> QED BY <1>1, <1>3, <1>4 DEF FilesGrow

LEMMA BelongsSame ==
  ASSUME UNCHANGED <<options, paths, renamed, pid>>, NEW i, NEW option
  PROVE  Belongs(i, option) => Belongs(i, option)'
BY DEF Belongs, Own, Rotated, Logs, Range

\* open(path, 'a').
LEMMA OpenFacts ==
  ASSUME FilesOK, NEW path \in Bare \cup Own, OpenForAppend(path)
  PROVE  /\ DOMAIN paths' = DOMAIN paths \cup {path}
         /\ \A p \in DOMAIN paths : paths'[p] = paths[p]
         /\ paths'[path] = FileAt(path)
         /\ paths' \in [DOMAIN paths' -> DOMAIN content']
         /\ content' \in Seq(SUBSET Entry)
         /\ FileAt(path) \in DOMAIN content' /\ FileAt(path) \in Nat
         /\ \A i \in DOMAIN content : i \in DOMAIN content' /\ content'[i] = content[i]
         /\ path \notin DOMAIN paths =>
              FileAt(path) \notin DOMAIN content /\ content'[FileAt(path)] = {}
<1>1. content \in Seq(SUBSET Entry) /\ Len(content) \in Nat
      /\ DOMAIN content = 1..Len(content)
  BY DEF FilesOK
<1>2. CASE path \in DOMAIN paths
  <2>1. /\ paths' = paths /\ content' = content /\ FileAt(path) = paths[path]
    BY <1>2 DEF OpenForAppend, Existing, FileAt
  <2>2. paths \in [DOMAIN paths -> DOMAIN content] /\ paths[path] \in DOMAIN content
    BY <1>2 DEF FilesOK
  <2>3. DOMAIN paths' = DOMAIN paths \cup {path}
    BY <1>2, <2>1
  <2>4. paths' \in [DOMAIN paths' -> DOMAIN content']
    BY <2>1, <2>2
  <2>5. FileAt(path) \in DOMAIN content' /\ FileAt(path) \in Nat
    BY <1>1, <2>1, <2>2
  <2> QED BY <1>1, <1>2, <2>1, <2>3, <2>4, <2>5
<1>3. CASE path \notin DOMAIN paths
  <2>1. /\ paths' = [p \in DOMAIN paths \cup {path} |->
                       IF p = path THEN Len(content) + 1 ELSE paths[p]]
        /\ content' = Append(content, {}) /\ FileAt(path) = Len(content) + 1
    BY <1>3 DEF OpenForAppend, Existing, FileAt
  <2>2. /\ content' \in Seq(SUBSET Entry) /\ Len(content') = Len(content) + 1
        /\ \A i \in 1..Len(content) : content'[i] = content[i]
        /\ content'[Len(content) + 1] = {}
    BY <1>1, <2>1
  <2>3. DOMAIN content' = 1..(Len(content) + 1)
    BY <2>2
  <2>4. \A p \in DOMAIN paths : paths[p] \in 1..Len(content)
    BY <1>1 DEF FilesOK
  <2> QED BY <1>1, <1>3, <2>1, <2>2, <2>3, <2>4
<1> QED BY <1>2, <1>3

LEMMA OpenFiles ==
  ASSUME FilesOK, NEW path \in Bare \cup Own, OpenForAppend(path),
         UNCHANGED <<options, renamed>>
  PROVE  /\ FilesOK' /\ FilesGrow
         /\ \A i \in DOMAIN content : \A option :
              pid' = pid /\ Belongs(i, option) => Belongs(i, option)'
         /\ \A option, f :
              (/\ f = FileAt(path) /\ path[1] = option.log
               /\ path \in Own => path[2] = pid') => Belongs(f, option)'
<1>1. /\ DOMAIN paths' = DOMAIN paths \cup {path}
      /\ \A p \in DOMAIN paths : paths'[p] = paths[p]
      /\ paths'[path] = FileAt(path)
      /\ paths' \in [DOMAIN paths' -> DOMAIN content']
      /\ content' \in Seq(SUBSET Entry)
      /\ \A i \in DOMAIN content : i \in DOMAIN content' /\ content'[i] = content[i]
      /\ path \notin DOMAIN paths => FileAt(path) \notin DOMAIN content
  BY OpenFacts
<1>2. /\ path \notin Rotated /\ Bare' = Bare /\ Own' = Own /\ Rotated' = Rotated
  BY NameFacts DEF Bare, Own, Rotated, Logs
<1>3. \A p, q \in DOMAIN paths' : paths'[p] = paths'[q] => p = q
  <2>1. \A p \in DOMAIN paths : paths[p] \in DOMAIN content
    BY DEF FilesOK
  <2> QED BY <1>1, <2>1 DEF FilesOK
<1>4. \A p \in DOMAIN paths' :
        IF p \in Rotated'
        THEN paths'[p] \in DOMAIN renamed' /\ renamed'[paths'[p]] = p
        ELSE paths'[p] \notin DOMAIN renamed'
  BY <1>1, <1>2 DEF FilesOK
<1>5. \A i \in Range(paths) : i \in Range(paths')
  BY <1>1 DEF Range
<1>6. FilesOK'
  <2>1. \A i \in DOMAIN renamed' : i \notin Range(paths)' =>
          \E j \in DOMAIN renamed' : j # i /\ renamed'[j] = renamed'[i]
    BY <1>5 DEF FilesOK
  <2>2. /\ DOMAIN paths' \subseteq Bare' \cup Own' \cup Rotated'
        /\ renamed' \in [DOMAIN renamed' -> Rotated']
        /\ DOMAIN renamed' \subseteq DOMAIN content'
    BY <1>1, <1>2 DEF FilesOK
  <2> QED BY <1>1, <1>3, <1>4, <2>1, <2>2 DEF FilesOK
<1>7. FilesGrow
  <2>1. ASSUME NEW log, NEW i, i \in Kept(log)
        PROVE  i \in Kept(log)'
    <3>1. \/ \E p \in DOMAIN paths : p[1] = log /\ paths[p] = i
          \/ /\ i \in DOMAIN renamed /\ renamed[i][1] = log
             /\ \E j \in DOMAIN renamed : j # i /\ renamed[j] = renamed[i]
      BY <2>1, KeptIs
    <3>2. i \in DOMAIN content
      BY <3>1 DEF FilesOK
    <3> QED BY <1>1, <3>1, <3>2 DEF Kept, FilesOf, Overwritten
  <2> QED BY <1>1, <2>1 DEF FilesGrow
<1>8. ASSUME NEW i \in DOMAIN content, NEW option, pid' = pid, Belongs(i, option)
      PROVE  Belongs(i, option)'
  <2>1. CASE i \in DOMAIN renamed /\ renamed[i][1] = option.log /\ renamed[i][2] = pid
    BY <1>8, <2>1 DEF Belongs
  <2>2. CASE /\ i \in Range(paths)
             /\ \A p \in DOMAIN paths : paths[p] = i =>
                  p[1] = option.log /\ (p \in Own \cup Rotated => p[2] = pid)
    BY <1>1, <1>2, <1>5, <1>8, <2>2 DEF Belongs
  <2> QED BY <1>8, <2>1, <2>2 DEF Belongs
<1>9. ASSUME NEW option, NEW f, f = FileAt(path), path[1] = option.log,
             path \in Own => path[2] = pid'
      PROVE  Belongs(f, option)'
  <2>1. f \in Range(paths')
    BY <1>1, <1>9 DEF Range
  <2>2. \A p \in DOMAIN paths' : paths'[p] = f => p = path
    BY <1>1, <1>3, <1>9
  <2>3. \A p \in DOMAIN paths' : paths'[p] = f =>
          p[1] = option.log /\ (p \in Own' \cup Rotated' => p[2] = pid')
    BY <1>2, <1>9, <2>2
  <2> QED BY <2>1, <2>3 DEF Belongs
<1> QED BY <1>6, <1>7, <1>8, <1>9

\* os.rename of a file of this process to a name with the time.
Renames(old, new) ==
  /\ paths' = [p \in (DOMAIN paths \ {old}) \cup {new} |->
                 IF p = new THEN paths[old] ELSE paths[p]]
  /\ renamed' = [i \in DOMAIN renamed \cup {paths[old]} |->
                   IF i = paths[old] THEN new ELSE renamed[i]]

LEMMA RenameFiles ==
  ASSUME FilesOK, NEW old \in Own \cap DOMAIN paths, NEW new \in Rotated,
         new[1] = old[1], new[2] = old[2], Renames(old, new),
         UNCHANGED <<options, content, pid>>
  PROVE  /\ FilesOK' /\ FilesGrow
         /\ \A i, option : Belongs(i, option) => Belongs(i, option)'
<1> DEFINE f == paths[old]
<1>1. /\ old \notin Rotated /\ old # new
      /\ Bare' = Bare /\ Own' = Own /\ Rotated' = Rotated
  BY NameFacts DEF Bare, Own, Rotated, Logs
<1>2. f \in DOMAIN content /\ f \notin DOMAIN renamed
  BY <1>1 DEF FilesOK
<1>3. /\ DOMAIN paths' = (DOMAIN paths \ {old}) \cup {new}
      /\ paths'[new] = f
      /\ \A p \in DOMAIN paths \ {old, new} : paths'[p] = paths[p]
  BY DEF Renames
<1>4. /\ DOMAIN renamed' = DOMAIN renamed \cup {f}
      /\ renamed'[f] = new
      /\ \A i \in DOMAIN renamed : renamed'[i] = renamed[i]
  BY <1>2 DEF Renames
<1>5. /\ paths' \in [DOMAIN paths' -> DOMAIN content']
      /\ renamed' \in [DOMAIN renamed' -> Rotated']
  <2>1. \A p \in DOMAIN paths : paths[p] \in DOMAIN content
    BY DEF FilesOK
  <2>2. \A i \in DOMAIN renamed : renamed[i] \in Rotated
    BY DEF FilesOK
  <2>3. paths' \in [DOMAIN paths' -> DOMAIN content']
    BY <1>2, <2>1 DEF Renames
  <2> QED BY <1>1, <2>2, <2>3 DEF Renames
<1> HIDE DEF f
<1>f. f = paths[old]
  BY DEF f
<1>6. \A p, q \in DOMAIN paths' : paths'[p] = paths'[q] => p = q
  <2>1. \A p \in DOMAIN paths \ {old} : paths[p] # f
    BY <1>f DEF FilesOK
  <2> QED BY <1>3, <2>1 DEF FilesOK
<1>7. \A p \in DOMAIN paths' :
        IF p \in Rotated'
        THEN paths'[p] \in DOMAIN renamed' /\ renamed'[paths'[p]] = p
        ELSE paths'[p] \notin DOMAIN renamed'
  <2>1. \A p \in DOMAIN paths \ {old} : paths[p] # f
    BY <1>f DEF FilesOK
  <2> QED BY <1>1, <1>3, <1>4, <2>1 DEF FilesOK
<1>8. ASSUME NEW i \in DOMAIN renamed, i \notin Range(paths)'
      PROVE  \E j \in DOMAIN renamed' : j # i /\ renamed'[j] = renamed'[i]
  <2>1. CASE i \in Range(paths)
    <3>1. PICK p \in DOMAIN paths : paths[p] = i
      BY <2>1 DEF Range
    <3>2. p # old
      BY <1>2, <1>f, <3>1
    <3>3. p = new
      BY <1>3, <1>8, <3>1, <3>2 DEF Range
    <3>4. renamed[i] = new
      BY <3>1, <3>3 DEF FilesOK
    <3> QED BY <1>2, <1>4, <3>4
  <2>2. CASE i \notin Range(paths)
    <3>1. PICK j \in DOMAIN renamed : j # i /\ renamed[j] = renamed[i]
      BY <2>2 DEF FilesOK
    <3> QED BY <1>4, <3>1
  <2> QED BY <2>1, <2>2
<1>9. FilesOK'
  <2>1. f \in Range(paths')
    BY <1>3 DEF Range
  <2>2. \A i \in DOMAIN renamed' : i \notin Range(paths)' =>
          \E j \in DOMAIN renamed' : j # i /\ renamed'[j] = renamed'[i]
    BY <1>4, <1>8, <2>1
  <2>3. /\ DOMAIN paths' \subseteq Bare' \cup Own' \cup Rotated'
        /\ DOMAIN renamed' \subseteq DOMAIN content'
    BY <1>1, <1>2, <1>3, <1>4 DEF FilesOK
  <2>4. content' \in Seq(SUBSET Entry)
    BY DEF FilesOK
  <2> QED BY <1>5, <1>6, <1>7, <2>2, <2>3, <2>4 DEF FilesOK
<1>10. FilesGrow
  <2>1. ASSUME NEW log, NEW i, i \in Kept(log)
        PROVE  \/ \E p \in DOMAIN paths' : p[1] = log /\ paths'[p] = i
               \/ /\ i \in DOMAIN renamed' /\ renamed'[i][1] = log
                  /\ \E j \in DOMAIN renamed' : j # i /\ renamed'[j] = renamed'[i]
    <3>1. CASE /\ i \in DOMAIN renamed /\ renamed[i][1] = log
               /\ \E j \in DOMAIN renamed : j # i /\ renamed[j] = renamed[i]
      BY <1>4, <3>1
    <3>2. CASE \E p \in DOMAIN paths : p[1] = log /\ paths[p] = i
      <4>1. PICK p \in DOMAIN paths : p[1] = log /\ paths[p] = i
        BY <3>2
      <4>2. CASE p = old
        BY <1>3, <1>f, <4>1, <4>2
      <4>3. CASE p = new
        <5>1. i \in DOMAIN renamed /\ renamed[i] = new
          BY <4>1, <4>3 DEF FilesOK
        <5> QED BY <1>2, <1>4, <4>1, <4>3, <5>1
      <4>4. CASE p # old /\ p # new
        BY <1>3, <4>1, <4>4
      <4> QED BY <4>2, <4>3, <4>4
    <3> QED BY <2>1, <3>1, <3>2, KeptIs
  <2>2. \A p \in DOMAIN paths' : paths'[p] \in DOMAIN content'
    BY <1>5
  <2>3. ASSUME NEW log, NEW i, i \in Kept(log)
        PROVE  i \in Kept(log)'
    BY <2>1, <2>2, <2>3 DEF Kept, FilesOf, Overwritten
  <2> QED BY <2>3 DEF FilesGrow
<1>11. ASSUME NEW i, NEW option, Belongs(i, option)
       PROVE  Belongs(i, option)'
  <2>1. CASE i \in DOMAIN renamed /\ renamed[i][1] = option.log /\ renamed[i][2] = pid
    BY <1>4, <2>1 DEF Belongs
  <2>2. CASE /\ i \in Range(paths)
             /\ \A p \in DOMAIN paths : paths[p] = i =>
                  p[1] = option.log /\ (p \in Own \cup Rotated => p[2] = pid)
    <3>1. PICK p \in DOMAIN paths : paths[p] = i
      BY <2>2 DEF Range
    <3>2. p[1] = option.log /\ (p \in Own \cup Rotated => p[2] = pid)
      BY <2>2, <3>1
    <3>3. CASE p = old
      BY <1>4, <1>f, <3>1, <3>2, <3>3 DEF Belongs
    <3>4. CASE p = new
      <4>1. i \in DOMAIN renamed /\ renamed[i] = new
        BY <3>1, <3>4 DEF FilesOK
      <4> QED BY <1>4, <3>2, <3>4, <4>1 DEF Belongs
    <3>5. CASE p # old /\ p # new
      <4>1. i \in Range(paths')
        BY <1>3, <3>1, <3>5 DEF Range
      <4>2. \A q \in DOMAIN paths' : paths'[q] = i => q = p
        BY <1>3, <1>6, <3>1, <3>5
      <4> QED BY <1>1, <3>2, <4>1, <4>2 DEF Belongs
    <3> QED BY <3>3, <3>4, <3>5
  <2> QED BY <1>11, <2>1, <2>2 DEF Belongs
<1> QED BY <1>9, <1>10, <1>11

-----------------------------------------------------------------------------
(***************************************************************************)
(* The first invariant is inductive.                                       *)
(***************************************************************************)
LEMMA InitInv == Init => LogInv
<1> SUFFICES ASSUME Init PROVE LogInv
  OBVIOUS
<1>1. options \in Configurations /\ options \in Seq(Range(options))
  BY ConfigurationsAssumption DEF Init
<1>2. ConfigOK
  BY <1>1 DEF Init, ConfigOK
<1>3. ThreadsOK
  BY BoundsAssumption DEF Init, ThreadsOK, Entry, Rotating
<1>4. FilesOK
  <2>1. /\ content = <<>> /\ DOMAIN paths = {} /\ DOMAIN renamed = {}
        /\ paths = <<>> /\ renamed = <<>>
    BY DEF Init
  <2>2. content \in Seq(SUBSET Entry)
    BY <2>1
  <2>3. /\ paths \in [DOMAIN paths -> DOMAIN content]
        /\ renamed \in [DOMAIN renamed -> Rotated]
    BY <2>1
  <2> QED BY <2>1, <2>2, <2>3 DEF FilesOK
<1>5. HandlesOK
  BY DEF Init, HandlesOK
<1> QED BY <1>2, <1>3, <1>4, <1>5 DEF LogInv

\* Where a thread in log() is.
LEMMA AtWriter ==
  ASSUME LogInv, NEW t \in Threads, pc[t] # "idle"
  PROVE  /\ nth[t] = 1 /\ Len(writers) = 1 /\ DOMAIN writers = {1}
         /\ Writer(t) = writers[1] /\ writers[1] \in Range(options)
         /\ FileOf(t) = handle[writers[1].log]
         /\ DOMAIN handle = {writers[1].log}
         /\ FileOf(t).file \in DOMAIN content
         /\ Belongs(FileOf(t).file, writers[1])
         /\ pc[t] \in Rotating => IsFile(writers[1])
         /\ current[t] \in Entry
         /\ Continue(t) => Return(t, current[t])
<1>1. /\ nth[t] = 1 /\ Len(writers) = 1 /\ current[t] \in Entry
      /\ pc[t] \in Rotating => IsFile(writers[1])
  BY DEF LogInv, ThreadsOK
<1>2. DOMAIN writers = {1} /\ writers[1] \in Range(options)
  BY <1>1, WriterFacts DEF LogInv
<1>3. Writer(t) = writers[1] /\ FileOf(t) = handle[writers[1].log]
  BY <1>1 DEF Writer, FileOf
<1>4. /\ DOMAIN handle = {writers[1].log}
      /\ handle[writers[1].log] \in [file : DOMAIN content, open : BOOLEAN]
      /\ Belongs(handle[writers[1].log].file, writers[1])
  BY <1>1, <1>2 DEF LogInv, HandlesOK
<1>5. Continue(t) => Return(t, current[t])
  <2>1. (nth[t] + 1)..Len(writers) = {}
    BY <1>1
  <2> QED BY <2>1 DEF Continue, Proceed
<1> QED BY <1>1, <1>2, <1>3, <1>4, <1>5

\* A call of log() begins: there is no writer that wants the message, the
\* filter fails, or the thread is about to write.
LEMMA ProceedFacts ==
  ASSUME ConfigOK, NEW t, NEW message, Proceed(t, 1, message)
  PROVE  \/ /\ Return(t, message)
            /\ Len(writers) = 1 =>
                 FilterOutcome(writers[1], message.fields) = "denies"
         \/ Len(writers) = 1 /\ Raise(t)
         \/ /\ Len(writers) = 1
            /\ FilterOutcome(writers[1], message.fields) = "allows"
            /\ pc' = [pc EXCEPT ![t] = "write"] /\ nth' = [nth EXCEPT ![t] = 1]
            /\ UNCHANGED <<phase, returned>>
<1>1. CASE Len(writers) = 0
  <2>1. 1..Len(writers) = {}
    BY <1>1
  <2> QED BY <1>1, <2>1 DEF Proceed
<1>2. CASE Len(writers) = 1
  <2>1. 1..Len(writers) = {1}
    BY <1>2
  <2>2. FilterOutcome(writers[1], message.fields) \in {"allows", "denies", "raises"}
    BY DEF FilterOutcome
  <2> QED BY <1>2, <2>1, <2>2 DEF Proceed
<1> QED BY <1>1, <1>2, WriterFacts

\* A thread in log() goes on or comes back.
LEMMA ThreadMoves ==
  ASSUME ConfigOK, ThreadsOK, NEW t \in Threads, pc[t] # "idle",
         UNCHANGED stepVars, opened' \in [Threads -> Nat],
         \/ Raise(t) \/ Return(t, current[t])
         \/ /\ IsFile(writers[1]) /\ UNCHANGED <<nth, phase, returned>>
            /\ \E step \in Rotating : pc' = [pc EXCEPT ![t] = step]
  PROVE  ConfigOK' /\ ThreadsOK'
<1>1. \/ phase' = phase
      \/ phase = "starting" /\ phase' = "failed"
  BY DEF Raise, Return
<1>2. ConfigOK'
  BY <1>1 DEF ConfigOK, stepVars
<1>3. /\ \E step \in {"idle"} \cup Rotating :
           /\ pc' = [pc EXCEPT ![t] = step]
           /\ step # "idle" => IsFile(writers[1])
      /\ UNCHANGED nth /\ returned' \subseteq returned \cup {current[t]}
  BY DEF Raise, Return
<1>4. phase # "configuring" /\ (phase # "worker" => t = Main)
  BY DEF ThreadsOK
<1>5. ThreadsOK'
  BY <1>1, <1>3, <1>4 DEF ThreadsOK, stepVars, IsFile, Rotating
<1> QED BY <1>2, <1>5

\* The handles stay, or get a file that belongs to the writer.
LEMMA HandlesStay ==
  ASSUME ConfigOK, HandlesOK, UNCHANGED <<writers, pid>>,
         DOMAIN content \subseteq DOMAIN content',
         \A i \in DOMAIN content : \A option : Belongs(i, option) => Belongs(i, option)',
         DOMAIN handle' = DOMAIN handle,
         \A log \in DOMAIN handle :
           /\ handle'[log] \in [file : DOMAIN content', open : BOOLEAN]
           /\ handle'[log].file = handle[log].file
              \/ \E f : f = handle'[log].file /\ Belongs(f, writers[1])',
         \A t \in Threads : pc'[t] = "assign" =>
           \/ pc[t] = "assign" /\ opened'[t] = opened[t]
           \/ /\ opened'[t] \in DOMAIN content'
              /\ \E f : f = opened'[t] /\ Belongs(f, writers[1])'
  PROVE  HandlesOK'
<1>1. /\ DOMAIN handle = {writers[i].log : i \in DOMAIN writers}
      /\ \A log \in DOMAIN handle : handle[log].file \in DOMAIN content
  BY DEF HandlesOK
<1>2. Len(writers)' = 1 =>
        \E f : f = handle'[writers[1].log].file /\ Belongs(f, writers[1])'
  <2> SUFFICES ASSUME Len(writers) = 1
               PROVE  \E f : f = handle'[writers[1].log].file
                             /\ Belongs(f, writers[1])'
    OBVIOUS
  <2>1. writers[1].log \in DOMAIN handle
    BY <1>1, WriterFacts
  <2>2. Belongs(handle[writers[1].log].file, writers[1])
    BY DEF HandlesOK
  <2>3. PICK g : g = handle[writers[1].log].file
    OBVIOUS
  <2>4. Belongs(g, writers[1])'
    <3>1. Belongs(g, writers[1]) /\ g \in DOMAIN content
      BY <1>1, <2>1, <2>2, <2>3
    <3>2. Belongs(g, writers[1]) => Belongs(g, writers[1])'
      BY <3>1
    <3> QED BY <3>1, <3>2
  <2> QED BY <2>1, <2>3, <2>4
<1>3. ASSUME NEW t \in Threads, pc'[t] = "assign"
      PROVE  /\ opened'[t] \in DOMAIN content'
             /\ \E f : f = opened'[t] /\ Belongs(f, writers[1])'
  BY <1>3 DEF HandlesOK
<1> QED BY <1>2, <1>3 DEF HandlesOK

LEMMA WriteMessageInv ==
  ASSUME LogInv, NEW t \in Threads, WriteMessage(t)
  PROVE  LogInv' /\ FilesGrow
<1>1. pc[t] = "write" /\ UNCHANGED <<stepVars, handle, paths, renamed, opened>>
  BY DEF WriteMessage
<1>2. \/ Raise(t) /\ UNCHANGED content
      \/ /\ content' = [content EXCEPT ![FileOf(t).file] = @ \cup {current[t]}]
         /\ \/ /\ IsFile(writers[1]) /\ pc' = [pc EXCEPT ![t] = "measure"]
               /\ UNCHANGED <<nth, phase, returned>>
            \/ Return(t, current[t])
  BY <1>1, AtWriter DEF WriteMessage, OnClosedFile
<1>3. FilesOK' /\ FilesGrow /\ DOMAIN content' = DOMAIN content
  BY <1>1, <1>2, AtWriter, SameFiles DEF LogInv, stepVars
<1>4. ConfigOK' /\ ThreadsOK'
  BY <1>1, <1>2, ThreadMoves DEF LogInv, ThreadsOK, Rotating
<1>5. \A i, option : Belongs(i, option) => Belongs(i, option)'
  BY <1>1, BelongsSame DEF stepVars
<1>6. \A u \in Threads : pc'[u] = "assign" => pc[u] = "assign"
  BY <1>2 DEF Raise, Return, LogInv, ThreadsOK
<1>7. \A log \in DOMAIN handle : handle[log] \in [file : DOMAIN content', open : BOOLEAN]
  BY <1>3 DEF LogInv, HandlesOK
<1>8. HandlesOK'
  BY <1>1, <1>3, <1>5, <1>6, <1>7, HandlesStay DEF LogInv, stepVars
<1> QED BY <1>3, <1>4, <1>8 DEF LogInv

LEMMA MeasureInv ==
  ASSUME LogInv, NEW t \in Threads, Measure(t)
  PROVE  LogInv' /\ FilesGrow
<1>1. /\ pc[t] = "measure" /\ UNCHANGED content
      /\ UNCHANGED <<stepVars, handle, paths, renamed, opened>>
  BY DEF Measure, OnClosedFile
<1>2. \/ Raise(t) \/ Return(t, current[t])
      \/ /\ IsFile(writers[1]) /\ pc' = [pc EXCEPT ![t] = "close"]
         /\ UNCHANGED <<nth, phase, returned>>
  BY <1>1, AtWriter DEF Measure, OnClosedFile, Rotating
<1>3. FilesOK' /\ FilesGrow /\ DOMAIN content' = DOMAIN content
  BY <1>1, SameFiles DEF LogInv, stepVars
<1>4. ConfigOK' /\ ThreadsOK'
  BY <1>1, <1>2, ThreadMoves DEF LogInv, ThreadsOK, Rotating
<1>5. \A i, option : Belongs(i, option) => Belongs(i, option)'
  BY <1>1, BelongsSame DEF stepVars
<1>6. \A u \in Threads : pc'[u] = "assign" => pc[u] = "assign"
  BY <1>2 DEF Raise, Return, LogInv, ThreadsOK
<1>7. \A log \in DOMAIN handle : handle[log] \in [file : DOMAIN content', open : BOOLEAN]
  BY <1>3 DEF LogInv, HandlesOK
<1>8. HandlesOK'
  BY <1>1, <1>3, <1>5, <1>6, <1>7, HandlesStay DEF LogInv, stepVars
<1> QED BY <1>3, <1>4, <1>8 DEF LogInv

LEMMA CloseFullInv ==
  ASSUME LogInv, NEW t \in Threads, CloseFull(t)
  PROVE  LogInv' /\ FilesGrow
<1>1. /\ pc[t] = "close" /\ pc' = [pc EXCEPT ![t] = "rename"]
      /\ handle' = [handle EXCEPT ![writers[1].log].open = FALSE]
      /\ IsFile(writers[1])
      /\ UNCHANGED <<stepVars, paths, content, renamed, nth, opened, phase, returned>>
  BY AtWriter DEF CloseFull, Rotating
<1>2. FilesOK' /\ FilesGrow /\ DOMAIN content' = DOMAIN content
  BY <1>1, SameFiles DEF LogInv, stepVars
<1>3. ConfigOK' /\ ThreadsOK'
  BY <1>1, ThreadMoves DEF LogInv, ThreadsOK, Rotating
<1>4. \A i, option : Belongs(i, option) => Belongs(i, option)'
  BY <1>1, BelongsSame DEF stepVars
<1>5. \A u \in Threads : pc'[u] = "assign" => pc[u] = "assign"
  BY <1>1 DEF LogInv, ThreadsOK
<1>6. DOMAIN handle' = DOMAIN handle /\
      \A log \in DOMAIN handle : /\ handle'[log] \in [file : DOMAIN content', open : BOOLEAN]
                                 /\ handle'[log].file = handle[log].file
  <2>1. \A log \in DOMAIN handle : handle[log] \in [file : DOMAIN content, open : BOOLEAN]
    BY DEF LogInv, HandlesOK
  <2> QED BY <1>1, <2>1
<1>7. HandlesOK'
  BY <1>1, <1>2, <1>4, <1>5, <1>6, HandlesStay DEF LogInv, stepVars
<1> QED BY <1>2, <1>3, <1>7 DEF LogInv

\* A rotation gives a file of the process its name with the time.
LEMMA RenameFacts ==
  ASSUME LogInv, NEW t \in Threads, Rename(t)
  PROVE  LET old == PathOf(writers[1])
             new == RotatedFilename(writers[1])
         IN /\ pc[t] = "rename" /\ UNCHANGED <<stepVars, handle, content, opened>>
            /\ \/ /\ old \notin DOMAIN paths /\ Raise(t)
                  /\ UNCHANGED <<paths, renamed>>
               \/ /\ old \in Own \cap DOMAIN paths /\ new \in Rotated
                  /\ new[1] = old[1] /\ new[2] = old[2] /\ Renames(old, new)
                  /\ IsFile(writers[1]) /\ pc' = [pc EXCEPT ![t] = "open"]
                  /\ UNCHANGED <<nth, phase, returned>>
<1> DEFINE old == PathOf(writers[1])
           new == RotatedFilename(writers[1])
<1>1. /\ pc[t] = "rename" /\ IsFile(writers[1]) /\ Writer(t) = writers[1]
      /\ writers[1] \in Range(options)
  BY AtWriter DEF Rename, Rotating
<1>2. old \in Own /\ old[1] = writers[1].log /\ old[2] = pid
  BY <1>1, PathFacts DEF LogInv
<1>3. new \in Rotated /\ new[1] = writers[1].log /\ new[2] = pid
  <2>1. writers[1].log \in Logs /\ pid \in Pids /\ clock \in Nat
    BY <1>1, OptionFacts DEF LogInv, ConfigOK, ThreadsOK, Pids
  <2> QED BY <2>1 DEF RotatedFilename, Rotated
<1> HIDE DEF old, new
<1>4. new = <<writers[1].log, pid, clock>>
  BY DEF new, RotatedFilename
<1>5. CASE old \notin DOMAIN paths
  BY <1>1, <1>5 DEF Rename, Existing, old
<1>6. CASE old \in DOMAIN paths
  BY <1>1, <1>2, <1>3, <1>4, <1>6 DEF Rename, Existing, Renames, old, new
<1> QED BY <1>1, <1>2, <1>3, <1>5, <1>6 DEF old, new, Rename

LEMMA RenameInv ==
  ASSUME LogInv, NEW t \in Threads, Rename(t)
  PROVE  LogInv' /\ FilesGrow
<1> DEFINE old == PathOf(writers[1])
           new == RotatedFilename(writers[1])
<1>1. /\ pc[t] = "rename" /\ UNCHANGED <<stepVars, handle, content, opened>>
      /\ \/ /\ old \notin DOMAIN paths /\ Raise(t)
            /\ UNCHANGED <<paths, renamed>>
         \/ /\ old \in Own \cap DOMAIN paths /\ new \in Rotated
            /\ new[1] = old[1] /\ new[2] = old[2] /\ Renames(old, new)
            /\ IsFile(writers[1]) /\ pc' = [pc EXCEPT ![t] = "open"]
            /\ UNCHANGED <<nth, phase, returned>>
  BY RenameFacts
<1> HIDE DEF old, new
<1>2. ConfigOK' /\ ThreadsOK'
  BY <1>1, ThreadMoves DEF LogInv, ThreadsOK, Rotating
<1>3. /\ FilesOK' /\ FilesGrow
      /\ \A i, option : Belongs(i, option) => Belongs(i, option)'
  BY <1>1, SameFiles, BelongsSame, RenameFiles DEF LogInv, stepVars
<1>4. \A u \in Threads : pc'[u] = "assign" => pc[u] = "assign"
  BY <1>1 DEF Raise, LogInv, ThreadsOK
<1>5. \A log \in DOMAIN handle : handle[log] \in [file : DOMAIN content', open : BOOLEAN]
  BY <1>1 DEF LogInv, HandlesOK
<1>6. HandlesOK'
  BY <1>1, <1>3, <1>4, <1>5, HandlesStay DEF LogInv, stepVars
<1> QED BY <1>2, <1>3, <1>6 DEF LogInv

LEMMA OpenNewInv ==
  ASSUME LogInv, NEW t \in Threads, OpenNew(t)
  PROVE  LogInv' /\ FilesGrow
<1> DEFINE path == PathOf(writers[1])
           f    == FileAt(path)
<1>1. /\ pc[t] = "open" /\ pc' = [pc EXCEPT ![t] = "assign"]
      /\ OpenForAppend(path) /\ opened' = [opened EXCEPT ![t] = f]
      /\ IsFile(writers[1]) /\ writers[1] \in Range(options)
      /\ UNCHANGED <<stepVars, handle, renamed, nth, phase, returned>>
  BY AtWriter DEF OpenNew, Rotating
<1>2. /\ path \in Own /\ path[1] = writers[1].log /\ path[2] = pid
  BY <1>1, PathFacts DEF LogInv
<1> HIDE DEF path, f
<1>3. /\ f \in Nat /\ f \in DOMAIN content' /\ f = FileAt(path)
  BY <1>1, <1>2, OpenFacts DEF LogInv, f
<1>4. ConfigOK' /\ ThreadsOK'
  <2>1. opened' \in [Threads -> Nat]
    BY <1>1, <1>3 DEF LogInv, ThreadsOK
  <2> QED BY <1>1, <2>1, ThreadMoves DEF LogInv, Rotating
<1>5. /\ FilesOK' /\ FilesGrow
      /\ \A i \in DOMAIN content : \A option : Belongs(i, option) => Belongs(i, option)'
      /\ \A option, g : (/\ g = FileAt(path) /\ path[1] = option.log
                         /\ path \in Own => path[2] = pid') => Belongs(g, option)'
  BY <1>1, <1>2, OpenFiles DEF LogInv, stepVars
<1>6. DOMAIN content \subseteq DOMAIN content'
  BY <1>5 DEF FilesGrow
<1>7. \E g : g = f /\ Belongs(g, writers[1])'
  <2>1. PICK g : g = f
    OBVIOUS
  <2>2. g = FileAt(path) /\ path[1] = writers[1].log /\ path[2] = pid'
        /\ writers' = writers
    BY <1>1, <1>2, <1>3, <2>1 DEF stepVars
  <2>3. PICK option : option = writers[1]
    OBVIOUS
  <2>4. Belongs(g, option)'
    BY <1>5, <2>2, <2>3
  <2> QED BY <2>1, <2>2, <2>3, <2>4
<1>8. \A u \in Threads : pc'[u] = "assign" =>
        \/ pc[u] = "assign" /\ opened'[u] = opened[u]
        \/ /\ opened'[u] \in DOMAIN content'
           /\ \E g : g = opened'[u] /\ Belongs(g, writers[1])'
  <2>1. \A u \in Threads : u # t => pc'[u] = pc[u] /\ opened'[u] = opened[u]
    BY <1>1 DEF LogInv, ThreadsOK
  <2>2. opened'[t] = f
    BY <1>1 DEF LogInv, ThreadsOK
  <2> QED BY <1>3, <1>7, <2>1, <2>2
<1>9. \A log \in DOMAIN handle : handle[log] \in [file : DOMAIN content', open : BOOLEAN]
  BY <1>6 DEF LogInv, HandlesOK
<1>10. HandlesOK'
  BY <1>1, <1>5, <1>6, <1>8, <1>9, HandlesStay DEF LogInv, stepVars
<1> QED BY <1>4, <1>5, <1>10 DEF LogInv

LEMMA AssignFacts ==
  ASSUME LogInv, NEW t \in Threads, AssignFile(t)
  PROVE  /\ pc[t] = "assign" /\ Return(t, current[t])
         /\ handle' = [handle EXCEPT ![writers[1].log] =
                         [file |-> opened[t], open |-> TRUE]]
         /\ opened' = [opened EXCEPT ![t] = 0]
         /\ UNCHANGED <<stepVars, paths, content, renamed>>
BY AtWriter DEF AssignFile

LEMMA AssignFileInv ==
  ASSUME LogInv, NEW t \in Threads, AssignFile(t)
  PROVE  LogInv' /\ FilesGrow
<1>1. /\ pc[t] = "assign" /\ Return(t, current[t])
      /\ handle' = [handle EXCEPT ![writers[1].log] =
                      [file |-> opened[t], open |-> TRUE]]
      /\ opened' = [opened EXCEPT ![t] = 0]
      /\ UNCHANGED <<stepVars, paths, content, renamed>>
  BY AssignFacts
<1>2. FilesOK' /\ FilesGrow /\ DOMAIN content' = DOMAIN content
  BY <1>1, SameFiles DEF LogInv, stepVars
<1>3. ConfigOK' /\ ThreadsOK'
  <2>1. opened' \in [Threads -> Nat]
    BY <1>1 DEF LogInv, ThreadsOK
  <2> QED BY <1>1, <2>1, ThreadMoves DEF LogInv
<1>4. \A i, option : Belongs(i, option) => Belongs(i, option)'
  BY <1>1, BelongsSame DEF stepVars
<1>5. \A u \in Threads : pc'[u] = "assign" =>
        pc[u] = "assign" /\ opened'[u] = opened[u]
  BY <1>1 DEF Return, LogInv, ThreadsOK
<1>6. /\ DOMAIN handle' = DOMAIN handle
      /\ \A log \in DOMAIN handle :
           /\ handle'[log] \in [file : DOMAIN content', open : BOOLEAN]
           /\ handle'[log].file = handle[log].file
              \/ \E f : f = handle'[log].file /\ Belongs(f, writers[1])'
  <2>1. \A log \in DOMAIN handle : handle[log] \in [file : DOMAIN content, open : BOOLEAN]
    BY DEF LogInv, HandlesOK
  <2>2. opened[t] \in DOMAIN content /\ Belongs(opened[t], writers[1])
    BY <1>1 DEF LogInv, HandlesOK
  <2>3. PICK f : f = opened[t]
    OBVIOUS
  <2>4. Belongs(f, writers[1])'
    <3>1. Belongs(f, writers[1]) /\ writers' = writers
      BY <1>1, <2>2, <2>3 DEF stepVars
    <3>2. PICK option : option = writers[1]
      OBVIOUS
    <3>3. Belongs(f, option) => Belongs(f, option)'
      BY <1>4
    <3> QED BY <3>1, <3>2, <3>3
  <2>5. handle'[writers[1].log] = [file |-> f, open |-> TRUE]
        /\ \A log \in DOMAIN handle : log # writers[1].log => handle'[log] = handle[log]
    <3>1. writers[1].log \in DOMAIN handle
      BY <1>1, AtWriter
    <3> QED BY <1>1, <2>3, <3>1
  <2>6. [file |-> f, open |-> TRUE].file = f
    OBVIOUS
  <2> QED BY <1>1, <1>2, <2>1, <2>2, <2>3, <2>4, <2>5, <2>6
<1>7. HandlesOK'
  BY <1>1, <1>2, <1>4, <1>5, <1>6, HandlesStay DEF LogInv, stepVars
<1> QED BY <1>2, <1>3, <1>7 DEF LogInv

LEMMA LogCallInv ==
  ASSUME LogInv, NEW t \in Threads, Log(t)
  PROVE  LogInv' /\ FilesGrow
<1>1. PICK fields \in (IF phase = "starting" THEN {Startup} ELSE Messages) :
        /\ current' = [current EXCEPT ![t] = [number |-> counter + 1, fields |-> fields]]
        /\ Proceed(t, 1, [number |-> counter + 1, fields |-> fields])
  BY DEF Log
<1> DEFINE message == [number |-> counter + 1, fields |-> fields]
<1>2. /\ pc[t] = "idle" /\ ((phase = "starting" /\ t = Main) \/ phase = "worker")
      /\ called[t] <= MaxCalls
      /\ counter' = counter + 1 /\ called' = [called EXCEPT ![t] = @ + 1]
      /\ UNCHANGED <<options, todo, pid, writers, fileVars, clock, opened>>
  BY BoundsAssumption DEF Log, LogInv, ThreadsOK
<1>3. message \in Entry
  BY DEF Entry, LogInv, ThreadsOK
<1>4. /\ \/ Raise(t) \/ Return(t, message)
         \/ /\ pc' = [pc EXCEPT ![t] = "write"] /\ nth' = [nth EXCEPT ![t] = 1]
            /\ Len(writers) = 1 /\ UNCHANGED <<phase, returned>>
  BY <1>1, ProceedFacts DEF LogInv
<1> HIDE DEF message
<1>5. /\ \/ phase' = phase
         \/ phase = "starting" /\ phase' = "failed"
      /\ returned' \subseteq returned \cup {message}
      /\ \/ pc' = [pc EXCEPT ![t] = "idle"] /\ nth' = nth
         \/ /\ pc' = [pc EXCEPT ![t] = "write"] /\ nth' = [nth EXCEPT ![t] = 1]
            /\ Len(writers) = 1
  BY <1>4 DEF Raise, Return
<1>6. ConfigOK'
  BY <1>2, <1>5 DEF LogInv, ConfigOK
<1>7. ThreadsOK'
  <2>1. current' \in [Threads -> Entry]
    BY <1>1, <1>3 DEF LogInv, ThreadsOK, message
  <2>2. called' \in [Threads -> 0..MaxCalls + 1]
    BY <1>2, BoundsAssumption DEF LogInv, ThreadsOK
  <2> QED BY <1>2, <1>3, <1>5, <2>1, <2>2 DEF LogInv, ThreadsOK, Rotating, IsFile
<1>8. FilesOK' /\ FilesGrow
  BY <1>2, SameFiles DEF LogInv, fileVars
<1>9. \A i, option : Belongs(i, option) => Belongs(i, option)'
  BY <1>2, BelongsSame DEF fileVars
<1>10. \A u \in Threads : pc'[u] = "assign" => pc[u] = "assign"
  BY <1>5 DEF LogInv, ThreadsOK
<1>11. \A log \in DOMAIN handle : handle[log] \in [file : DOMAIN content', open : BOOLEAN]
  BY <1>2 DEF LogInv, HandlesOK, fileVars
<1>12. HandlesOK'
  BY <1>2, <1>9, <1>10, <1>11, HandlesStay DEF LogInv, fileVars
<1> QED BY <1>6, <1>7, <1>8, <1>12 DEF LogInv

LEMMA ConfigureInv ==
  ASSUME LogInv, Configure
  PROVE  LogInv' /\ FilesGrow
<1> DEFINE option == Head(todo)
           path   == PathOf(option)
           f      == FileAt(path)
<1>1. /\ phase = "configuring" /\ todo # <<>> /\ OpenForAppend(path)
      /\ writers' = <<option>>
      /\ handle' = [log \in {option.log} |-> [file |-> f, open |-> TRUE]]
      /\ todo' = Tail(todo)
      /\ UNCHANGED <<options, phase, pid, renamed, threadVars>>
  BY DEF Configure
<1>2. option \in Range(options) /\ todo' \in Seq(Range(options))
  BY <1>1 DEF LogInv, ConfigOK
<1>3. /\ path \in Bare \cup Own /\ path[1] = option.log
      /\ path \in Own => path[2] = pid
  BY <1>2, PathFacts DEF LogInv
<1> HIDE DEF option, path, f
<1>4. f \in DOMAIN content' /\ f = FileAt(path)
  BY <1>1, <1>3, OpenFacts DEF LogInv, f
<1>5. /\ FilesOK' /\ FilesGrow
      /\ \A o, g : (/\ g = FileAt(path) /\ path[1] = o.log
                    /\ path \in Own => path[2] = pid') => Belongs(g, o)'
  BY <1>1, <1>3, OpenFiles DEF LogInv
<1>6. writers' \in Seq(Range(options)) /\ Len(writers') = 1 /\ DOMAIN writers' = {1}
      /\ writers'[1] = option
  BY <1>1, <1>2
<1>7. ConfigOK'
  BY <1>1, <1>2, <1>6 DEF LogInv, ConfigOK
<1>8. ThreadsOK'
  BY <1>1 DEF LogInv, ThreadsOK, threadVars, Rotating
<1>9. \A t \in Threads : pc'[t] = "idle"
  BY <1>1 DEF LogInv, ThreadsOK, threadVars
<1>10. PICK o : o = option
  OBVIOUS
<1>11. PICK g : g = f
  OBVIOUS
<1>12. Belongs(g, o)'
  BY <1>1, <1>3, <1>4, <1>5, <1>10, <1>11
<1>13. /\ DOMAIN handle' = {o.log} /\ handle'[o.log].file = g
       /\ handle'[o.log] \in [file : DOMAIN content', open : BOOLEAN]
  BY <1>1, <1>4, <1>10, <1>11
<1>14. HandlesOK'
  BY <1>6, <1>9, <1>10, <1>12, <1>13 DEF HandlesOK
<1> QED BY <1>5, <1>7, <1>8, <1>14 DEF LogInv

LEMMA ForkInv ==
  ASSUME LogInv, Fork
  PROVE  LogInv' /\ FilesGrow
<1>1. /\ phase = "starting" /\ pc[Main] = "idle" /\ phase' = "worker"
      /\ pid' = "worker"
      /\ UNCHANGED <<options, todo, writers, renamed, threadVars>>
  BY DEF Fork
<1>2. ConfigOK'
  BY <1>1 DEF LogInv, ConfigOK
<1>3. ThreadsOK' /\ \A t \in Threads : pc'[t] = "idle"
  BY <1>1 DEF LogInv, ThreadsOK, threadVars, Rotating
<1>4. CASE writers = <<>>
  <2>1. UNCHANGED <<handle, paths, content>>
    BY <1>4 DEF Fork
  <2>2. FilesOK' /\ FilesGrow
    BY <1>1, <2>1, SameFiles DEF LogInv
  <2>3. HandlesOK'
    BY <1>1, <1>3, <1>4, <2>1 DEF LogInv, HandlesOK
  <2> QED BY <1>2, <1>3, <2>2, <2>3 DEF LogInv
<1>5. CASE writers # <<>>
  <2> DEFINE option == writers[1]
             path   == ReopenedPath(option)
             f      == FileAt(path)
  <2>1. /\ OpenForAppend(path)
        /\ handle' = [handle EXCEPT ![option.log] = [file |-> f, open |-> TRUE]]
    BY <1>5 DEF Fork
  <2>2. Len(writers) = 1 /\ DOMAIN writers = {1} /\ option \in Range(options)
    BY <1>5, WriterFacts DEF LogInv
  <2>3. /\ path \in Bare \cup Own /\ path[1] = option.log
        /\ path \in Own => path[2] = pid'
    BY <1>1, <2>2, PathFacts DEF LogInv
  <2>4. DOMAIN handle = {option.log}
    BY <2>2 DEF LogInv, HandlesOK
  <2> HIDE DEF option, path, f
  <2>5. f \in DOMAIN content' /\ f = FileAt(path)
    BY <2>1, <2>3, OpenFacts DEF LogInv, f
  <2>6. /\ FilesOK' /\ FilesGrow
        /\ \A o, g : (/\ g = FileAt(path) /\ path[1] = o.log
                      /\ path \in Own => path[2] = pid') => Belongs(g, o)'
    BY <1>1, <2>1, <2>3, OpenFiles DEF LogInv
  <2>7. PICK o : o = option
    OBVIOUS
  <2>8. PICK g : g = f
    OBVIOUS
  <2>9. Belongs(g, o)'
    BY <2>3, <2>5, <2>6, <2>7, <2>8
  <2>10. /\ DOMAIN handle' = {o.log} /\ handle'[o.log].file = g
         /\ handle'[o.log] \in [file : DOMAIN content', open : BOOLEAN]
    BY <2>1, <2>4, <2>5, <2>7, <2>8
  <2>11. writers'[1] = o /\ DOMAIN writers' = {1}
    BY <1>1, <2>2, <2>7 DEF option
  <2>12. HandlesOK'
    BY <1>3, <2>9, <2>10, <2>11 DEF HandlesOK
  <2> QED BY <1>2, <1>3, <2>6, <2>12 DEF LogInv
<1> QED BY <1>4, <1>5

\* What leaves the files, the writers and the threads alone.
LEMMA OtherInv ==
  ASSUME LogInv, ConfigureFails \/ Configured \/ Tick \/ UNCHANGED vars
  PROVE  LogInv' /\ FilesGrow
<1>1. /\ UNCHANGED <<options, todo, pid, writers, handle, paths, content, renamed>>
      /\ UNCHANGED <<pc, current, nth, opened, counter, called, returned>>
      /\ \/ phase' = phase
         \/ phase = "configuring" /\ phase' \in {"failed", "starting"}
      /\ clock' \in {clock, clock + 1}
  BY DEF ConfigureFails, Configured, Tick, vars, configVars, fileVars, threadVars
<1>2. ConfigOK'
  BY <1>1 DEF LogInv, ConfigOK
<1>3. ThreadsOK'
  BY <1>1 DEF LogInv, ThreadsOK, IsFile
<1>4. FilesOK' /\ FilesGrow
  BY <1>1, SameFiles DEF LogInv
<1>5. \A i, option : Belongs(i, option) => Belongs(i, option)'
  BY <1>1, BelongsSame
<1>6. HandlesOK'
  <2>1. \A log \in DOMAIN handle : handle[log] \in [file : DOMAIN content, open : BOOLEAN]
    BY DEF LogInv, HandlesOK
  <2> QED BY <1>1, <1>5, <2>1, HandlesStay DEF LogInv
<1> QED BY <1>2, <1>3, <1>4, <1>6 DEF LogInv

LEMMA NextInv ==
  ASSUME LogInv, [Next]_vars
  PROVE  LogInv' /\ FilesGrow
<1>1. ASSUME NEW t \in Threads, Step(t)
      PROVE  LogInv' /\ FilesGrow
  BY <1>1, WriteMessageInv, MeasureInv, CloseFullInv, RenameInv, OpenNewInv,
     AssignFileInv DEF Step
<1> QED BY <1>1, ConfigureInv, ForkInv, OtherInv, LogCallInv DEF Next

-----------------------------------------------------------------------------
\* Through configuration, fork and rotations every writer has its file, and a
\* thread is in log() only at a writer that the log has.
THEOREM TypesOfLogging == Spec => []TypeOK
<1>1. LogInv /\ [Next]_vars => LogInv'
  BY NextInv
<1>2. LogInv => TypeOK
  <2> SUFFICES ASSUME LogInv PROVE TypeOK
    OBVIOUS
  <2>1. \A t \in Threads : pc[t] # "idle" => nth[t] \in DOMAIN writers
    BY AtWriter
  <2>2. Range(paths) \subseteq DOMAIN content
    BY DEF LogInv, FilesOK, Range
  <2> QED BY <2>1, <2>2 DEF LogInv, ConfigOK, ThreadsOK, HandlesOK, Rotating, TypeOK
<1> QED BY <1>1, <1>2, InitInv, PTL DEF Spec

-----------------------------------------------------------------------------
(***************************************************************************)
(* A closed file comes back.  This is inductive as it stands: a thread     *)
(* that finds no file to rename leaves the writer to the one that did      *)
(* rename it and has not yet opened another.                               *)
(***************************************************************************)
Comes ==
  Len(writers) = 1 /\ IsFile(writers[1]) =>
    /\ handle[writers[1].log].open \/
         \E t \in Threads : pc[t] \in {"rename", "open", "assign"}
    /\ PathOf(writers[1]) \in DOMAIN paths \/
         \E t \in Threads : pc[t] = "open"

LEMMA ComesBack ==
  ASSUME LogInv
  PROVE  Comes <=> WriterComesBack
<1>1. \A t \in Threads : pc[t] # "idle" => nth[t] = 1
  BY DEF LogInv, ThreadsOK
<1>2. CASE Len(writers) = 1
  <2>1. DOMAIN writers = {1}
    BY <1>2, WriterFacts DEF LogInv
  <2> QED BY <1>1, <1>2, <2>1 DEF Comes, WriterComesBack, Existing
<1>3. CASE Len(writers) = 0
  <2>1. DOMAIN writers = {}
    BY <1>3, WriterFacts DEF LogInv
  <2> QED BY <1>3, <2>1 DEF Comes, WriterComesBack
<1> QED BY <1>2, <1>3, WriterFacts DEF LogInv

\* A thread that is not on its way to a new file comes or goes.
LEMMA ComesSame ==
  ASSUME LogInv, Comes, NEW t \in Threads, pc[t] \in {"idle", "write", "measure"},
         NEW step, pc' = [pc EXCEPT ![t] = step],
         UNCHANGED <<pid, writers, handle, paths>>
  PROVE  Comes'
<1>1. \A u \in Threads : u # t => pc'[u] = pc[u]
  BY DEF LogInv, ThreadsOK
<1>2. PathOf(writers[1])' = PathOf(writers[1])
  BY DEF PathOf, IsFile
<1> QED BY <1>1, <1>2 DEF Comes, IsFile

LEMMA ComesStep ==
  ASSUME LogInv, Comes, NEW t \in Threads, Step(t)
  PROVE  Comes'
<1> DEFINE path == PathOf(writers[1])
<1>1. /\ pid' = pid /\ writers' = writers /\ path' = path
      /\ DOMAIN pc = Threads /\ pc[t] # "idle"
  BY DEF Step, WriteMessage, Measure, CloseFull, Rename, OpenNew, AssignFile,
         stepVars, PathOf, IsFile, LogInv, ThreadsOK
<1>2. Len(writers) = 1 /\ writers[1] \in Range(options) /\ DOMAIN handle = {writers[1].log}
  BY <1>1, AtWriter
<1>3. CASE WriteMessage(t) \/ Measure(t)
  <2>1. UNCHANGED <<handle, paths>> /\ pc[t] \in {"write", "measure"}
    BY <1>3 DEF WriteMessage, Measure
  <2>2. \E step \in {"idle", "measure", "close"} : pc' = [pc EXCEPT ![t] = step]
    BY <1>1, <1>3, AtWriter DEF WriteMessage, Measure, OnClosedFile, Raise, Return
  <2> QED BY <1>1, <2>1, <2>2, ComesSame
<1>4. CASE CloseFull(t)
  <2>1. pc[t] = "close" /\ pc' = [pc EXCEPT ![t] = "rename"] /\ UNCHANGED paths
    BY <1>4 DEF CloseFull
  <2>2. pc'[t] = "rename" /\ \A u \in Threads : u # t => pc'[u] = pc[u]
    BY <1>1, <2>1
  <2> QED BY <1>1, <2>1, <2>2 DEF Comes
<1>5. CASE Rename(t)
  <2>1. /\ pc[t] = "rename" /\ UNCHANGED handle
        /\ \/ path \notin DOMAIN paths /\ paths' = paths /\ pc' = [pc EXCEPT ![t] = "idle"]
           \/ pc' = [pc EXCEPT ![t] = "open"]
    BY <1>5, RenameFacts DEF Raise
  <2>2. CASE pc' = [pc EXCEPT ![t] = "open"]
    BY <1>1, <2>1, <2>2 DEF Comes
  <2>3. CASE path \notin DOMAIN paths /\ paths' = paths /\ pc' = [pc EXCEPT ![t] = "idle"]
    <3>1. CASE IsFile(writers[1])
      <4>1. PICK u \in Threads : pc[u] = "open"
        BY <1>2, <2>3, <3>1 DEF Comes
      <4>2. pc'[u] = "open"
        BY <1>1, <2>1, <2>3, <4>1
      <4> QED BY <1>1, <4>2 DEF Comes
    <3>2. CASE ~IsFile(writers[1])
      BY <1>1, <3>2 DEF Comes, IsFile
    <3> QED BY <3>1, <3>2
  <2> QED BY <2>1, <2>2, <2>3
<1>6. CASE OpenNew(t)
  <2>1. /\ pc[t] = "open" /\ pc' = [pc EXCEPT ![t] = "assign"]
        /\ OpenForAppend(path)
    BY <1>2, <1>6, AtWriter DEF OpenNew
  <2>2. path \in DOMAIN paths'
    BY <1>2, <2>1, PathFacts, OpenFacts DEF LogInv
  <2>3. pc'[t] = "assign"
    BY <1>1, <2>1
  <2> QED BY <1>1, <2>2, <2>3 DEF Comes
<1>7. CASE AssignFile(t)
  <2>1. /\ pc[t] = "assign" /\ pc' = [pc EXCEPT ![t] = "idle"]
        /\ handle' = [handle EXCEPT ![writers[1].log] =
                        [file |-> opened[t], open |-> TRUE]]
        /\ UNCHANGED paths
    BY <1>7, AssignFacts DEF Return
  <2>2. handle'[writers[1].log].open
    BY <1>2, <2>1
  <2>3. \A u \in Threads : pc[u] = "open" => pc'[u] = "open"
    BY <1>1, <2>1
  <2> QED BY <1>1, <2>1, <2>2, <2>3 DEF Comes, IsFile
<1> QED BY <1>3, <1>4, <1>5, <1>6, <1>7 DEF Step

LEMMA ComesNext ==
  ASSUME LogInv, Comes, [Next]_vars
  PROVE  Comes'
<1>1. CASE Configure
  <2> DEFINE option == Head(todo)
             path   == PathOf(option)
  <2>1. /\ phase = "configuring" /\ todo # <<>> /\ OpenForAppend(path)
        /\ writers' = <<option>> /\ pid' = pid
        /\ handle' = [log \in {option.log} |-> [file |-> FileAt(path), open |-> TRUE]]
    BY <1>1 DEF Configure
  <2>2. option \in Range(options)
    BY <2>1 DEF LogInv, ConfigOK
  <2>3. path \in DOMAIN paths'
    <3>1. path \in Bare \cup Own
      BY <2>2, PathFacts DEF LogInv
    <3> HIDE DEF path
    <3> QED BY <2>1, <3>1, OpenFacts DEF LogInv
  <2>4. PathOf(writers[1])' = path /\ writers'[1] = option
    BY <2>1 DEF PathOf, IsFile
  <2>5. handle'[option.log].open
    BY <2>1
  <2> HIDE DEF option, path
  <2> QED BY <2>3, <2>4, <2>5 DEF Comes
<1>2. CASE Fork
  <2>1. CASE Len(writers) = 1
    <3> DEFINE path == ReopenedPath(writers[1])
    <3>1. writers # <<>> /\ writers[1] \in Range(options)
          /\ DOMAIN handle = {writers[1].log}
      BY <2>1, WriterFacts DEF LogInv, HandlesOK
    <3>2. /\ OpenForAppend(path) /\ writers' = writers /\ pid' = "worker"
          /\ handle' = [handle EXCEPT ![writers[1].log] =
                          [file |-> FileAt(path), open |-> TRUE]]
      BY <1>2, <3>1 DEF Fork
    <3>3. path \in DOMAIN paths'
      <4>1. path \in Bare \cup Own
        BY <3>1, PathFacts DEF LogInv
      <4> HIDE DEF path
      <4> QED BY <3>2, <4>1, OpenFacts DEF LogInv
    <3>4. PathOf(writers[1])' = path
      BY <3>2 DEF PathOf, ReopenedPath, IsFile
    <3>5. handle'[writers[1].log].open
      BY <3>1, <3>2
    <3> QED BY <3>2, <3>3, <3>4, <3>5 DEF Comes
  <2>2. CASE Len(writers) # 1
    BY <1>2, <2>2 DEF Fork, Comes
  <2> QED BY <2>1, <2>2
<1>3. CASE ConfigureFails \/ Configured \/ Tick \/ UNCHANGED vars
  <2>1. UNCHANGED <<pid, writers, handle, paths, pc>>
    BY <1>3 DEF ConfigureFails, Configured, Tick, vars, configVars, fileVars, threadVars
  <2> QED BY <2>1 DEF Comes, PathOf, IsFile
<1>4. ASSUME NEW t \in Threads, Log(t)
      PROVE  Comes'
  <2>1. pc[t] = "idle" /\ UNCHANGED <<pid, writers, fileVars>>
    BY <1>4 DEF Log
  <2>2. \E step \in {"idle", "write"} : pc' = [pc EXCEPT ![t] = step]
    BY <1>4 DEF Log, Proceed, Raise, Return
  <2> QED BY <2>1, <2>2, ComesSame DEF fileVars
<1> QED BY <1>1, <1>2, <1>3, <1>4, ComesStep DEF Next

\* A log file that is closed, or gone from its name, is being opened by some
\* thread, whichever of those that rotate it at once finds it gone.
THEOREM FilesComeBack == Spec => []WriterComesBack
<1>1. Init => Comes
  BY DEF Init, Comes
<1>2. LogInv /\ [Next]_vars => LogInv'
  BY NextInv
<1>3. (LogInv /\ Comes) /\ [Next]_vars => Comes'
  BY ComesNext
<1>4. LogInv /\ Comes => WriterComesBack
  BY ComesBack
<1> QED BY <1>1, <1>2, <1>3, <1>4, InitInv, PTL DEF Spec

-----------------------------------------------------------------------------
(***************************************************************************)
(* What is in the files.  The second invariant ties the message a thread   *)
(* has in hand to the filter of the writer and to the files: it is asked   *)
(* for, and from the write on it is in a file that is kept.                *)
(***************************************************************************)
LEMMA ToWriteNext ==
  ASSUME LogInv, ToWrite, [Next]_vars
  PROVE  ToWrite'
<1>1. ASSUME NEW t \in Threads, Log(t)
      PROVE  ToWrite'
  <2>1. PICK fields \in (IF phase = "starting" THEN {Startup} ELSE Messages) :
          /\ current' = [current EXCEPT ![t] = [number |-> counter + 1, fields |-> fields]]
          /\ Proceed(t, 1, [number |-> counter + 1, fields |-> fields])
    BY <1>1 DEF Log
  <2>2. /\ pc[t] = "idle" /\ (phase = "starting" \/ phase = "worker")
        /\ UNCHANGED <<pid, writers>>
    BY <1>1 DEF Log
  <2>3. pid = "master" <=> fields = Startup
    BY <2>1, <2>2, StartupAssumption DEF LogInv, ConfigOK
  <2>4. /\ \A u \in Threads : u # t => pc'[u] = pc[u] /\ current'[u] = current[u]
        /\ current'[t].fields = fields
    BY <1>1, <2>1, ProceedFacts DEF LogInv, ThreadsOK, Raise, Return
  <2>5. pc'[t] = "idle" \/ AskedFor(writers[1], fields)
    <3>1. CASE Len(writers) = 1
      <4>1. writers[1] \in Range(options)
        BY <3>1, WriterFacts DEF LogInv
      <4>2. pc'[t] = "idle" \/ FilterOutcome(writers[1], fields) = "allows"
        BY <2>1, ProceedFacts DEF LogInv, ThreadsOK, Raise, Return
      <4> QED BY <4>1, <4>2, OptionFacts DEF LogInv
    <3>2. CASE Len(writers) # 1
      BY <2>1, <3>2, ProceedFacts DEF LogInv, ThreadsOK, Raise, Return
    <3> QED BY <3>1, <3>2
  <2> QED BY <2>2, <2>3, <2>4, <2>5 DEF ToWrite
<1>2. ASSUME NEW t \in Threads, Step(t)
      PROVE  ToWrite'
  <2>1. UNCHANGED <<pid, writers, current>> /\ pc[t] # "idle"
    BY <1>2 DEF Step, WriteMessage, Measure, CloseFull, Rename, OpenNew, AssignFile,
                stepVars
  <2>2. \A u \in Threads : u # t => pc'[u] = pc[u]
    BY <1>2, AtWriter DEF Step, WriteMessage, Measure, CloseFull, Rename, OpenNew,
       AssignFile, OnClosedFile, Raise, Return, LogInv, ThreadsOK
  <2> QED BY <2>1, <2>2 DEF ToWrite
<1>3. CASE Configure \/ Fork
  <2>1. \A t \in Threads : pc'[t] = "idle"
    BY <1>3 DEF Configure, Fork, threadVars, LogInv, ThreadsOK
  <2> QED BY <2>1 DEF ToWrite
<1>4. CASE ConfigureFails \/ Configured \/ Tick \/ UNCHANGED vars
  <2>1. UNCHANGED <<pid, writers, current, pc>>
    BY <1>4 DEF ConfigureFails, Configured, Tick, vars, configVars, threadVars
  <2> QED BY <2>1 DEF ToWrite
<1> QED BY <1>1, <1>2, <1>3, <1>4 DEF Next

\* What a file may have in it, by its name.
MayHave(p, m) ==
  \A i \in DOMAIN options : p[1] = options[i].log =>
    /\ AskedFor(options[i], m.fields)
    /\ Len(p) > 1 => (p[2] = "master" <=> m.fields = Startup)

LEMMA OnlyIs ==
  OnlyAskedForIsLogged <=>
    \A p \in DOMAIN paths : \A m \in content[paths[p]] : MayHave(p, m)
BY DEF OnlyAskedForIsLogged, MayHave

LEMMA OnlyOpened ==
  ASSUME LogInv, OnlyAskedForIsLogged, NEW path \in Bare \cup Own,
         OpenForAppend(path), UNCHANGED options
  PROVE  OnlyAskedForIsLogged'
<1>1. /\ DOMAIN paths' = DOMAIN paths \cup {path}
      /\ \A p \in DOMAIN paths : paths'[p] = paths[p] /\ paths[p] \in DOMAIN content
      /\ \A i \in DOMAIN content : content'[i] = content[i]
      /\ path \notin DOMAIN paths => content'[paths'[path]] = {}
  BY OpenFacts DEF LogInv, FilesOK
<1>2. \A p \in DOMAIN paths' : \A m \in content'[paths'[p]] : MayHave(p, m)
  BY <1>1, OnlyIs
<1> QED BY <1>2 DEF OnlyAskedForIsLogged, MayHave

LEMMA OnlyWritten ==
  ASSUME LogInv, ToWrite, OnlyAskedForIsLogged, NEW t \in Threads, WriteMessage(t)
  PROVE  OnlyAskedForIsLogged'
<1> DEFINE f == FileOf(t).file
<1>1. /\ pc[t] # "idle" /\ UNCHANGED <<options, pid, paths>>
      /\ \/ content' = content
         \/ content' = [content EXCEPT ![f] = @ \cup {current[t]}]
  BY DEF WriteMessage, OnClosedFile, stepVars
<1>2. f \in DOMAIN content /\ Belongs(f, writers[1]) /\ writers[1] \in Range(options)
  BY <1>1, AtWriter
<1>3. /\ AskedFor(writers[1], current[t].fields)
      /\ pid = "master" <=> current[t].fields = Startup
  BY <1>1 DEF ToWrite
<1> HIDE DEF f
<1>4. ASSUME NEW p \in DOMAIN paths, paths[p] = f
      PROVE  MayHave(p, current[t])
  <2>1. p[1] = writers[1].log /\ (p \in Own \cup Rotated => p[2] = pid)
    <3>1. CASE f \in DOMAIN renamed /\ renamed[f][1] = writers[1].log /\ renamed[f][2] = pid
      BY <1>4, <3>1 DEF LogInv, FilesOK
    <3> QED BY <1>2, <1>4, <3>1 DEF Belongs
  <2>2. Len(p) > 1 => p \in Own \cup Rotated
    <3>1. p \in Bare \cup Own \cup Rotated
      BY DEF LogInv, FilesOK
    <3> QED BY <3>1, NameFacts
  <2>3. ASSUME NEW i \in DOMAIN options, p[1] = options[i].log
        PROVE  options[i] = writers[1]
    BY <1>2, <2>1, <2>3, OptionFacts DEF LogInv, Range
  <2> QED BY <1>3, <2>1, <2>2, <2>3 DEF MayHave
<1>5. \A p \in DOMAIN paths' : \A m \in content'[paths'[p]] : MayHave(p, m)
  <2>1. \A i \in DOMAIN content : i # f => content'[i] = content[i]
    BY <1>1
  <2>2. content'[f] \subseteq content[f] \cup {current[t]}
    BY <1>1, <1>2
  <2>3. \A p \in DOMAIN paths : paths[p] \in DOMAIN content
    BY DEF LogInv, FilesOK
  <2> QED BY <1>1, <1>4, <2>1, <2>2, <2>3, OnlyIs
<1> QED BY <1>1, <1>5 DEF OnlyAskedForIsLogged, MayHave

LEMMA OnlyRenamed ==
  ASSUME LogInv, OnlyAskedForIsLogged, NEW t \in Threads, Rename(t)
  PROVE  OnlyAskedForIsLogged'
<1> DEFINE old == PathOf(writers[1])
           new == RotatedFilename(writers[1])
<1>1. /\ UNCHANGED <<options, content>>
      /\ \/ UNCHANGED paths
         \/ /\ old \in Own \cap DOMAIN paths /\ new \in Rotated
            /\ new[1] = old[1] /\ new[2] = old[2] /\ Renames(old, new)
  BY RenameFacts DEF stepVars
<1> HIDE DEF old, new
<1>2. CASE UNCHANGED paths
  BY <1>1, <1>2 DEF OnlyAskedForIsLogged
<1>3. CASE /\ old \in Own \cap DOMAIN paths /\ new \in Rotated
           /\ new[1] = old[1] /\ new[2] = old[2] /\ Renames(old, new)
  <2>1. \A m : MayHave(old, m) => MayHave(new, m)
    <3>1. Len(old) > 1
      BY <1>3, NameFacts
    <3> QED BY <1>3, <3>1 DEF MayHave
  <2>2. /\ DOMAIN paths' = (DOMAIN paths \ {old}) \cup {new}
        /\ \A p \in DOMAIN paths' : paths'[p] = IF p = new THEN paths[old] ELSE paths[p]
    BY <1>3 DEF Renames
  <2>3. \A p \in DOMAIN paths' : \A m \in content'[paths'[p]] : MayHave(p, m)
    BY <1>1, <1>3, <2>1, <2>2, OnlyIs
  <2> QED BY <1>1, <2>3 DEF OnlyAskedForIsLogged, MayHave
<1> QED BY <1>1, <1>2, <1>3

LEMMA OnlyNext ==
  ASSUME LogInv, ToWrite, OnlyAskedForIsLogged, [Next]_vars
  PROVE  OnlyAskedForIsLogged'
<1>1. CASE UNCHANGED <<options, paths, content>>
  BY <1>1 DEF OnlyAskedForIsLogged
<1>2. ASSUME NEW path \in Bare \cup Own, OpenForAppend(path), UNCHANGED options
      PROVE  OnlyAskedForIsLogged'
  BY <1>2, OnlyOpened
<1>3. CASE Configure
  <2>1. Head(todo) \in Range(options) /\ UNCHANGED options
    BY <1>3 DEF Configure, LogInv, ConfigOK
  <2>2. PathOf(Head(todo)) \in Bare \cup Own
    BY <2>1, PathFacts DEF LogInv
  <2> QED BY <1>2, <1>3, <2>1, <2>2 DEF Configure
<1>4. CASE Fork
  <2>1. CASE writers = <<>>
    BY <1>1, <1>4, <2>1 DEF Fork
  <2>2. CASE writers # <<>>
    <3>1. writers[1] \in Range(options)
      BY <2>2, WriterFacts DEF LogInv
    <3>2. ReopenedPath(writers[1]) \in Bare \cup Own
      BY <3>1, PathFacts DEF LogInv
    <3> QED BY <1>2, <1>4, <2>2, <3>2 DEF Fork
  <2> QED BY <2>1, <2>2
<1>5. ASSUME NEW t \in Threads, OpenNew(t)
      PROVE  OnlyAskedForIsLogged'
  <2>1. pc[t] # "idle"
    BY <1>5 DEF OpenNew
  <2>2. Writer(t) \in Range(options)
    BY <2>1, AtWriter
  <2>3. PathOf(Writer(t)) \in Bare \cup Own
    BY <2>2, PathFacts DEF LogInv
  <2> QED BY <1>2, <1>5, <2>3 DEF OpenNew, stepVars
<1>6. ASSUME NEW t \in Threads, Step(t)
      PROVE  OnlyAskedForIsLogged'
  <2>1. CASE Measure(t) \/ CloseFull(t) \/ AssignFile(t)
    BY <1>1, <2>1 DEF Measure, CloseFull, AssignFile, OnClosedFile, stepVars
  <2> QED BY <1>5, <1>6, <2>1, OnlyWritten, OnlyRenamed DEF Step
<1>7. ASSUME NEW t \in Threads, Log(t)
      PROVE  OnlyAskedForIsLogged'
  BY <1>1, <1>7 DEF Log, fileVars
<1>8. CASE ConfigureFails \/ Configured \/ Tick \/ UNCHANGED vars
  BY <1>1, <1>8 DEF ConfigureFails, Configured, Tick, vars, configVars, fileVars
<1> QED BY <1>3, <1>4, <1>6, <1>7, <1>8 DEF Next

\* Nothing is in a log that its filter does not ask for, and no process writes
\* to a file with the id of another.
THEOREM OnlyWhatIsAskedFor == Spec => []OnlyAskedForIsLogged
<1>1. Init => ToWrite /\ OnlyAskedForIsLogged
  BY DEF Init, ToWrite, OnlyAskedForIsLogged
<1>2. LogInv /\ [Next]_vars => LogInv'
  BY NextInv
<1>3. (LogInv /\ ToWrite) /\ [Next]_vars => ToWrite'
  BY ToWriteNext
<1>4. (LogInv /\ ToWrite /\ OnlyAskedForIsLogged) /\ [Next]_vars => OnlyAskedForIsLogged'
  BY OnlyNext
<1> QED BY <1>1, <1>2, <1>3, <1>4, InitInv, PTL DEF Spec

-----------------------------------------------------------------------------
(***************************************************************************)
(* What has been logged is kept.                                           *)
(***************************************************************************)
LEMMA WrittenIsKept ==
  ASSUME LogInv, NEW t \in Threads, WriteMessage(t), pc'[t] = "measure" \/ Return(t, current[t])
  PROVE  \/ IsIn(current[t], Kept(writers[1].log))'
         \/ Raise(t)
<1> DEFINE f == FileOf(t).file
<1>1. /\ pc[t] # "idle" /\ UNCHANGED <<stepVars, paths, renamed>>
      /\ \/ Raise(t)
         \/ content' = [content EXCEPT ![f] = @ \cup {current[t]}]
  BY DEF WriteMessage, OnClosedFile
<1>2. f \in DOMAIN content /\ f \in Kept(writers[1].log)
  BY <1>1, AtWriter, BelongingIsKept DEF LogInv
<1> HIDE DEF f
<1>3. CASE content' = [content EXCEPT ![f] = @ \cup {current[t]}]
  <2>1. current[t] \in content'[f] /\ current'[t] = current[t] /\ writers' = writers
    BY <1>1, <1>2, <1>3 DEF stepVars
  <2>2. PICK log : log = writers[1].log
    OBVIOUS
  <2>3. f \in Kept(log)'
    BY <1>2, <2>2, WriteMessageInv DEF FilesGrow
  <2>4. \E i \in Kept(log)' : current'[t] \in content'[i]
    BY <2>1, <2>3
  <2> QED BY <2>1, <2>2, <2>4 DEF IsIn
<1> QED BY <1>1, <1>3

LEMMA WrittenNext ==
  ASSUME LogInv, Written, [Next]_vars
  PROVE  Written'
<1>1. \A m, log : IsIn(m, Kept(log)) => IsIn(m, Kept(log))'
  BY NextInv, KeptGrows DEF LogInv
<1>2. ASSUME NEW u \in Threads, pc[u] \in Rotating, UNCHANGED <<writers, current>>
      PROVE  IsIn(current[u], Kept(writers[1].log))'
  <2>1. PICK m, log : m = current[u] /\ log = writers[1].log
    OBVIOUS
  <2>2. IsIn(m, Kept(log))'
    BY <1>1, <1>2, <2>1 DEF Written
  <2>3. \E i \in Kept(log)' : m \in content'[i]
    BY <2>2 DEF IsIn
  <2>4. m = current'[u] /\ log = writers'[1].log
    BY <1>2, <2>1
  <2> QED BY <2>3, <2>4 DEF IsIn
<1>3. CASE UNCHANGED <<writers, current>> /\ \A u \in Threads : pc'[u] \in Rotating => pc[u] \in Rotating
  BY <1>2, <1>3 DEF Written
<1>4. ASSUME NEW t \in Threads, Log(t)
      PROVE  Written'
  <2>1. pc[t] = "idle" /\ UNCHANGED writers
    BY <1>4 DEF Log
  <2>2. /\ \A u \in Threads : u # t => pc'[u] = pc[u] /\ current'[u] = current[u]
        /\ pc'[t] \notin Rotating
    <3>1. \E step \in {"idle", "write"} : pc' = [pc EXCEPT ![t] = step]
      BY <1>4 DEF Log, Proceed, Raise, Return
    <3>2. \E message : current' = [current EXCEPT ![t] = message]
      BY <1>4 DEF Log
    <3> QED BY <3>1, <3>2 DEF LogInv, ThreadsOK, Rotating
  <2>3. ASSUME NEW u \in Threads, pc'[u] \in Rotating
        PROVE  IsIn(current[u], Kept(writers[1].log))'
    <3>1. pc[u] \in Rotating /\ current'[u] = current[u]
      BY <2>2, <2>3
    <3>2. PICK m, log : m = current[u] /\ log = writers[1].log
      OBVIOUS
    <3>3. IsIn(m, Kept(log))'
      BY <1>1, <3>1, <3>2 DEF Written
    <3>4. \E i \in Kept(log)' : m \in content'[i]
      BY <3>3 DEF IsIn
    <3>5. m = current'[u] /\ log = writers'[1].log
      BY <2>1, <3>1, <3>2
    <3> QED BY <3>4, <3>5 DEF IsIn
  <2> QED BY <2>3 DEF Written
<1>5. ASSUME NEW t \in Threads, WriteMessage(t)
      PROVE  Written'
  <2>1. UNCHANGED <<writers, current>> /\ pc[t] = "write"
    BY <1>5 DEF WriteMessage, stepVars
  <2>2. \A u \in Threads : u # t => pc'[u] = pc[u]
    BY <1>5, <2>1, AtWriter DEF WriteMessage, OnClosedFile, Raise, Return, LogInv, ThreadsOK
  <2>3. pc'[t] \in Rotating => pc'[t] = "measure" /\ ~Raise(t)
    BY <1>5, <2>1, AtWriter DEF WriteMessage, OnClosedFile, Raise, Return, LogInv,
       ThreadsOK, Rotating
  <2>4. pc'[t] \in Rotating => IsIn(current[t], Kept(writers[1].log))'
    BY <1>5, <2>3, WrittenIsKept
  <2> QED BY <1>2, <2>1, <2>2, <2>4 DEF Written
<1>6. ASSUME NEW t \in Threads, Step(t), ~WriteMessage(t)
      PROVE  Written'
  <2>1. UNCHANGED <<writers, current>> /\ pc[t] \in Rotating
    BY <1>6 DEF Step, Measure, CloseFull, Rename, OpenNew, AssignFile, stepVars, Rotating
  <2>2. \A u \in Threads : u # t => pc'[u] = pc[u]
    BY <1>6, AtWriter DEF Step, Measure, CloseFull, Rename, OpenNew,
       AssignFile, OnClosedFile, Raise, Return, LogInv, ThreadsOK
  <2> QED BY <1>3, <2>1, <2>2
<1>7. CASE Configure \/ Fork \/ ConfigureFails \/ Configured \/ Tick \/ UNCHANGED vars
  <2>1. CASE Configure
    <3>1. \A u \in Threads : pc'[u] \notin Rotating
      BY <2>1 DEF Configure, threadVars, LogInv, ThreadsOK, Rotating
    <3> QED BY <3>1 DEF Written
  <2>2. CASE ~Configure
    BY <1>3, <1>7, <2>2 DEF Fork, ConfigureFails, Configured, Tick, vars, configVars, threadVars
  <2> QED BY <2>1, <2>2
<1> QED BY <1>4, <1>5, <1>6, <1>7 DEF Next

\* The messages that have come back, and their filters, do not change.
LEMMA ReturnedStays ==
  ASSUME LogInv, ReturnedIsKept, [Next]_vars, phase # "configuring",
         UNCHANGED writers,
         \A m \in returned' : m \in returned
           \/ (AskedFor(writers[1], m.fields) /\ Len(writers) = 1 =>
                 IsIn(m, Kept(writers[1].log))')
  PROVE  ReturnedIsKept'
<1> SUFFICES ASSUME NEW m \in returned', NEW i \in DOMAIN writers,
                    AskedFor(writers[i], m.fields)
             PROVE  IsIn(m, Kept(writers[i].log))'
  BY DEF ReturnedIsKept, Kept
<1>1. i = 1 /\ Len(writers) = 1
  BY WriterFacts DEF LogInv
<1>2. CASE m \in returned
  <2>1. PICK log : log = writers[i].log
    OBVIOUS
  <2>2. IsIn(m, Kept(log))
    BY <1>2, <2>1 DEF ReturnedIsKept, Kept
  <2>3. IsIn(m, Kept(log))'
    BY <2>2, NextInv, KeptGrows DEF LogInv
  <2> QED BY <2>1, <2>3
<1> QED BY <1>1, <1>2

LEMMA ReturnedNext ==
  ASSUME LogInv, Written, ReturnedIsKept, [Next]_vars
  PROVE  ReturnedIsKept'
<1>1. CASE phase = "configuring"
  <2>1. returned' = {}
    <3>1. returned = {} /\ \A t \in Threads : pc[t] = "idle"
      BY <1>1 DEF LogInv, ThreadsOK
    <3>2. CASE UNCHANGED returned
      BY <3>1, <3>2
    <3>3. CASE \E t \in Threads : Log(t) \/ Step(t)
      BY <1>1, <3>1, <3>3 DEF Log, Step, WriteMessage, Measure, CloseFull, Rename,
                              OpenNew, AssignFile
    <3> QED BY <3>2, <3>3 DEF Next, Configure, ConfigureFails, Configured, Fork, Tick,
                              vars, threadVars
  <2> QED BY <2>1 DEF ReturnedIsKept
<1>2. CASE phase # "configuring"
  <2>1. ASSUME UNCHANGED <<writers, returned>>
        PROVE  ReturnedIsKept'
    BY <1>2, <2>1, ReturnedStays
  <2>2. ASSUME NEW t \in Threads, Log(t)
        PROVE  ReturnedIsKept'
    <3>1. UNCHANGED writers
      BY <2>2 DEF Log
    <3>2. PICK m : \/ UNCHANGED returned
                   \/ /\ returned' = returned \cup {m}
                      /\ Len(writers) = 1 => FilterOutcome(writers[1], m.fields) = "denies"
      BY <2>2, ProceedFacts DEF Log, LogInv, Raise, Return
    <3>3. Len(writers) = 1 =>
            (FilterOutcome(writers[1], m.fields) = "denies" => ~AskedFor(writers[1], m.fields))
      BY WriterFacts, OptionFacts DEF LogInv
    <3> QED BY <1>2, <3>1, <3>2, <3>3, ReturnedStays
  <2>3. ASSUME NEW t \in Threads, Step(t)
        PROVE  ReturnedIsKept'
    <3>1. UNCHANGED <<writers, current>> /\ pc[t] # "idle"
      BY <2>3 DEF Step, WriteMessage, Measure, CloseFull, Rename, OpenNew, AssignFile,
                  stepVars
    <3>2. UNCHANGED returned \/ Return(t, current[t])
      BY <2>3, <3>1, AtWriter DEF Step, WriteMessage, Measure, CloseFull, Rename, OpenNew,
         AssignFile, OnClosedFile, Raise
    <3>3. CASE WriteMessage(t) /\ Return(t, current[t])
      <4>1. CASE Raise(t)
        BY <2>1, <3>1, <4>1 DEF Raise
      <4>2. CASE ~Raise(t)
        <5>1. IsIn(current[t], Kept(writers[1].log))'
          BY <3>3, <4>2, WrittenIsKept
        <5>2. PICK m : m = current[t]
          OBVIOUS
        <5>3. returned' = returned \cup {m} /\ current'[t] = m
          BY <3>1, <3>3, <5>2 DEF Return
        <5>4. IsIn(m, Kept(writers[1].log))'
          BY <5>1, <5>3
        <5> QED BY <1>2, <3>1, <5>3, <5>4, ReturnedStays
      <4> QED BY <4>1, <4>2
    <3>4. CASE ~WriteMessage(t) /\ Return(t, current[t])
      <4>1. pc[t] \in Rotating
        BY <2>3, <3>4 DEF Step, Measure, CloseFull, Rename, OpenNew, AssignFile, Rotating
      <4>2. PICK m, log : m = current[t] /\ log = writers[1].log
        OBVIOUS
      <4>3. IsIn(m, Kept(log))
        BY <4>1, <4>2 DEF Written
      <4>4. IsIn(m, Kept(log))'
        BY <4>3, NextInv, KeptGrows DEF LogInv
      <4>5. returned' = returned \cup {m} /\ log = writers'[1].log
        BY <3>1, <3>4, <4>2 DEF Return
      <4>6. IsIn(m, Kept(writers[1].log))'
        BY <4>4, <4>5
      <4> QED BY <1>2, <3>1, <4>5, <4>6, ReturnedStays
    <3> QED BY <2>1, <3>1, <3>2, <3>3, <3>4
  <2>4. CASE Fork \/ ConfigureFails \/ Configured \/ Tick \/ UNCHANGED vars
    BY <2>1, <2>4 DEF Fork, ConfigureFails, Configured, Tick, vars, configVars, threadVars
  <2>5. CASE Configure
    BY <1>2, <2>5 DEF Configure
  <2> QED BY <2>2, <2>3, <2>4, <2>5 DEF Next
<1> QED BY <1>1, <1>2

\* A message whose log() has returned is in a file of the writer that is asked
\* for it, however the rotations of the threads interleave, unless a rotation in
\* the same second has taken the name of that file.
THEOREM LoggedIsKept == Spec => []ReturnedIsKept
<1>1. Init => Written /\ ReturnedIsKept
  BY DEF Init, Written, ReturnedIsKept, Rotating
<1>2. LogInv /\ [Next]_vars => LogInv'
  BY NextInv
<1>3. (LogInv /\ Written) /\ [Next]_vars => Written'
  BY WrittenNext
<1>4. (LogInv /\ Written /\ ReturnedIsKept) /\ [Next]_vars => ReturnedIsKept'
  BY ReturnedNext
<1> QED BY <1>1, <1>2, <1>3, <1>4, InitInv, PTL DEF Spec
=============================================================================
