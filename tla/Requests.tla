------------------------------ MODULE Requests ------------------------------
(***************************************************************************)
(* The way of a request through a worker process: the before_request hook  *)
(* that adds missing routes, and the plugins around the handler, from the  *)
(* outside in: LoggingPlugin, ErrorTransformPlugin, AuthorizationPlugin    *)
(* (installed twice), BasicValidationPlugin.  bottle calls one after the   *)
(* other for a request, and answers 500 itself for what they let through.  *)
(*                                                                         *)
(* What a handler does to the items is ItemStorage's matter; here it       *)
(* commits, or not, and then notifies.  Logging, the database and the      *)
(* notifications may fail at every call.                                   *)
(***************************************************************************)
EXTENDS Integers, Sequences, FiniteSets, Functions

CONSTANTS
  Threads,
  Asked,        \* the requests that clients make
  Refusals,     \* the status codes with which a handler refuses
  ChunkSize,    \* access_log_entry_chunk_size
  MaxRequests,  \* bound: requests in all
  MaxFailures   \* bound: calls that fail, in all

\* An access_log_entry_chunk_size of 0 is taken for 300.
ASSUME ChunkAssumption == ChunkSize \in Nat \ {0}

\* HTTPError's subclasses are what handlers raise.
ASSUME RefusalsAssumption == Refusals \subseteq 400..499

\* Clients ask for something, with a token and a body that are good or wrong
\* in one of these ways, and an answer is about each id once.
ASSUME AskedAssumption ==
  /\ Asked # {}
  /\ \A r \in Asked :
       /\ r.token \in {"good", "none", "invalid", "no subject", "malformed",
                       "wrong scope", "no scope claim"}
       /\ r.body \in {"good", "other type", "not JSON", "number", "has id",
                      "wrong id", "no revision"}
       /\ r.ids \in Seq(Range(r.ids)) /\ IsInjective(r.ids)

VARIABLES
  accessLogging,  \* enable_access_log
  routes,         \* the paths that have routes
  counter,        \* LoggingPlugin's counter of requests
  context,        \* the log's _context, by thread
  pc, request,    \* of each thread: where it is, with which request,
  served, status, \*   its how-manieth, and the status of the response
  ids,            \*   the ids that the access log has yet to get
  failures,
  records,        \* the log
  effects,        \* history: what requests have committed and notified
  replies         \* history: the answers

sharedVars == <<accessLogging, routes, counter, context>>
threadVars == <<pc, request, served, status, ids>>
historyVars == <<records, effects, replies>>
vars == <<sharedVars, threadVars, failures, historyVars>>

-----------------------------------------------------------------------------
(* Requests.                                                               *)

IsChange(r)   == r.method \in {"POST", "PUT", "DELETE"} /\ r.what # "simple"
IsListener(r) == r.what \in {"listeners", "listener", "notifications"}
Notifies(r)   == IsChange(r) /\ ~IsListener(r)

\* Resources like /version skip the authorization.
ChangesNeedToken(r) == IsChange(r)

NeedsToken(r) == r.what # "simple"
HasJSONBody(r) == /\ r.method \in {"POST", "PUT"}
                  /\ r.what \notin {"file", "simple"}

\* The checks of a token end with a status, and for some with a message to
\* the log; a claim that is not there is a KeyError.
TokenStatus(token) ==
  CASE token \in {"none", "invalid", "no subject"} -> 401
    [] token \in {"malformed", "wrong scope"}      -> 403
    [] token = "no scope claim"                    -> 500
TokenIsLogged(token) == token \in {"invalid", "no subject", "wrong scope"}

BodyStatus(r) ==
  CASE r.body = "good"         -> 200
    [] r.body = "other type"   -> 415
    [] r.body = "not JSON"     -> 400
    [] r.body = "number"       -> 500
    [] r.body = "has id"       -> IF r.method = "POST" THEN 400 ELSE 200
    [] r.body = "wrong id"     -> 400
    [] r.body = "no revision"  -> IF r.method = "PUT" THEN 409 ELSE 200

\* The ids in the access log: from the reply, or, when that is no dict, from
\* where an item's path has its id.  A subitem in JSON has no id.
IdsOf(r) ==
  IF r.what \in {"subitem", "simple"} \/ (r.method = "DELETE" /\ IsListener(r))
  THEN <<>> ELSE r.ids

\* The next entry's ids, and those for the entries after it.
Chunk(s) == SubSeq(s, 1, IF Len(s) > ChunkSize THEN ChunkSize ELSE Len(s))
\* The entry's ids stay with those for the next.
RestOfAll(s) == s

RestOf(s) == SubSeq(s, Len(Chunk(s)) + 1, Len(s))

-----------------------------------------------------------------------------
(* Steps.                                                                  *)

Me(t) == <<t, served[t]>>

Goto(t, place) == pc' = [pc EXCEPT ![t] = place]

Record(t, kind, some) ==
  [kind |-> kind, by |-> Me(t), context |-> context[t], ids |-> some]
LogAll(t, kinds) ==
  records' = records \cup {Record(t, kind, <<>>) : kind \in kinds}

HttpContext(n) == <<"HTTP request", n>>
HookContext    == <<"_add_missing_route">>
NoContext      == <<>>

\* The context is not kept by thread.
SetOneContext(t, c) == context' = [u \in Threads |-> c]

SetContext(t, c) == context' = [context EXCEPT ![t] = c]
ResetContext(t)  == SetContext(t, NoContext)

Init ==
  /\ accessLogging \in BOOLEAN
  /\ routes = {}
  /\ counter = 0
  /\ context = [t \in Threads |-> NoContext]
  /\ pc = [t \in Threads |-> "idle"]
  /\ request = [t \in Threads |-> CHOOSE r \in Asked : TRUE]
  /\ served = [t \in Threads |-> 0]
  /\ status = [t \in Threads |-> 200]
  /\ ids = [t \in Threads |-> <<>>]
  /\ failures = 0
  /\ records = {} /\ effects = {} /\ replies = {}

\* bottle binds the request, and a response of 200, to the thread.
Arrive(t) ==
  /\ pc[t] = "idle" /\ FoldFunction(+, 0, served) < MaxRequests
  /\ \E r \in Asked : request' = [request EXCEPT ![t] = r]
  /\ served' = [served EXCEPT ![t] = @ + 1]
  /\ status' = [status EXCEPT ![t] = 200]
  /\ SetContext(t, HookContext)
  /\ Goto(t, "route")
  /\ UNCHANGED <<accessLogging, routes, counter, ids, failures, historyVars>>

Answer(t, code) ==
  /\ replies' = replies \cup {[by |-> Me(t), request |-> request[t],
                               status |-> code]}
  /\ Goto(t, "idle")

CanFail == failures < MaxFailures /\ failures' = failures + 1

\* What no route matches: a type that nobody has defined, a path below one that
\* is, and a method that the path does not have.  "simple" resources have their
\* routes from the start, and no specification.
Unmatched   == {"undefined", "no route", "other method", "other method of simple"}
HasSpec(r)  == r.what \notin {"undefined", "simple", "other method of simple"}
HasRoute(r) == r.what = "simple" \/ (r.path \in routes /\ r.what \notin Unmatched)

MatchStatus(r) == IF r.what \in {"undefined", "no route"} THEN 404 ELSE 405

\* The hook is outside of all plugins.
HookFails(t) ==
  /\ pc[t] = "route" /\ ~HasRoute(request[t]) /\ CanFail
  /\ Answer(t, 500)
  /\ UNCHANGED <<sharedVars, request, served, status, ids, records, effects>>

\* What has a specification gets its routes.  If they do not match either,
\* bottle answers, and nothing is in the log.
AddMissingRoute(t) ==
  LET r == request[t]
  IN /\ pc[t] = "route"
     /\ ResetContext(t)
     /\ routes' = IF HasSpec(r) THEN routes \cup {r.path} ELSE routes
     /\ IF r.what \in Unmatched
          THEN /\ Answer(t, MatchStatus(r))
               /\ IF HasSpec(r) THEN UNCHANGED records ELSE LogAll(t, {"error"})
          ELSE Goto(t, "start") /\ UNCHANGED <<records, replies>>
     /\ UNCHANGED <<accessLogging, counter, request, served, status, ids,
                    failures, effects>>

StartContext(t) ==
  /\ pc[t] = "start"
  /\ counter' = counter + 1
  /\ SetContext(t, HttpContext(counter + 1))
  /\ Goto(t, "request")
  /\ UNCHANGED <<accessLogging, routes, request, served, status, ids, failures,
                 historyVars>>

\* What follows is inside LoggingPlugin's try: what fails goes on at "error".
stepVars == <<accessLogging, routes, counter, request, served>>

Fails(t, places) ==
  /\ pc[t] \in places /\ CanFail
  /\ Goto(t, "error")
  /\ UNCHANGED <<stepVars, context, status, ids, historyVars>>

LogRequest(t) ==
  /\ pc[t] = "request"
  /\ LogAll(t, {"http-request"})
  /\ Goto(t, IF NeedsToken(request[t]) THEN "authorize" ELSE "handle")
  /\ UNCHANGED <<stepVars, context, status, ids, failures, effects, replies>>

\* ErrorTransformPlugin turns a QvarnException into a response.
\* The response is not given the exception's status.
TransformKeepsStatus(t, code, kinds) ==
  /\ LogAll(t, kinds \cup {"exception"})
  /\ Goto(t, "respond")
  /\ UNCHANGED status

\* The exception is not logged.
TransformUnseen(t, code, kinds) ==
  /\ LogAll(t, kinds)
  /\ status' = [status EXCEPT ![t] = code]
  /\ Goto(t, "respond")

Transform(t, code, kinds) ==
  /\ LogAll(t, kinds \cup {"exception"})
  /\ status' = [status EXCEPT ![t] = code]
  /\ Goto(t, "respond")

Refuse(t, code, kinds) ==
  IF code = 500 THEN Goto(t, "error") /\ UNCHANGED <<records, status>>
                ELSE Transform(t, code, kinds)

CheckAuth(t) ==
  /\ pc[t] = "authorize"
  /\ LET token == request[t].token
     IN IF token = "good"
        THEN /\ Goto(t, IF HasJSONBody(request[t]) THEN "validate" ELSE "handle")
             /\ UNCHANGED <<records, status>>
        ELSE Refuse(t, TokenStatus(token),
                    IF TokenIsLogged(token) THEN {"error"} ELSE {})
  /\ UNCHANGED <<stepVars, context, ids, failures, effects, replies>>

BasicValidation(t) ==
  /\ pc[t] = "validate"
  /\ IF BodyStatus(request[t]) = 200
     THEN Goto(t, "handle") /\ UNCHANGED <<records, status>>
     ELSE Refuse(t, BodyStatus(request[t]), {})
  /\ UNCHANGED <<stepVars, context, ids, failures, effects, replies>>

HandlerRefuses(t) ==
  /\ pc[t] = "handle" /\ request[t].what # "simple"
  /\ \E code \in Refusals : Transform(t, code, {})
  /\ UNCHANGED <<stepVars, context, ids, failures, effects, replies>>

\* Handlers commit, then notify, then name a status other than 200.
Handle(t) ==
  /\ pc[t] = "handle"
  /\ effects' = IF IsChange(request[t]) THEN effects \cup {<<Me(t), "commit">>}
                                        ELSE effects
  /\ Goto(t, "notify")
  /\ UNCHANGED <<stepVars, context, status, ids, failures, records, replies>>

Notify(t) ==
  /\ pc[t] = "notify"
  /\ effects' = IF Notifies(request[t]) THEN effects \cup {<<Me(t), "notify">>}
                                        ELSE effects
  /\ status' = [status EXCEPT ![t] =
                  IF request[t].method = "POST" /\ request[t].what # "simple"
                  THEN 201 ELSE 200]
  /\ ids' = [ids EXCEPT ![t] = IF accessLogging THEN IdsOf(request[t]) ELSE <<>>]
  /\ Goto(t, IF ids'[t] = <<>> THEN "respond" ELSE "access")
  /\ UNCHANGED <<stepVars, context, failures, records, replies>>

\* Faulty variant: the last entry is left out unless it is full.
LogWholeChunks(t) ==
  /\ pc[t] = "access"
  /\ IF request[t].qvarnToken = "bad"
     THEN Goto(t, "error") /\ UNCHANGED <<ids, records>>
     ELSE /\ records' = records \cup {Record(t, "access_log", Chunk(ids[t]))}
          /\ ids' = [ids EXCEPT ![t] = RestOf(ids[t])]
          /\ Goto(t, IF Len(ids[t]) >= 2 * ChunkSize THEN "access" ELSE "respond")
  /\ UNCHANGED <<stepVars, context, status, failures, effects, replies>>

\* A token in a Qvarn-Token header is not decoded before this.
LogAccess(t) ==
  /\ pc[t] = "access"
  /\ IF request[t].qvarnToken = "bad"
     THEN Goto(t, "error") /\ UNCHANGED <<ids, records>>
     ELSE /\ records' = records \cup {Record(t, "access_log", Chunk(ids[t]))}
          /\ ids' = [ids EXCEPT ![t] = RestOf(ids[t])]
          /\ Goto(t, IF Len(ids[t]) > ChunkSize THEN "access" ELSE "respond")
  /\ UNCHANGED <<stepVars, context, status, failures, effects, replies>>

LogResponse(t) ==
  /\ pc[t] = "respond"
  /\ LogAll(t, {"http-response"})
  /\ ResetContext(t)
  /\ Answer(t, status[t])
  /\ UNCHANGED <<stepVars, status, ids, failures, effects>>

LogError(t) ==
  /\ pc[t] = "error"
  /\ LogAll(t, {"error"})
  /\ ResetContext(t)
  /\ Answer(t, 500)
  /\ ids' = [ids EXCEPT ![t] = <<>>]
  /\ UNCHANGED <<stepVars, status, failures, effects>>

\* The error cannot be logged either: bottle answers, the context stays.
ErrorLogFails(t) ==
  /\ pc[t] = "error" /\ CanFail
  /\ Answer(t, 500)
  /\ ids' = [ids EXCEPT ![t] = <<>>]
  /\ UNCHANGED <<stepVars, context, status, records, effects>>

InsidePlugins == {"request", "authorize", "validate", "handle", "notify",
                  "access", "respond"}

Step(t) ==
  \/ HookFails(t)
  \/ AddMissingRoute(t)
  \/ StartContext(t)
  \/ LogRequest(t)
  \/ CheckAuth(t)
  \/ BasicValidation(t)
  \/ HandlerRefuses(t)
  \/ Handle(t)
  \/ Notify(t)
  \/ LogAccess(t)
  \/ LogResponse(t)
  \/ Fails(t, InsidePlugins)
  \/ LogError(t)
  \/ ErrorLogFails(t)

Next == \E t \in Threads : Arrive(t) \/ Step(t)

\* The interpreter runs every thread that can run.
Fairness == \A t \in Threads : WF_vars(Step(t))

Spec == Init /\ [][Next]_vars /\ Fairness

-----------------------------------------------------------------------------
(* Properties.                                                             *)

\* A thread is in one place of the pipeline, with what that place needs: ids
\* for the access log, a response's status.
TypeOK ==
  /\ pc \in [Threads -> InsidePlugins \cup {"idle", "route", "start", "error"}]
  /\ request \in [Threads -> Asked]
  /\ counter \in 0..MaxRequests /\ failures \in 0..MaxFailures
  /\ \A t \in Threads :
       /\ pc[t] = "access" => accessLogging /\ ids[t] # <<>>
       /\ pc[t] = "access" => status[t] \in {200, 201}
       /\ pc[t] = "idle" => ids[t] = <<>>

RecordsOf(reply, kind) == {e \in records : e.by = reply.by /\ e.kind = kind}
Succeeded(reply) == reply.status \in {200, 201}
Refused(reply)   == reply.status \in 400..499

\* The log tells requests apart: what is logged for a request carries that
\* request's number and no other's, whatever threads do meanwhile and however
\* the request that a thread served before has ended.  (What the hook logs is
\* not numbered.)
OwnContext ==
  \A e, f \in records :
    /\ e.context \in {HookContext} \cup {HttpContext(n) : n \in 1..counter}
    /\ (e.context # HookContext /\ f.context # HookContext) =>
         (e.by = f.by <=> e.context = f.context)

\* The answer says what has been done: after a 200 or 201 the change is
\* committed and its listeners have been notified, and after a 4xx nothing has
\* happened.  (A 500 says neither: what fails after the commit, such as the
\* access log, does not undo it.)
AnsweredAsDone ==
  \A reply \in replies :
    /\ Succeeded(reply) /\ IsChange(reply.request) =>
         /\ <<reply.by, "commit">> \in effects
         /\ Notifies(reply.request) => <<reply.by, "notify">> \in effects
    /\ Refused(reply) =>
         /\ \A e \in effects : e[1] # reply.by
         /\ RecordsOf(reply, "access_log") = {}

\* Without a token that is good for it a request does nothing and learns
\* nothing, but of the resources that are open to all.
OnlyWithToken ==
  \A reply \in replies :
    reply.request.token # "good" /\ reply.request.what # "simple" =>
      /\ ~Succeeded(reply)
      /\ \A e \in effects : e[1] # reply.by
      /\ RecordsOf(reply, "access_log") = {}

HasTrail(r) == r.what \notin {"subitem", "simple"} /\ ~IsListener(r)

\* The access log misses nothing: every id that a successful answer is about
\* is in exactly one of its entries, none of them longer than the chunk size;
\* but for subitems, which have none.  Nothing is said of listeners and
\* notifications: NEWS has them left out of the log, the code has not.
AccessIsLogged ==
  \A reply \in replies :
    Succeeded(reply) /\ accessLogging /\ HasTrail(reply.request) =>
      LET entries == RecordsOf(reply, "access_log")
          asked   == reply.request.ids
      IN /\ \A i \in DOMAIN asked :
              Cardinality({e \in entries : asked[i] \in Range(e.ids)}) = 1
         /\ \A e \in entries : e.ids # <<>> /\ Len(e.ids) <= ChunkSize

\* No error goes unseen: a refusal of the hook, a plugin or a handler and a 500
\* are in the log, but for as many 500s as there were failures.  The exception
\* are refusals that bottle makes without them, of a request that has a
\* specification and matches none of its routes: a 405, or a 404 below a type.
BottleAnswers(r) == r.what \in Unmatched /\ HasSpec(r)

ErrorsAreLogged ==
  LET unseen == {reply \in replies :
                   reply.status = 500 /\ RecordsOf(reply, "error") = {}}
  IN /\ Cardinality(unseen) <= failures
     /\ \A reply \in replies :
          Refused(reply) /\ ~BottleAnswers(reply.request) =>
            RecordsOf(reply, "exception") \cup RecordsOf(reply, "error") # {}

\* Every request is answered: whatever fails, and however many entries it
\* makes in the access log.
EveryRequestAnswered ==
  \A t \in Threads : pc[t] # "idle" ~> pc[t] = "idle"

=============================================================================
