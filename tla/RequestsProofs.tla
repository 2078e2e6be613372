---------------------------- MODULE RequestsProofs ----------------------------
(***************************************************************************)
(* Theorems about Requests, for every number of threads, every set of      *)
(* requests clients may make, and every bound.                             *)
(***************************************************************************)
EXTENDS Requests, FiniteSetTheorems, TLAPS

\* The places of a request between LoggingPlugin's start and its end.
Inside == InsidePlugins \cup {"error"}

Types ==
  /\ pc \in [Threads -> Inside \cup {"idle", "route", "start"}]
  /\ request \in [Threads -> Asked]
  /\ served \in [Threads -> Nat]
  /\ status \in [Threads -> Nat]

(***************************************************************************)
(* What the history says of one request, named by thread and how-manieth.  *)
(***************************************************************************)
Accessless(b) == \A e \in records : e.by = b => e.kind # "access_log"
Effectless(b) == \A e \in effects : e[1] # b
Clean(b)      == Accessless(b) /\ Effectless(b)
Fulfilled(b, r) ==
  IsChange(r) => /\ <<b, "commit">> \in effects
                 /\ Notifies(r) => <<b, "notify">> \in effects
Reported(b)   ==
  \E e \in records : e.by = b /\ e.kind \in {"exception", "error"}
Open(r)       == r.token = "good" \/ r.what = "simple"

\* Nothing is recorded of a request before it arrives.
PastOnly ==
  /\ \A e \in effects : \A t \in Threads, k \in Nat :
       e[1] = <<t, k>> => k <= served[t]
  /\ \A e \in records : \A t \in Threads, k \in Nat :
       e.by = <<t, k>> => k <= served[t]
  /\ \A e \in replies : \A t \in Threads, k \in Nat :
       e.by = <<t, k>> => k <= served[t]

\* What has been done for the request a thread is busy with, place by place.
ThreadOK(t) ==
  pc[t] # "idle" =>
    /\ \A e \in replies : e.by # Me(t)
    /\ pc[t] \in {"route", "start", "request", "authorize", "validate", "handle"} =>
         Clean(Me(t))
    /\ pc[t] \in {"validate", "handle", "notify", "access"} => Open(request[t])
    /\ pc[t] = "notify" /\ IsChange(request[t]) =>
         <<Me(t), "commit">> \in effects
    /\ pc[t] = "access" =>
         Fulfilled(Me(t), request[t]) /\ status[t] \in {200, 201}
    /\ pc[t] = "respond" =>
         \/ /\ status[t] \in {200, 201}
            /\ Fulfilled(Me(t), request[t]) /\ Open(request[t])
         \/ status[t] \in 400..499 /\ Clean(Me(t)) /\ Reported(Me(t))
    /\ pc[t] = "error" => Open(request[t]) \/ Clean(Me(t))

\* What an answer says has been done.
ReplyOK(reply) ==
  /\ Succeeded(reply) => Open(reply.request) /\ Fulfilled(reply.by, reply.request)
  /\ Refused(reply) =>
       Clean(reply.by) /\ (~BottleAnswers(reply.request) => Reported(reply.by))
  /\ Open(reply.request) \/ Clean(reply.by)

DoneInv ==
  /\ Types
  /\ PastOnly
  /\ \A t \in Threads : ThreadOK(t)
  /\ \A reply \in replies : ReplyOK(reply)

-----------------------------------------------------------------------------
\* A token or a body that is not good ends the request with an error status.
LEMMA TokenRefused ==
  ASSUME NEW r \in Asked, r.token # "good"
  PROVE  TokenStatus(r.token) \in {401, 403, 500}
<1>1. CASE r.token \in {"none", "invalid", "no subject"}
  <2>1. r.token \notin {"malformed", "wrong scope"} /\ r.token # "no scope claim"
    BY <1>1
  <2>2. TokenStatus(r.token) = 401
    BY <1>1, <2>1 DEF TokenStatus
  <2> QED BY <2>2
<1>2. CASE r.token \in {"malformed", "wrong scope"}
  <2>1. r.token \notin {"none", "invalid", "no subject"} /\ r.token # "no scope claim"
    BY <1>2
  <2>2. TokenStatus(r.token) = 403
    BY <1>2, <2>1 DEF TokenStatus
  <2> QED BY <2>2
<1>3. CASE r.token = "no scope claim"
  <2>1. TokenStatus(r.token) = 500
    BY <1>3 DEF TokenStatus
  <2> QED BY <2>1
<1> QED BY <1>1, <1>2, <1>3, AskedAssumption

LEMMA BodyRefused ==
  ASSUME NEW r \in Asked
  PROVE  BodyStatus(r) \in {200, 400, 409, 415, 500}
<1>1. CASE r.body = "good"
  <2>1. BodyStatus(r) = 200
    BY <1>1 DEF BodyStatus
  <2> QED BY <2>1
<1>2. CASE r.body = "other type"
  <2>1. BodyStatus(r) = 415
    BY <1>2 DEF BodyStatus
  <2> QED BY <2>1
<1>3. CASE r.body = "not JSON"
  <2>1. BodyStatus(r) = 400
    BY <1>3 DEF BodyStatus
  <2> QED BY <2>1
<1>4. CASE r.body = "number"
  <2>1. BodyStatus(r) = 500
    BY <1>4 DEF BodyStatus
  <2> QED BY <2>1
<1>5. CASE r.body = "has id"
  <2>1. BodyStatus(r) = IF r.method = "POST" THEN 400 ELSE 200
    BY <1>5 DEF BodyStatus
  <2> QED BY <2>1
<1>6. CASE r.body = "wrong id"
  <2>1. BodyStatus(r) = 400
    BY <1>6 DEF BodyStatus
  <2> QED BY <2>1
<1>7. CASE r.body = "no revision"
  <2>1. BodyStatus(r) = IF r.method = "PUT" THEN 409 ELSE 200
    BY <1>7 DEF BodyStatus
  <2> QED BY <2>1
<1> QED BY <1>1, <1>2, <1>3, <1>4, <1>5, <1>6, <1>7, AskedAssumption

LEMMA InitDone == Init => DoneInv
<1> SUFFICES ASSUME Init PROVE DoneInv
  OBVIOUS
<1>1. Types
  BY AskedAssumption DEF Init, Types
<1> QED BY <1>1 DEF Init, DoneInv, PastOnly, ThreadOK

(***************************************************************************)
(* A step of one thread leaves the others' requests alone.                 *)
(***************************************************************************)
Frame(t) ==
  /\ UNCHANGED <<request, served>>
  /\ \A u \in Threads \ {t} : pc'[u] = pc[u] /\ status'[u] = status[u]
  /\ effects \subseteq effects' /\ \A e \in effects' \ effects : e[1] = Me(t)
  /\ records \subseteq records' /\ \A e \in records' \ records : e.by = Me(t)

LEMMA OwnName ==
  \A t, u \in Threads : t # u => Me(t) # Me(u) /\ Me(t)[1] = t
BY DEF Me

LEMMA ReplyKept ==
  ASSUME NEW t \in Threads, Frame(t), NEW reply, ReplyOK(reply), reply.by # Me(t)
  PROVE  ReplyOK(reply)'
<1>1. /\ Clean(reply.by) => Clean(reply.by)'
      /\ Reported(reply.by) => Reported(reply.by)'
  BY DEF Frame, Clean, Accessless, Effectless, Reported
<1>2. Fulfilled(reply.by, reply.request) => Fulfilled(reply.by, reply.request)'
  BY DEF Frame, Fulfilled
<1> QED BY <1>1, <1>2 DEF ReplyOK

LEMMA OtherThreadKept ==
  ASSUME NEW t \in Threads, NEW u \in Threads \ {t}, Frame(t), ThreadOK(u),
         \A e \in replies' \ replies : e.by = Me(t)
  PROVE  ThreadOK(u)'
<1>1. Me(u)' = Me(u) /\ Me(u) # Me(t) /\ pc'[u] = pc[u] /\ status'[u] = status[u]
  BY OwnName DEF Frame, Me
<1>2. \A b : b # Me(t) =>
        /\ Clean(b) => Clean(b)'
        /\ Reported(b) => Reported(b)'
  BY DEF Frame, Clean, Accessless, Effectless, Reported
<1>3. \A b, r : Fulfilled(b, r) => Fulfilled(b, r)'
  BY DEF Frame, Fulfilled
<1>4. /\ Clean(Me(u)) => Clean(Me(u))'
      /\ Reported(Me(u)) => Reported(Me(u))'
      /\ Fulfilled(Me(u), request[u]) => Fulfilled(Me(u), request[u])'
  <2> SUFFICES ASSUME NEW b, b = Me(u), NEW r, r = request[u]
               PROVE  /\ Clean(b) => Clean(b)'
                      /\ Reported(b) => Reported(b)'
                      /\ Fulfilled(b, r) => Fulfilled(b, r)'
    BY <1>1 DEF Frame, Clean, Accessless, Effectless, Reported, Fulfilled
  <2> QED BY <1>1, <1>2, <1>3
<1> QED BY <1>1, <1>4 DEF ThreadOK, Frame

\* What a step has to show: what it leaves of its own request, or that its
\* answer is right.
LEMMA StepKeeps ==
  ASSUME DoneInv, NEW t \in Threads, pc[t] # "idle", Types', Frame(t), ThreadOK(t)',
         \/ replies' = replies
         \/ \E reply : /\ replies' = replies \cup {reply}
                       /\ reply.by = Me(t) /\ ReplyOK(reply)'
  PROVE  DoneInv'
<1>1. \A e \in replies' \ replies : e.by = Me(t) /\ ReplyOK(e)'
  OBVIOUS
<1>2. \A u \in Threads \ {t} : ThreadOK(u)'
  BY <1>1, OtherThreadKept DEF DoneInv
<1>3. \A e \in replies : ReplyOK(e)'
  <2>1. ThreadOK(t) /\ \A e \in replies : ReplyOK(e)
    BY DEF DoneInv
  <2>2. \A e \in replies : e.by # Me(t)
    BY <2>1 DEF ThreadOK
  <2> QED BY <2>1, <2>2, ReplyKept
<1>4. \A u \in Threads, k \in Nat : <<u, k>> = Me(t) => k <= served[u]
  BY DEF Me, DoneInv, Types
<1>5. PastOnly'
  BY <1>1, <1>4 DEF DoneInv, PastOnly, Frame
<1> QED BY <1>1, <1>2, <1>3, <1>5 DEF DoneInv

-----------------------------------------------------------------------------
\* A step that answers leaves the thread idle.
LEMMA AnswerKeeps ==
  ASSUME DoneInv, NEW t \in Threads, pc[t] # "idle", Frame(t), Types',
         NEW code, Answer(t, code), UNCHANGED effects,
         \A e \in records' \ records : e.kind # "access_log",
         code \in {200, 201} => Open(request[t]) /\ Fulfilled(Me(t), request[t]),
         code \in 400..499 => Clean(Me(t)),
         code \in 400..499 /\ ~BottleAnswers(request[t]) =>
           \E e \in records' : e.by = Me(t) /\ e.kind \in {"exception", "error"},
         Open(request[t]) \/ Clean(Me(t))
  PROVE  DoneInv'
<1>1. \E a : a = [by |-> Me(t), request |-> request[t], status |-> code]
  BY Zenon
<1>2. PICK a : a = [by |-> Me(t), request |-> request[t], status |-> code]
  BY <1>1
<1>3. a.by = Me(t) /\ a.request = request[t] /\ a.status = code
  BY <1>2
<1>4. replies' = replies \cup {a}
  BY <1>2 DEF Answer
<1>5. /\ Clean(Me(t)) => Clean(a.by)'
      /\ Fulfilled(Me(t), request[t]) => Fulfilled(a.by, a.request)'
  BY <1>3 DEF Clean, Accessless, Effectless, Fulfilled
<1>6. ReplyOK(a)'
  BY <1>3, <1>5 DEF ReplyOK, Succeeded, Refused, Reported, BottleAnswers
<1>7. ThreadOK(t)'
  BY DEF Answer, Goto, ThreadOK, DoneInv, Types
<1> QED BY <1>3, <1>4, <1>6, <1>7, StepKeeps

\* A step that does not.
LEMMA WorkKeeps ==
  ASSUME DoneInv, NEW t \in Threads, pc[t] # "idle", Types', Frame(t), ThreadOK(t)',
         replies' = replies
  PROVE  DoneInv'
BY StepKeeps

LEMMA LogAllFrame ==
  ASSUME NEW t \in Threads, NEW kinds, LogAll(t, kinds)
  PROVE  /\ records \subseteq records'
         /\ \A e \in records' \ records : e.by = Me(t) /\ e.kind \in kinds
         /\ \A kind \in kinds : \E e \in records' : e.by = Me(t) /\ e.kind = kind
<1>1. records' = records \cup {Record(t, kind, <<>>) : kind \in kinds}
  BY DEF LogAll
<1>2. \A kind : /\ Record(t, kind, <<>>).by = Me(t)
               /\ Record(t, kind, <<>>).kind = kind
  BY DEF Record
<1> QED BY <1>1, <1>2

\* What has been done for a request does not change with the log.
LEMMA OwnKept ==
  ASSUME NEW t \in Threads, UNCHANGED <<request, served, effects>>,
         records \subseteq records',
         \A e \in records' \ records : e.kind # "access_log"
  PROVE  /\ Me(t)' = Me(t)
         /\ Clean(Me(t)) => Clean(Me(t))'
         /\ Reported(Me(t)) => Reported(Me(t))'
         /\ Fulfilled(Me(t), request[t]) => Fulfilled(Me(t), request[t])'
BY DEF Me, Clean, Accessless, Effectless, Reported, Fulfilled

LEMMA Own ==
  ASSUME DoneInv, NEW t \in Threads
  PROVE  Types /\ ThreadOK(t)
BY DEF DoneInv

LEMMA HookFailsDone ==
  ASSUME DoneInv, NEW t \in Threads, HookFails(t)
  PROVE  DoneInv'
<1>1. /\ UNCHANGED <<request, served, status, records, effects>>
      /\ pc[t] = "route" /\ Answer(t, 500) /\ pc' = [pc EXCEPT ![t] = "idle"]
  BY DEF HookFails, Answer, Goto
<1>2. Types' /\ Frame(t)
  BY <1>1 DEF DoneInv, Types, Frame
<1>3. Clean(Me(t))
  BY <1>1 DEF DoneInv, ThreadOK
<1> QED BY <1>1, <1>2, <1>3, AnswerKeeps

LEMMA AddMissingRouteDone ==
  ASSUME DoneInv, NEW t \in Threads, AddMissingRoute(t)
  PROVE  DoneInv'
<1>1. /\ UNCHANGED <<request, served, status, effects>> /\ pc[t] = "route"
      /\ Clean(Me(t))
  BY DEF AddMissingRoute, DoneInv, ThreadOK
<1>2. CASE request[t].what \in Unmatched /\ ~HasSpec(request[t])
  <2>1. /\ LogAll(t, {"error"})
        /\ \E code \in {404, 405} : Answer(t, code)
    BY <1>2 DEF AddMissingRoute, MatchStatus
  <2>2. PICK code \in {404, 405} : Answer(t, code)
    BY <2>1
  <2>3. Types' /\ Frame(t)
    BY <1>1, <2>1, <2>2, LogAllFrame DEF DoneInv, Types, Frame, Answer, Goto
  <2> QED BY <1>1, <2>1, <2>2, <2>3, LogAllFrame, AnswerKeeps
<1>3. CASE request[t].what \in Unmatched /\ HasSpec(request[t])
  <2>1. PICK code \in {404, 405} : UNCHANGED records /\ Answer(t, code)
    <3>1. UNCHANGED records /\ Answer(t, MatchStatus(request[t]))
      BY <1>3 DEF AddMissingRoute
    <3>2. MatchStatus(request[t]) \in {404, 405}
      BY DEF MatchStatus
    <3> QED BY <3>1, <3>2
  <2>2. Types' /\ Frame(t)
    BY <1>1, <2>1 DEF DoneInv, Types, Frame, Answer, Goto
  <2> QED BY <1>1, <1>3, <2>1, <2>2, AnswerKeeps DEF BottleAnswers
<1>4. CASE request[t].what \notin Unmatched
  <2>1. UNCHANGED <<records, replies>> /\ pc' = [pc EXCEPT ![t] = "start"]
    BY <1>4 DEF AddMissingRoute, Goto
  <2>2. Types' /\ Frame(t)
    BY <1>1, <2>1 DEF DoneInv, Types, Frame
  <2>3. ThreadOK(t)'
    BY <1>1, <2>1, Own, OwnKept DEF Types, ThreadOK
  <2> QED BY <1>1, <2>1, <2>2, <2>3, WorkKeeps
<1> QED BY <1>2, <1>3, <1>4

LEMMA StartContextDone ==
  ASSUME DoneInv, NEW t \in Threads, StartContext(t)
  PROVE  DoneInv'
<1>1. /\ UNCHANGED <<request, served, status, records, effects, replies>>
      /\ pc[t] = "start" /\ pc' = [pc EXCEPT ![t] = "request"]
  BY DEF StartContext, Goto, historyVars
<1>2. Types' /\ Frame(t)
  BY <1>1 DEF DoneInv, Types, Frame, Inside, InsidePlugins
<1>3. ThreadOK(t)'
  BY <1>1, Own, OwnKept DEF Types, ThreadOK
<1> QED BY <1>1, <1>2, <1>3, WorkKeeps

LEMMA FailsDone ==
  ASSUME DoneInv, NEW t \in Threads, Fails(t, InsidePlugins)
  PROVE  DoneInv'
<1>1. /\ UNCHANGED <<request, served, status, records, effects, replies>>
      /\ pc[t] \in InsidePlugins /\ pc' = [pc EXCEPT ![t] = "error"]
  BY DEF Fails, Goto, historyVars, stepVars
<1>2. Types' /\ Frame(t)
  BY <1>1 DEF DoneInv, Types, Frame, Inside
<1>3. ThreadOK(t)'
  BY <1>1, Own, OwnKept DEF Types, ThreadOK, InsidePlugins
<1> QED BY <1>1, <1>2, <1>3, WorkKeeps DEF InsidePlugins

LEMMA LogRequestDone ==
  ASSUME DoneInv, NEW t \in Threads, LogRequest(t)
  PROVE  DoneInv'
<1>1. /\ UNCHANGED <<request, served, status, effects, replies>>
      /\ pc[t] = "request" /\ LogAll(t, {"http-request"})
      /\ \/ pc' = [pc EXCEPT ![t] = "authorize"]
         \/ pc' = [pc EXCEPT ![t] = "handle"] /\ Open(request[t])
  BY DEF LogRequest, Goto, stepVars, NeedsToken, Open
<1>2. Types' /\ Frame(t)
  BY <1>1, LogAllFrame DEF DoneInv, Types, Frame, Inside, InsidePlugins
<1>3. ThreadOK(t)'
  BY <1>1, LogAllFrame, Own, OwnKept DEF Types, ThreadOK
<1> QED BY <1>1, <1>2, <1>3, WorkKeeps

\* A refusal before anything has been done.
LEMMA RefuseDone ==
  ASSUME DoneInv, NEW t \in Threads, NEW code, NEW kinds, Refuse(t, code, kinds),
         UNCHANGED <<request, served, effects, replies>>,
         pc[t] \in {"authorize", "validate", "handle"},
         code \in 400..499 \cup {500}, "access_log" \notin kinds
  PROVE  DoneInv'
<1>1. Clean(Me(t))
  <2>1. ThreadOK(t) /\ pc[t] # "idle"
    BY Own
  <2> QED BY <2>1 DEF ThreadOK
<1>2. CASE code = 500
  <2>1. UNCHANGED <<records, status>> /\ pc' = [pc EXCEPT ![t] = "error"]
    BY <1>2 DEF Refuse, Goto
  <2>2. Types' /\ Frame(t)
    BY <2>1 DEF DoneInv, Types, Frame, Inside
  <2>3. ThreadOK(t)'
    BY <1>1, <2>1, Own, OwnKept DEF Types, ThreadOK
  <2> QED BY <2>1, <2>2, <2>3, WorkKeeps
<1>3. CASE code # 500
  <2>1. /\ LogAll(t, kinds \cup {"exception"})
        /\ status' = [status EXCEPT ![t] = code]
        /\ pc' = [pc EXCEPT ![t] = "respond"]
    BY <1>3 DEF Refuse, Transform, Goto
  <2>2. Types' /\ Frame(t)
    BY <1>3, <2>1, LogAllFrame DEF DoneInv, Types, Frame, Inside, InsidePlugins
  <2>3. \A e \in records' \ records : e.kind # "access_log"
    BY <2>1, LogAllFrame
  <2>4. Reported(Me(t))'
    <3>1. \E e \in records' : e.by = Me(t) /\ e.kind = "exception"
      BY <2>1, LogAllFrame
    <3> QED BY <3>1 DEF Reported, Me
  <2>5. Me(t)' = Me(t) /\ Clean(Me(t))'
    BY <1>1, <2>2, <2>3, OwnKept DEF Frame
  <2>6. pc'[t] = "respond" /\ status'[t] = code /\ code \in 400..499
    BY <1>3, <2>1, Own DEF Types
  <2>7. \A e \in replies : e.by # Me(t)
    BY Own DEF ThreadOK
  <2>8. ThreadOK(t)'
    BY <2>4, <2>5, <2>6, <2>7 DEF ThreadOK
  <2> QED BY <2>2, <2>8, WorkKeeps
<1> QED BY <1>2, <1>3

LEMMA CheckAuthDone ==
  ASSUME DoneInv, NEW t \in Threads, CheckAuth(t)
  PROVE  DoneInv'
<1>1. /\ UNCHANGED <<request, served, effects, replies>> /\ pc[t] = "authorize"
      /\ request[t] \in Asked
  BY DEF CheckAuth, stepVars, DoneInv, Types
<1>2. CASE request[t].token = "good"
  <2>1. /\ UNCHANGED <<records, status>>
        /\ \E p \in {"validate", "handle"} : pc' = [pc EXCEPT ![t] = p]
    BY <1>2 DEF CheckAuth, Goto
  <2>2. Types' /\ Frame(t)
    BY <1>1, <2>1 DEF DoneInv, Types, Frame, Inside, InsidePlugins
  <2>3. Open(request[t])
    BY <1>2 DEF Open
  <2>4. ThreadOK(t)'
    BY <1>1, <2>1, <2>3, Own, OwnKept DEF Types, ThreadOK
  <2> QED BY <1>1, <2>2, <2>4, WorkKeeps
<1>3. CASE request[t].token # "good"
  <2>1. \E kinds \in {{"error"}, {}} : Refuse(t, TokenStatus(request[t].token), kinds)
    BY <1>3 DEF CheckAuth
  <2>2. TokenStatus(request[t].token) \in 400..499 \cup {500}
    BY <1>1, <1>3, TokenRefused
  <2> QED BY <1>1, <2>1, <2>2, RefuseDone
<1> QED BY <1>2, <1>3

LEMMA BasicValidationDone ==
  ASSUME DoneInv, NEW t \in Threads, BasicValidation(t)
  PROVE  DoneInv'
<1>1. /\ UNCHANGED <<request, served, effects, replies>> /\ pc[t] = "validate"
      /\ request[t] \in Asked
  BY DEF BasicValidation, stepVars, DoneInv, Types
<1>2. CASE BodyStatus(request[t]) = 200
  <2>1. UNCHANGED <<records, status>> /\ pc' = [pc EXCEPT ![t] = "handle"]
    BY <1>2 DEF BasicValidation, Goto
  <2>2. Types' /\ Frame(t)
    BY <1>1, <2>1 DEF DoneInv, Types, Frame, Inside, InsidePlugins
  <2>3. ThreadOK(t)'
    BY <1>1, <2>1, Own, OwnKept DEF Types, ThreadOK
  <2> QED BY <1>1, <2>1, <2>2, <2>3, WorkKeeps
<1>3. CASE BodyStatus(request[t]) # 200
  <2>1. Refuse(t, BodyStatus(request[t]), {})
    BY <1>3 DEF BasicValidation
  <2>2. BodyStatus(request[t]) \in 400..499 \cup {500}
    BY <1>1, <1>3, BodyRefused
  <2> QED BY <1>1, <2>1, <2>2, RefuseDone
<1> QED BY <1>2, <1>3

LEMMA HandlerRefusesDone ==
  ASSUME DoneInv, NEW t \in Threads, HandlerRefuses(t)
  PROVE  DoneInv'
<1>1. /\ UNCHANGED <<request, served, effects, replies>> /\ pc[t] = "handle"
  BY DEF HandlerRefuses, stepVars
<1>2. PICK code \in Refusals : Transform(t, code, {})
  BY DEF HandlerRefuses
<1>3. code \in 400..499 /\ code # 500
  BY RefusalsAssumption
<1>4. Refuse(t, code, {})
  BY <1>2, <1>3 DEF Refuse
<1> QED BY <1>1, <1>3, <1>4, RefuseDone

\* What a handler commits, or notifies, is its own request's.
LEMMA HandleDone ==
  ASSUME DoneInv, NEW t \in Threads, Handle(t)
  PROVE  DoneInv'
<1>1. /\ UNCHANGED <<request, served, status, records, replies>>
      /\ pc[t] = "handle" /\ pc' = [pc EXCEPT ![t] = "notify"]
      /\ effects' = IF IsChange(request[t])
                    THEN effects \cup {<<Me(t), "commit">>} ELSE effects
  BY DEF Handle, Goto, stepVars
<1>2. Types' /\ Frame(t)
  BY <1>1 DEF DoneInv, Types, Frame, Inside, InsidePlugins
<1>3. Me(t)' = Me(t) /\ Open(request[t]) /\ \A e \in replies : e.by # Me(t)
  BY <1>1, Own DEF ThreadOK, Me
<1>4. ThreadOK(t)'
  BY <1>1, <1>3, Own DEF Types, ThreadOK
<1> QED BY <1>1, <1>2, <1>4, WorkKeeps

LEMMA NotifyDone ==
  ASSUME DoneInv, NEW t \in Threads, Notify(t)
  PROVE  DoneInv'
<1>1. /\ UNCHANGED <<request, served, records, replies>> /\ pc[t] = "notify"
      /\ effects' = IF Notifies(request[t])
                    THEN effects \cup {<<Me(t), "notify">>} ELSE effects
      /\ \E p \in {"respond", "access"} : pc' = [pc EXCEPT ![t] = p]
      /\ \E code \in {200, 201} : status' = [status EXCEPT ![t] = code]
  BY DEF Notify, Goto, stepVars
<1>2. Types' /\ Frame(t)
  BY <1>1 DEF DoneInv, Types, Frame, Inside, InsidePlugins
<1>3. Me(t)' = Me(t) /\ Open(request[t]) /\ \A e \in replies : e.by # Me(t)
  BY <1>1, Own DEF ThreadOK, Me
<1>4. IsChange(request[t]) => <<Me(t), "commit">> \in effects
  BY <1>1, Own DEF ThreadOK
<1>5. Fulfilled(Me(t), request[t])'
  BY <1>1, <1>3, <1>4 DEF Fulfilled
<1>6. /\ pc'[t] \in {"respond", "access"} /\ status'[t] \in {200, 201}
  BY <1>1, Own DEF Types
<1>7. ThreadOK(t)'
  BY <1>1, <1>3, <1>5, <1>6 DEF ThreadOK
<1> QED BY <1>1, <1>2, <1>7, WorkKeeps

LEMMA LogAccessDone ==
  ASSUME DoneInv, NEW t \in Threads, LogAccess(t)
  PROVE  DoneInv'
<1>1. /\ UNCHANGED <<request, served, status, effects, replies>>
      /\ pc[t] = "access"
      /\ \E p \in {"access", "respond", "error"} : pc' = [pc EXCEPT ![t] = p]
      /\ \/ records' = records
         \/ records' = records \cup {Record(t, "access_log", Chunk(ids[t]))}
  BY DEF LogAccess, Goto, stepVars
<1>2. Types' /\ Frame(t)
  BY <1>1 DEF DoneInv, Types, Frame, Inside, InsidePlugins, Record
<1>3. /\ Me(t)' = Me(t) /\ Open(request[t]) /\ status[t] \in {200, 201}
      /\ Fulfilled(Me(t), request[t]) /\ \A e \in replies : e.by # Me(t)
  BY <1>1, Own DEF ThreadOK, Me
<1>4. Fulfilled(Me(t), request[t])'
  BY <1>1, <1>3 DEF Fulfilled
<1>5. pc'[t] \in {"access", "respond", "error"}
  BY <1>1, Own DEF Types
<1>6. ThreadOK(t)'
  BY <1>1, <1>3, <1>4, <1>5 DEF ThreadOK
<1> QED BY <1>1, <1>2, <1>6, WorkKeeps

\* The answer carries the status of what was done.
LEMMA LogResponseDone ==
  ASSUME DoneInv, NEW t \in Threads, LogResponse(t)
  PROVE  DoneInv'
<1>1. /\ UNCHANGED <<request, served, status, effects>> /\ pc[t] = "respond"
      /\ Answer(t, status[t]) /\ LogAll(t, {"http-response"})
  BY DEF LogResponse, stepVars
<1>2. Types' /\ Frame(t)
  BY <1>1, LogAllFrame DEF DoneInv, Types, Frame, Answer, Goto
<1>3. \/ /\ status[t] \in {200, 201}
         /\ Fulfilled(Me(t), request[t]) /\ Open(request[t])
      \/ status[t] \in 400..499 /\ Clean(Me(t)) /\ Reported(Me(t))
  BY <1>1, Own DEF ThreadOK
<1>4. /\ \A e \in records' \ records : e.kind # "access_log"
      /\ records \subseteq records'
  BY <1>1, LogAllFrame
<1>5. Reported(Me(t)) =>
        \E e \in records' : e.by = Me(t) /\ e.kind \in {"exception", "error"}
  BY <1>4 DEF Reported
<1>6. PICK code : code = status[t]
  OBVIOUS
<1> QED BY <1>1, <1>2, <1>3, <1>4, <1>5, <1>6, AnswerKeeps

LEMMA LogErrorDone ==
  ASSUME DoneInv, NEW t \in Threads, LogError(t) \/ ErrorLogFails(t)
  PROVE  DoneInv'
<1>1. /\ UNCHANGED <<request, served, status, effects>> /\ pc[t] = "error"
      /\ Answer(t, 500) /\ (LogAll(t, {"error"}) \/ records' = records)
  BY DEF LogError, ErrorLogFails, stepVars
<1>2. Types' /\ Frame(t)
  BY <1>1, LogAllFrame DEF DoneInv, Types, Frame, Answer, Goto
<1>3. Open(request[t]) \/ Clean(Me(t))
  BY <1>1, Own DEF ThreadOK
<1>4. \A e \in records' \ records : e.kind # "access_log"
  BY <1>1, LogAllFrame
<1> QED BY <1>1, <1>2, <1>3, <1>4, AnswerKeeps

\* A request that arrives is one that nothing has been recorded of.
LEMMA ArriveDone ==
  ASSUME DoneInv, NEW t \in Threads, Arrive(t)
  PROVE  DoneInv'
<1>1. /\ UNCHANGED <<records, effects, replies>>
      /\ pc[t] = "idle" /\ pc' = [pc EXCEPT ![t] = "route"]
      /\ served' = [served EXCEPT ![t] = @ + 1]
      /\ status' = [status EXCEPT ![t] = 200]
      /\ \E r \in Asked : request' = [request EXCEPT ![t] = r]
  BY DEF Arrive, Goto, historyVars
<1>2. Types'
  BY <1>1, Own DEF Types
<1>3. PastOnly'
  <2>1. \A u \in Threads : served[u] \in Nat /\ served'[u] \in Nat /\ served[u] <= served'[u]
    BY <1>1, Own DEF Types
  <2> QED BY <1>1, <2>1 DEF DoneInv, PastOnly
<1>4. \A reply \in replies' : ReplyOK(reply)'
  <2> SUFFICES ASSUME NEW reply \in replies PROVE ReplyOK(reply)'
    BY <1>1
  <2> QED BY <1>1 DEF DoneInv, ReplyOK, Fulfilled, Clean, Accessless, Effectless,
                      Reported, Succeeded, Refused
<1>5. ThreadOK(t)'
  <2>1. PICK k \in Nat : k = served[t] + 1 /\ ~(k <= served[t])
    BY Own DEF Types
  <2>2. Me(t)' = <<t, k>> /\ pc'[t] = "route"
    BY <1>1, <2>1, Own DEF Me, Types
  <2>3. /\ \A e \in effects : e[1] # <<t, k>>
        /\ \A e \in records : e.by # <<t, k>>
        /\ \A e \in replies : e.by # <<t, k>>
    BY <2>1 DEF DoneInv, PastOnly
  <2>4. Clean(Me(t))'
    BY <1>1, <2>2, <2>3 DEF Clean, Accessless, Effectless
  <2> QED BY <1>1, <2>2, <2>3, <2>4 DEF ThreadOK
<1>6. ASSUME NEW u \in Threads \ {t} PROVE ThreadOK(u)'
  <2>1. /\ pc'[u] = pc[u] /\ status'[u] = status[u] /\ request'[u] = request[u]
        /\ Me(u)' = Me(u)
    BY <1>1, Own DEF Types, Me
  <2>2. /\ Clean(Me(u)) => Clean(Me(u))'
        /\ Reported(Me(u)) => Reported(Me(u))'
        /\ Fulfilled(Me(u), request[u]) => Fulfilled(Me(u), request[u])'
    BY <1>1, <2>1 DEF Clean, Accessless, Effectless, Reported, Fulfilled
  <2> QED BY <1>1, <2>1, <2>2, Own DEF ThreadOK
<1> QED BY <1>2, <1>3, <1>4, <1>5, <1>6 DEF DoneInv

LEMMA StepDone == DoneInv /\ [Next]_vars => DoneInv'
<1> SUFFICES ASSUME DoneInv, [Next]_vars PROVE DoneInv'
  OBVIOUS
<1>1. CASE Next
  <2>1. PICK t \in Threads : Arrive(t) \/ Step(t)
    BY <1>1 DEF Next
  <2>2. CASE Arrive(t)
    BY <2>2, ArriveDone
  <2>3. CASE Step(t)
    BY <2>3, HookFailsDone, AddMissingRouteDone, StartContextDone, LogRequestDone,
       CheckAuthDone, BasicValidationDone, HandlerRefusesDone, HandleDone,
       NotifyDone, LogAccessDone, LogResponseDone, FailsDone, LogErrorDone
       DEF Step
  <2> QED BY <2>1, <2>2, <2>3
<1>2. CASE UNCHANGED vars
  <2>1. UNCHANGED <<pc, request, served, status, records, effects, replies>>
    BY <1>2 DEF vars, sharedVars, threadVars, historyVars
  <2>2. Types' /\ PastOnly'
    BY <2>1 DEF DoneInv, Types, PastOnly
  <2>3. ASSUME NEW t \in Threads PROVE ThreadOK(t)'
    <3>1. /\ Me(t)' = Me(t)
          /\ Clean(Me(t)) => Clean(Me(t))'
          /\ Reported(Me(t)) => Reported(Me(t))'
          /\ Fulfilled(Me(t), request[t]) => Fulfilled(Me(t), request[t])'
      BY <2>1, OwnKept
    <3> QED BY <2>1, <3>1, Own DEF ThreadOK
  <2>4. ASSUME NEW reply \in replies PROVE ReplyOK(reply)'
    BY <2>1 DEF DoneInv, ReplyOK, Fulfilled, Clean, Accessless, Effectless,
                Reported, Succeeded, Refused
  <2> QED BY <2>1, <2>2, <2>3, <2>4 DEF DoneInv
<1> QED BY <1>1, <1>2

LEMMA DoneInvariance == Spec => []DoneInv
<1> QED BY InitDone, StepDone, PTL DEF Spec

(***************************************************************************)
(* The answer says what has been done: a success means that the change is  *)
(* committed and its listeners have been notified, a refusal that nothing  *)
(* has happened (the handlers' order of commit, notify and status, and     *)
(* ErrorTransformPlugin).                                                  *)
(***************************************************************************)
THEOREM AnswersAreTrue == Spec => []AnsweredAsDone
<1>1. DoneInv => AnsweredAsDone
  <2> SUFFICES ASSUME DoneInv, NEW reply \in replies
               PROVE  /\ Succeeded(reply) /\ IsChange(reply.request) =>
                           /\ <<reply.by, "commit">> \in effects
                           /\ Notifies(reply.request) =>
                                <<reply.by, "notify">> \in effects
                      /\ Refused(reply) => /\ \A e \in effects : e[1] # reply.by
                                           /\ RecordsOf(reply, "access_log") = {}
    BY DEF AnsweredAsDone
  <2>1. ReplyOK(reply)
    BY DEF DoneInv
  <2> QED BY <2>1 DEF ReplyOK, Fulfilled, Clean, Accessless, Effectless, RecordsOf
<1> QED BY <1>1, DoneInvariance, PTL

(***************************************************************************)
(* No change and no success without a token that is good for it: whatever  *)
(* fails on the way, AuthorizationPlugin comes before the handler.         *)
(***************************************************************************)
THEOREM NothingWithoutToken == Spec => []OnlyWithToken
<1>1. DoneInv => OnlyWithToken
  <2> SUFFICES ASSUME DoneInv, NEW reply \in replies,
                      reply.request.token # "good", reply.request.what # "simple"
               PROVE  /\ ~Succeeded(reply)
                      /\ \A e \in effects : e[1] # reply.by
                      /\ RecordsOf(reply, "access_log") = {}
    BY DEF OnlyWithToken
  <2>1. ReplyOK(reply) /\ ~Open(reply.request)
    BY DEF DoneInv, Open
  <2> QED BY <2>1 DEF ReplyOK, Clean, Accessless, Effectless, RecordsOf
<1> QED BY <1>1, DoneInvariance, PTL

-----------------------------------------------------------------------------
(***************************************************************************)
(* The log tells requests apart.  Numbers are given once, and a request    *)
(* that has one keeps it for as long as it may log.                        *)
(***************************************************************************)
Numbers == {HttpContext(n) : n \in 1..counter}

\* All that is in the log with its number is t's, and the other way round.
Telling(t) ==
  \A e \in records :
    e.context # HookContext => (e.by = Me(t) <=> e.context = context[t])

ContextInv ==
  /\ counter \in Nat
  /\ context \in [Threads -> {HookContext, NoContext} \cup Numbers]
  /\ \A e \in records : e.context \in {HookContext} \cup Numbers
  /\ \A t \in Threads :
       /\ pc[t] = "route" => context[t] = HookContext
       /\ pc[t] \in {"route", "start"} => \A e \in records : e.by # Me(t)
       /\ pc[t] \in Inside => context[t] \in Numbers /\ Telling(t)
  /\ \A t, u \in Threads :
       pc[t] \in Inside /\ pc[u] \in Inside /\ t # u => context[t] # context[u]
  /\ OwnContext

LEMMA ContextsDiffer ==
  /\ HookContext # NoContext
  /\ \A n \in Nat : HttpContext(n) # HookContext /\ HttpContext(n) # NoContext
  /\ \A m, n \in Nat : HttpContext(m) = HttpContext(n) => m = n
<1>1. Len(HookContext) = 1 /\ Len(NoContext) = 0
  BY DEF HookContext, NoContext
<1>2. \A n \in Nat : Len(HttpContext(n)) = 2 /\ HttpContext(n)[2] = n
  BY DEF HttpContext
<1> QED BY <1>1, <1>2

LEMMA InitContexts == Init => ContextInv
<1> SUFFICES ASSUME Init PROVE ContextInv
  OBVIOUS
<1>1. /\ counter = 0 /\ records = {} /\ pc = [t \in Threads |-> "idle"]
      /\ context = [t \in Threads |-> NoContext]
  BY DEF Init
<1>2. OwnContext
  BY <1>1 DEF OwnContext
<1> QED BY <1>1, <1>2 DEF ContextInv, Inside, InsidePlugins

\* What all of a request's steps inside of the plugins have in common.
Logs(t) ==
  /\ UNCHANGED <<counter, served>>
  /\ records \subseteq records'
  /\ \A e \in records' \ records : e.by = Me(t) /\ e.context = context[t]
  /\ \A u \in Threads \ {t} : pc'[u] = pc[u]

LEMMA LogAllLogs ==
  ASSUME NEW t \in Threads, NEW kinds, LogAll(t, kinds)
  PROVE  /\ records \subseteq records'
         /\ \A e \in records' \ records : e.by = Me(t) /\ e.context = context[t]
BY DEF LogAll, Record

LEMMA RefuseLogs ==
  ASSUME Types, NEW t \in Threads, NEW code, NEW kinds, Refuse(t, code, kinds),
         UNCHANGED <<counter, served>>
  PROVE  Logs(t) /\ pc'[t] \in Inside
<1>1. \/ UNCHANGED records /\ pc' = [pc EXCEPT ![t] = "error"]
      \/ LogAll(t, kinds \cup {"exception"}) /\ pc' = [pc EXCEPT ![t] = "respond"]
  BY DEF Refuse, Transform, Goto
<1> QED BY <1>1, LogAllLogs DEF Logs, Types, Inside, InsidePlugins

LEMMA InsideLogs ==
  ASSUME Types, NEW t \in Threads,
         \/ LogRequest(t) \/ CheckAuth(t) \/ BasicValidation(t)
         \/ HandlerRefuses(t) \/ Handle(t) \/ Notify(t) \/ LogAccess(t)
         \/ Fails(t, InsidePlugins)
  PROVE  Logs(t) /\ pc[t] \in Inside /\ pc'[t] \in Inside /\ UNCHANGED context
<1>1. CASE LogRequest(t)
  <2>1. /\ UNCHANGED <<counter, served, context>> /\ pc[t] = "request"
        /\ \E p \in {"authorize", "handle"} : pc' = [pc EXCEPT ![t] = p]
        /\ LogAll(t, {"http-request"})
    BY <1>1 DEF LogRequest, Goto, stepVars
  <2> QED BY <2>1, LogAllLogs DEF Logs, Types, Inside, InsidePlugins
<1>2. CASE CheckAuth(t)
  <2>1. /\ UNCHANGED <<counter, served, context>> /\ pc[t] = "authorize"
        /\ \/ \E code, kinds : Refuse(t, code, kinds)
           \/ /\ \E p \in {"validate", "handle"} : pc' = [pc EXCEPT ![t] = p]
              /\ UNCHANGED records
    BY <1>2 DEF CheckAuth, Goto, stepVars
  <2>2. pc[t] \in Inside
    BY <2>1 DEF Inside, InsidePlugins
  <2> QED BY <2>1, <2>2, RefuseLogs DEF Logs, Types, Inside, InsidePlugins
<1>3. CASE BasicValidation(t)
  <2>1. /\ UNCHANGED <<counter, served, context>> /\ pc[t] = "validate"
        /\ \/ \E code, kinds : Refuse(t, code, kinds)
           \/ pc' = [pc EXCEPT ![t] = "handle"] /\ UNCHANGED records
    BY <1>3 DEF BasicValidation, Goto, stepVars
  <2>2. pc[t] \in Inside
    BY <2>1 DEF Inside, InsidePlugins
  <2> QED BY <2>1, <2>2, RefuseLogs DEF Logs, Types, Inside, InsidePlugins
<1>4. CASE HandlerRefuses(t)
  <2>1. /\ UNCHANGED <<counter, served, context>> /\ pc[t] = "handle"
        /\ \E code \in Refusals : Transform(t, code, {})
    BY <1>4 DEF HandlerRefuses, stepVars
  <2>2. pc' = [pc EXCEPT ![t] = "respond"] /\ LogAll(t, {} \cup {"exception"})
    BY <2>1 DEF Transform, Goto
  <2> QED BY <2>1, <2>2, LogAllLogs DEF Logs, Types, Inside, InsidePlugins
<1>5. CASE Handle(t) \/ Notify(t) \/ Fails(t, InsidePlugins)
  <2>1. /\ UNCHANGED <<counter, served, context, records>>
        /\ pc[t] \in InsidePlugins
        /\ \E p \in {"notify", "respond", "access", "error"} :
             pc' = [pc EXCEPT ![t] = p]
    BY <1>5 DEF Handle, Notify, Fails, Goto, stepVars, historyVars, InsidePlugins
  <2> QED BY <2>1 DEF Logs, Types, Inside, InsidePlugins
<1>6. CASE LogAccess(t)
  <2>1. /\ UNCHANGED <<counter, served, context>> /\ pc[t] = "access"
        /\ \E p \in {"access", "respond", "error"} : pc' = [pc EXCEPT ![t] = p]
        /\ \/ records' = records
           \/ records' = records \cup {Record(t, "access_log", Chunk(ids[t]))}
    BY <1>6 DEF LogAccess, Goto, stepVars
  <2> QED BY <2>1 DEF Logs, Types, Inside, InsidePlugins, Record
<1> QED BY <1>1, <1>2, <1>3, <1>4, <1>5, <1>6

\* A request that is answered from inside of the plugins leaves its context or
\* clears it.
LEMMA AnswerLogs ==
  ASSUME Types, NEW t \in Threads,
         LogResponse(t) \/ LogError(t) \/ ErrorLogFails(t)
  PROVE  /\ Logs(t) /\ pc[t] \in Inside /\ pc'[t] = "idle"
         /\ UNCHANGED context \/ ResetContext(t)
<1>1. /\ UNCHANGED <<counter, served>> /\ pc[t] \in {"respond", "error"}
      /\ pc' = [pc EXCEPT ![t] = "idle"]
      /\ UNCHANGED context \/ ResetContext(t)
      /\ \/ \E kinds : LogAll(t, kinds)
         \/ UNCHANGED records
  BY DEF LogResponse, LogError, ErrorLogFails, Answer, Goto, stepVars
<1> QED BY <1>1, LogAllLogs DEF Logs, Types, Inside, InsidePlugins

-----------------------------------------------------------------------------
\* Inside of the plugins a request logs with its own number only.
LEMMA LogsKeep ==
  ASSUME DoneInv, ContextInv, NEW t \in Threads, Logs(t), pc[t] \in Inside,
         \/ pc'[t] \in Inside /\ UNCHANGED context
         \/ pc'[t] = "idle" /\ (UNCHANGED context \/ ResetContext(t))
  PROVE  ContextInv'
<1>1. /\ counter' = counter /\ Numbers' = Numbers
      /\ \A u \in Threads : Me(u)' = Me(u)
      /\ \A u \in Threads \ {t} : context'[u] = context[u] /\ pc'[u] = pc[u]
  BY DEF Logs, Numbers, Me, ResetContext, SetContext, ContextInv
<1>2. context' \in [Threads -> {HookContext, NoContext} \cup Numbers]
  BY DEF ResetContext, SetContext, ContextInv
<1>3. context[t] \in Numbers /\ context[t] # HookContext /\ Telling(t)
  BY ContextsDiffer DEF ContextInv, Numbers
<1>4. \A e \in records' : e \in records \/ (e.by = Me(t) /\ e.context = context[t])
  BY DEF Logs
<1>5. OwnContext'
  <2> SUFFICES ASSUME NEW e \in records', NEW f \in records'
               PROVE  /\ e.context \in {HookContext} \cup Numbers
                      /\ e.context # HookContext /\ f.context # HookContext =>
                           (e.by = f.by <=> e.context = f.context)
    BY <1>1 DEF OwnContext, Numbers
  <2>1. e.context \in {HookContext} \cup Numbers
    BY <1>3, <1>4 DEF ContextInv
  <2>2. CASE e \in records /\ f \in records
    BY <2>1, <2>2 DEF ContextInv, OwnContext
  <2>3. CASE ~(e \in records /\ f \in records)
    BY <1>3, <1>4, <2>1, <2>3 DEF Telling
  <2> QED BY <2>2, <2>3
<1>6. ASSUME NEW u \in Threads, pc'[u] \in Inside
      PROVE  Telling(u)' /\ context'[u] \in Numbers
  <2>1. pc[u] \in Inside /\ context'[u] = context[u] /\ Me(u)' = Me(u)
    BY <1>1, <1>6 DEF Inside, InsidePlugins
  <2>2. Telling(u) /\ context[u] \in Numbers
    BY <2>1 DEF ContextInv
  <2>3. u = t \/ (context[u] # context[t] /\ Me(u) # Me(t))
    BY <2>1, OwnName DEF ContextInv
  <2> QED BY <1>4, <2>1, <2>2, <2>3 DEF Telling
<1>7. ASSUME NEW u \in Threads
      PROVE  /\ pc'[u] = "route" => context'[u] = HookContext
             /\ pc'[u] \in {"route", "start"} => \A e \in records' : e.by # Me(u)
  <2>1. pc'[u] \in {"route", "start"} => u # t /\ pc'[u] = pc[u]
    BY <1>1 DEF Inside, InsidePlugins
  <2> QED BY <1>1, <1>4, <2>1, OwnName DEF ContextInv
<1>8. \A u, v \in Threads :
        pc'[u] \in Inside /\ pc'[v] \in Inside /\ u # v => context'[u] # context'[v]
  <2>1. \A u \in Threads : pc'[u] \in Inside =>
                             pc[u] \in Inside /\ context'[u] = context[u]
    BY <1>1 DEF Inside, InsidePlugins
  <2> QED BY <2>1 DEF ContextInv
<1> QED BY <1>1, <1>2, <1>3, <1>4, <1>5, <1>6, <1>7, <1>8 DEF ContextInv

\* Outside of the plugins a step of t touches the log for the hook only, and
\* leaves the other requests' places and contexts alone.
Outside(t) ==
  /\ counter' \in Nat /\ counter <= counter'
  /\ \A u \in Threads \ {t} : Me(u)' = Me(u)
  /\ \A u \in Threads \ {t} : pc'[u] = pc[u] /\ context'[u] = context[u]
  /\ records \subseteq records'
  /\ \A e \in records' \ records : e.by = Me(t) /\ e.context = HookContext

LEMMA OutsideKeeps ==
  ASSUME DoneInv, ContextInv, NEW t \in Threads, Outside(t),
         context' \in [Threads -> {HookContext, NoContext} \cup Numbers'],
         pc[t] \notin Inside,
         pc'[t] = "route" => context'[t] = HookContext,
         pc'[t] \in {"route", "start"} => \A e \in records' : e.by # Me(t)',
         pc'[t] \in Inside =>
           /\ context'[t] = HttpContext(counter + 1) /\ counter' = counter + 1
           /\ \A e \in records' : e.by # Me(t)'
  PROVE  ContextInv'
<1>1. Numbers \subseteq Numbers'
  BY DEF Numbers, Outside, ContextInv
<1>2. HttpContext(counter + 1) \notin Numbers /\ HookContext \notin Numbers
  BY ContextsDiffer DEF Numbers, ContextInv
<1>3. /\ \A e \in records' : e.context = HookContext \/ (e \in records /\ e.context \in Numbers)
      /\ \A e \in records' : e \in records \/ e.by = Me(t)
  BY DEF ContextInv, Outside
<1>4. OwnContext'
  <2> SUFFICES ASSUME NEW e \in records', NEW f \in records'
               PROVE  /\ e.context \in {HookContext} \cup Numbers'
                      /\ e.context # HookContext /\ f.context # HookContext =>
                           (e.by = f.by <=> e.context = f.context)
    BY DEF OwnContext, Numbers
  <2> QED BY <1>1, <1>3 DEF ContextInv, OwnContext
<1>5. ASSUME NEW u \in Threads, pc'[u] \in Inside
      PROVE  Telling(u)' /\ context'[u] \in Numbers'
  <2>1. CASE u = t
    <3>1. context'[u] \in Numbers'
      BY <1>5, <2>1 DEF Numbers, Outside, ContextInv
    <3>2. \A e \in records' : e.context # HookContext => e.context # context'[u]
      BY <1>2, <1>3, <1>5, <2>1
    <3> QED BY <1>5, <2>1, <3>1, <3>2 DEF Telling
  <2>2. CASE u # t
    <3>1. /\ context'[u] = context[u] /\ Me(u)' = Me(u) /\ Telling(u)
          /\ context[u] \in Numbers
      BY <1>5, <2>2 DEF ContextInv, Outside
    <3> QED BY <1>1, <1>3, <3>1 DEF Telling
  <2> QED BY <2>1, <2>2
<1>6. ASSUME NEW u \in Threads
      PROVE  /\ pc'[u] = "route" => context'[u] = HookContext
             /\ pc'[u] \in {"route", "start"} => \A e \in records' : e.by # Me(u)'
  <2>1. u # t => /\ pc'[u] = pc[u] /\ context'[u] = context[u]
                 /\ Me(u)' = Me(u) /\ Me(u) # Me(t)
    BY OwnName DEF Outside
  <2> QED BY <1>3, <2>1 DEF ContextInv
<1>7. \A u, v \in Threads :
        pc'[u] \in Inside /\ pc'[v] \in Inside /\ u # v => context'[u] # context'[v]
  <2>1. \A u \in Threads \ {t} :
          pc'[u] \in Inside => /\ pc[u] \in Inside /\ context'[u] = context[u]
                               /\ context[u] \in Numbers
    BY DEF ContextInv, Outside
  <2> QED BY <1>2, <2>1 DEF ContextInv
<1>8. \A e \in records' : e.context \in {HookContext} \cup Numbers'
  BY <1>1, <1>3
<1> QED BY <1>4, <1>5, <1>6, <1>7, <1>8 DEF ContextInv, Outside

LEMMA HookContexts ==
  ASSUME DoneInv, ContextInv, NEW t \in Threads, HookFails(t) \/ AddMissingRoute(t)
  PROVE  ContextInv'
<1>1. /\ UNCHANGED <<counter, served>> /\ pc[t] = "route"
      /\ context' = context \/ context' = [context EXCEPT ![t] = NoContext]
      /\ \/ UNCHANGED records /\ pc' = [pc EXCEPT ![t] = "idle"]
         \/ LogAll(t, {"error"}) /\ pc' = [pc EXCEPT ![t] = "idle"]
         \/ UNCHANGED records /\ pc' = [pc EXCEPT ![t] = "start"]
  <2>1. CASE HookFails(t)
    BY <2>1 DEF HookFails, Answer, Goto, sharedVars
  <2>2. CASE AddMissingRoute(t)
    <3>1. /\ UNCHANGED <<counter, served>> /\ pc[t] = "route"
          /\ context' = [context EXCEPT ![t] = NoContext]
      BY <2>2 DEF AddMissingRoute, ResetContext, SetContext
    <3>2. CASE request[t].what \in Unmatched
      BY <2>2, <3>1, <3>2 DEF AddMissingRoute, Answer, Goto
    <3>3. CASE request[t].what \notin Unmatched
      BY <2>2, <3>1, <3>3 DEF AddMissingRoute, Goto
    <3> QED BY <3>2, <3>3
  <2> QED BY <2>1, <2>2
<1>2. context[t] = HookContext /\ \A e \in records : e.by # Me(t)
  BY <1>1 DEF ContextInv
<1>3. /\ records \subseteq records'
      /\ \A e \in records' \ records : e.by = Me(t) /\ e.context = HookContext
  BY <1>1, <1>2, LogAllLogs
<1>4. Outside(t) /\ Me(t)' = Me(t)
  <2>1. counter' \in Nat /\ counter <= counter' /\ \A u \in Threads : Me(u)' = Me(u)
    BY <1>1 DEF Me, ContextInv
  <2>2. \A u \in Threads \ {t} : pc'[u] = pc[u] /\ context'[u] = context[u]
    <3>1. DOMAIN pc = Threads /\ DOMAIN context = Threads
      BY Own DEF Types, ContextInv
    <3> QED BY <1>1, <3>1
  <2> QED BY <1>3, <2>1, <2>2 DEF Outside
<1>5. context' \in [Threads -> {HookContext, NoContext} \cup Numbers']
  BY <1>1 DEF ContextInv, Numbers
<1>6. pc'[t] = "idle" \/ (pc'[t] = "start" /\ UNCHANGED records)
  BY <1>1 DEF DoneInv, Types
<1> QED BY <1>1, <1>2, <1>4, <1>5, <1>6, OutsideKeeps DEF Inside, InsidePlugins

\* A number is taken from the counter under its lock.
LEMMA StartContexts ==
  ASSUME DoneInv, ContextInv, NEW t \in Threads, StartContext(t)
  PROVE  ContextInv'
<1>1. /\ UNCHANGED <<served, records>> /\ counter' = counter + 1
      /\ pc[t] = "start" /\ pc' = [pc EXCEPT ![t] = "request"]
      /\ context' = [context EXCEPT ![t] = HttpContext(counter + 1)]
  BY DEF StartContext, Goto, SetContext, historyVars
<1>2. Outside(t) /\ Me(t)' = Me(t)
  BY <1>1 DEF Outside, Me, ContextInv
<1>3. \A e \in records' : e.by # Me(t)'
  BY <1>1, <1>2 DEF ContextInv
<1>4. context'[t] = HttpContext(counter + 1) /\ pc'[t] = "request"
  BY <1>1 DEF ContextInv, DoneInv, Types
<1>5. context' \in [Threads -> {HookContext, NoContext} \cup Numbers']
  BY <1>1 DEF ContextInv, Numbers
<1> QED BY <1>1, <1>2, <1>3, <1>4, <1>5, OutsideKeeps DEF Inside, InsidePlugins

LEMMA ArriveContexts ==
  ASSUME DoneInv, ContextInv, NEW t \in Threads, Arrive(t)
  PROVE  ContextInv'
<1>1. /\ UNCHANGED <<records, counter>>
      /\ pc[t] = "idle" /\ pc' = [pc EXCEPT ![t] = "route"]
      /\ served' = [served EXCEPT ![t] = @ + 1]
      /\ context' = [context EXCEPT ![t] = HookContext]
  BY DEF Arrive, Goto, SetContext, historyVars
<1>2. Outside(t)
  BY <1>1 DEF Outside, Me, ContextInv, DoneInv, Types
<1>3. \A e \in records' : e.by # Me(t)'
  <2>1. PICK k \in Nat : k = served[t] + 1 /\ ~(k <= served[t])
    BY Own DEF Types
  <2>2. Me(t)' = <<t, k>>
    BY <1>1, <2>1, Own DEF Me, Types
  <2> QED BY <1>1, <2>1, <2>2 DEF DoneInv, PastOnly
<1>4. context'[t] = HookContext /\ pc'[t] = "route"
  BY <1>1 DEF ContextInv, DoneInv, Types
<1>5. context' \in [Threads -> {HookContext, NoContext} \cup Numbers']
  BY <1>1 DEF ContextInv, Numbers
<1> QED BY <1>1, <1>2, <1>3, <1>4, <1>5, OutsideKeeps DEF Inside, InsidePlugins

LEMMA StepContexts == DoneInv /\ ContextInv /\ [Next]_vars => ContextInv'
<1> SUFFICES ASSUME DoneInv, ContextInv, [Next]_vars PROVE ContextInv'
  OBVIOUS
<1>1. CASE Next
  <2>1. PICK t \in Threads : Arrive(t) \/ Step(t)
    BY <1>1 DEF Next
  <2>2. CASE Arrive(t)
    BY <2>2, ArriveContexts
  <2>3. CASE HookFails(t) \/ AddMissingRoute(t)
    BY <2>3, HookContexts
  <2>4. CASE StartContext(t)
    BY <2>4, StartContexts
  <2>5. CASE \/ LogRequest(t) \/ CheckAuth(t) \/ BasicValidation(t)
             \/ HandlerRefuses(t) \/ Handle(t) \/ Notify(t) \/ LogAccess(t)
             \/ Fails(t, InsidePlugins)
    BY <2>5, InsideLogs, LogsKeep, Own
  <2>6. CASE LogResponse(t) \/ LogError(t) \/ ErrorLogFails(t)
    BY <2>6, AnswerLogs, LogsKeep, Own
  <2> QED BY <2>1, <2>2, <2>3, <2>4, <2>5, <2>6 DEF Step
<1>2. CASE UNCHANGED vars
  <2>1. UNCHANGED <<pc, served, counter, context, records>>
    BY <1>2 DEF vars, sharedVars, threadVars, historyVars
  <2>2. Numbers' = Numbers /\ \A t \in Threads : Telling(t) => Telling(t)'
    BY <2>1 DEF Numbers, Telling, Me
  <2>3. OwnContext'
    BY <2>1 DEF ContextInv, OwnContext
  <2>4. \A t \in Threads : Me(t)' = Me(t) /\ pc'[t] = pc[t] /\ context'[t] = context[t]
    BY <2>1 DEF Me
  <2>5. ASSUME NEW t \in Threads
        PROVE  /\ pc'[t] = "route" => context'[t] = HookContext
               /\ pc'[t] \in {"route", "start"} => \A e \in records' : e.by # Me(t)'
               /\ pc'[t] \in Inside => context'[t] \in Numbers' /\ Telling(t)'
    BY <2>1, <2>2, <2>4 DEF ContextInv
  <2> QED BY <2>1, <2>2, <2>3, <2>4, <2>5 DEF ContextInv
<1> QED BY <1>1, <1>2

(***************************************************************************)
(* What is logged for a request carries that request's number and no       *)
(* other's, for any number of threads and requests (LoggingPlugin's        *)
(* counter under its lock, and the log's context by thread).               *)
(***************************************************************************)
THEOREM ContextsAreOwn == Spec => []OwnContext
<1>1. ContextInv => OwnContext
  BY DEF ContextInv
<1> QED BY <1>1, InitContexts, StepContexts, DoneInvariance, PTL DEF Spec

-----------------------------------------------------------------------------
(***************************************************************************)
(* The errors that are not in the log.                                     *)
(***************************************************************************)
Unseen == {reply \in replies :
             reply.status = 500 /\ RecordsOf(reply, "error") = {}}

UnseenInv ==
  /\ failures \in Nat
  /\ IsFiniteSet(Unseen) /\ Cardinality(Unseen) <= failures

LEMMA UnseenGrow ==
  ASSUME records \subseteq records', replies' = replies
  PROVE  Unseen' \subseteq Unseen
BY DEF Unseen, RecordsOf

LEMMA UnseenAnswer ==
  ASSUME NEW t \in Threads, NEW code, Answer(t, code), records \subseteq records'
  PROVE  /\ \E a : Unseen' \subseteq Unseen \cup {a}
         /\ (code # 500 \/ \E e \in records' : e.by = Me(t) /\ e.kind = "error") =>
              Unseen' \subseteq Unseen
<1>1. \E a : a = [by |-> Me(t), request |-> request[t], status |-> code]
  BY Zenon
<1>2. PICK a : a = [by |-> Me(t), request |-> request[t], status |-> code]
  BY <1>1
<1>3. a.by = Me(t) /\ a.status = code
  BY <1>2
<1>4. replies' = replies \cup {a}
  BY <1>2 DEF Answer
<1>5. Unseen' \subseteq Unseen \cup {a}
  BY <1>4 DEF Unseen, RecordsOf
<1>6. code # 500 => a \notin Unseen'
  BY <1>3 DEF Unseen
<1>7. (\E e \in records' : e.by = Me(t) /\ e.kind = "error") => a \notin Unseen'
  BY <1>3 DEF Unseen, RecordsOf
<1> QED BY <1>5, <1>6, <1>7

LEMMA UnseenKeeps ==
  ASSUME UnseenInv,
         \/ UNCHANGED failures /\ Unseen' \subseteq Unseen
         \/ /\ failures' = failures + 1
            /\ \E a : Unseen' \subseteq Unseen \cup {a}
  PROVE  UnseenInv'
<1>1. /\ IsFiniteSet(Unseen) /\ Cardinality(Unseen) \in Nat
      /\ failures \in Nat /\ Cardinality(Unseen) <= failures
  BY FS_CardinalityType DEF UnseenInv
<1>2. CASE UNCHANGED failures /\ Unseen' \subseteq Unseen
  <2>1. IsFiniteSet(Unseen') /\ Cardinality(Unseen') <= Cardinality(Unseen)
    BY <1>1, <1>2, FS_Subset
  <2>2. Cardinality(Unseen') \in Nat
    BY <2>1, FS_CardinalityType
  <2> QED BY <1>1, <1>2, <2>1, <2>2 DEF UnseenInv
<1>3. CASE failures' = failures + 1 /\ \E a : Unseen' \subseteq Unseen \cup {a}
  <2>1. PICK a : Unseen' \subseteq Unseen \cup {a}
    BY <1>3
  <2>2. /\ IsFiniteSet(Unseen \cup {a})
        /\ \/ Cardinality(Unseen \cup {a}) = Cardinality(Unseen)
           \/ Cardinality(Unseen \cup {a}) = Cardinality(Unseen) + 1
    BY <1>1, FS_AddElement
  <2>3. /\ IsFiniteSet(Unseen')
        /\ Cardinality(Unseen') <= Cardinality(Unseen \cup {a})
    BY <2>1, <2>2, FS_Subset
  <2>4. Cardinality(Unseen') \in Nat
    BY <2>3, FS_CardinalityType
  <2> QED BY <1>1, <1>3, <2>2, <2>3, <2>4 DEF UnseenInv
<1> QED BY <1>2, <1>3

LEMMA InitUnseen == Init => UnseenInv
<1> SUFFICES ASSUME Init PROVE UnseenInv
  OBVIOUS
<1>1. failures = 0 /\ Unseen = {}
  BY DEF Init, Unseen
<1> QED BY <1>1, FS_EmptySet DEF UnseenInv

LEMMA StepUnseen == DoneInv /\ UnseenInv /\ [Next]_vars => UnseenInv'
<1> SUFFICES ASSUME DoneInv, UnseenInv, [Next]_vars PROVE UnseenInv'
  OBVIOUS
<1> USE UnseenKeeps
<1>0. failures \in Nat
  BY DEF UnseenInv
<1>1. ASSUME NEW t \in Threads, HookFails(t) PROVE UnseenInv'
  <2>1. Answer(t, 500) /\ failures' = failures + 1 /\ records \subseteq records'
    BY <1>1 DEF HookFails, CanFail
  <2> QED BY <2>1, UnseenAnswer
<1>2. ASSUME NEW t \in Threads, AddMissingRoute(t) PROVE UnseenInv'
  <2>1. UNCHANGED failures /\ records \subseteq records'
        /\ \/ \E code \in {404, 405} : Answer(t, code)
           \/ replies' = replies
    <3>1. CASE request[t].what \in Unmatched
      BY <1>2, <3>1, LogAllFrame DEF AddMissingRoute, MatchStatus
    <3>2. CASE request[t].what \notin Unmatched
      BY <1>2, <3>2 DEF AddMissingRoute
    <3> QED BY <3>1, <3>2
  <2> QED BY <2>1, UnseenAnswer, UnseenGrow
<1>3. ASSUME NEW t \in Threads, StartContext(t) \/ Arrive(t) PROVE UnseenInv'
  <2>1. UNCHANGED <<failures, records, replies>>
    BY <1>3 DEF StartContext, Arrive, historyVars
  <2> QED BY <2>1, UnseenGrow
<1>4. ASSUME NEW t \in Threads, \/ LogRequest(t) \/ CheckAuth(t)
                                \/ BasicValidation(t) \/ HandlerRefuses(t)
                                \/ Handle(t) \/ Notify(t) \/ LogAccess(t)
                                \/ Fails(t, InsidePlugins)
      PROVE  UnseenInv'
  <2>1. /\ UNCHANGED replies
        /\ UNCHANGED failures \/ failures' = failures + 1
    BY <1>4 DEF LogRequest, CheckAuth, BasicValidation, HandlerRefuses, Handle,
                Notify, LogAccess, Fails, CanFail, historyVars
  <2>2. records \subseteq records'
    BY <1>4, InsideLogs, Own DEF Logs
  <2> QED BY <2>1, <2>2, UnseenGrow
<1>5. ASSUME NEW t \in Threads, LogResponse(t) PROVE UnseenInv'
  <2>1. /\ UNCHANGED failures /\ records \subseteq records'
        /\ Answer(t, status[t]) /\ pc[t] = "respond"
    BY <1>5, LogAllFrame DEF LogResponse
  <2>2. status[t] # 500
    <3>1. ThreadOK(t)
      BY Own
    <3>2. status[t] \in {200, 201} \/ status[t] \in 400..499
      BY <2>1, <3>1 DEF ThreadOK
    <3> QED BY <3>2
  <2>3. PICK code : code = status[t]
    OBVIOUS
  <2> QED BY <2>1, <2>2, <2>3, UnseenAnswer
<1>6. ASSUME NEW t \in Threads, LogError(t) PROVE UnseenInv'
  <2>1. /\ UNCHANGED failures /\ Answer(t, 500) /\ records \subseteq records'
        /\ \E e \in records' : e.by = Me(t) /\ e.kind = "error"
    BY <1>6, LogAllFrame DEF LogError
  <2> QED BY <2>1, UnseenAnswer
<1>7. ASSUME NEW t \in Threads, ErrorLogFails(t) PROVE UnseenInv'
  <2>1. Answer(t, 500) /\ failures' = failures + 1 /\ records \subseteq records'
    BY <1>7 DEF ErrorLogFails, CanFail
  <2> QED BY <2>1, UnseenAnswer
<1>8. CASE UNCHANGED vars
  BY <1>8, UnseenGrow DEF vars, historyVars
<1> QED BY <1>1, <1>2, <1>3, <1>4, <1>5, <1>6, <1>7, <1>8 DEF Next, Step

(***************************************************************************)
(* No error goes unseen: a refusal is in the log, and so is a 500, but for *)
(* those that a failure explains (ErrorTransformPlugin and LoggingPlugin)  *)
(* and the refusals that bottle makes after the hook: a 404 or 405 for a   *)
(* request that has a specification and matches none of its routes.        *)
(***************************************************************************)
THEOREM ErrorsAreSeen == Spec => []ErrorsAreLogged
<1>1. DoneInv /\ UnseenInv => ErrorsAreLogged
  <2> SUFFICES ASSUME DoneInv, UnseenInv PROVE ErrorsAreLogged
    OBVIOUS
  <2>1. Cardinality({reply \in replies :
                       reply.status = 500 /\ RecordsOf(reply, "error") = {}})
          <= failures
    BY DEF UnseenInv, Unseen
  <2>2. ASSUME NEW reply \in replies, Refused(reply), ~BottleAnswers(reply.request)
        PROVE  RecordsOf(reply, "exception") \cup RecordsOf(reply, "error") # {}
    <3>1. ReplyOK(reply)
      BY DEF DoneInv
    <3> QED BY <2>2, <3>1 DEF ReplyOK, Reported, RecordsOf
  <2> QED BY <2>1, <2>2 DEF ErrorsAreLogged
<1> QED BY <1>1, InitUnseen, StepUnseen, DoneInvariance, PTL DEF Spec

-----------------------------------------------------------------------------
(***************************************************************************)
(* The trail of a request b in the access log: the first k of its ids s    *)
(* are in one entry each, the others in none.                              *)
(***************************************************************************)
Logged(b) == {e \in records : e.by = b /\ e.kind = "access_log"}

Trail(b, s, k) ==
  /\ \A i \in 1..k : \E e \in Logged(b) :
       /\ s[i] \in Range(e.ids)
       /\ \A f \in Logged(b) : s[i] \in Range(f.ids) => f = e
  /\ \A i \in (k + 1)..Len(s) : \A e \in Logged(b) : s[i] \notin Range(e.ids)
  /\ \A e \in Logged(b) : e.ids # <<>> /\ Len(e.ids) <= ChunkSize

TrailOK(t) ==
  LET s == request[t].ids
  IN HasTrail(request[t]) =>
       /\ pc[t] = "notify" => Accessless(Me(t))
       /\ pc[t] = "access" =>
            \E k \in 0..(Len(s) - 1) :
              ids[t] = SubSeq(s, k + 1, Len(s)) /\ Trail(Me(t), s, k)
       /\ pc[t] = "respond" /\ status[t] \in {200, 201} /\ accessLogging =>
            Trail(Me(t), s, Len(s))

TrailInv ==
  /\ DOMAIN ids = Threads
  /\ \A t \in Threads : TrailOK(t)
  /\ \A reply \in replies :
       Succeeded(reply) /\ accessLogging /\ HasTrail(reply.request) =>
         Trail(reply.by, reply.request.ids, Len(reply.request.ids))

\* A trail changes with its own request's entries only.
LEMMA TrailKept ==
  ASSUME NEW b, NEW s, NEW k, Trail(b, s, k), records \subseteq records',
         \A e \in records' \ records : e.by # b \/ e.kind # "access_log"
  PROVE  Trail(b, s, k)'
<1>1. Logged(b)' = Logged(b)
  BY DEF Logged
<1> QED BY <1>1 DEF Trail

Quiet(t) ==
  /\ UNCHANGED <<request, served, accessLogging>>
  /\ DOMAIN ids' = Threads
  /\ \A u \in Threads \ {t} :
       pc'[u] = pc[u] /\ status'[u] = status[u] /\ ids'[u] = ids[u]
  /\ records \subseteq records' /\ \A e \in records' \ records : e.by = Me(t)

LEMMA TrailKeeps ==
  ASSUME DoneInv, TrailInv, NEW t \in Threads, pc[t] # "idle", Quiet(t), TrailOK(t)',
         \A a \in replies' \ replies :
           Succeeded(a) /\ accessLogging /\ HasTrail(a.request) =>
             Trail(a.by, a.request.ids, Len(a.request.ids))'
  PROVE  TrailInv'
<1>1. ASSUME NEW u \in Threads \ {t} PROVE TrailOK(u)'
  <2>1. /\ Me(u)' = Me(u) /\ Me(u) # Me(t)
        /\ pc'[u] = pc[u] /\ status'[u] = status[u] /\ ids'[u] = ids[u]
        /\ request'[u] = request[u] /\ accessLogging' = accessLogging
    BY OwnName DEF Quiet, Me
  <2>2. TrailOK(u)
    BY DEF TrailInv
  <2>3. \A k : Trail(Me(u), request[u].ids, k) => Trail(Me(u), request[u].ids, k)'
    <3> SUFFICES ASSUME NEW k, NEW b, b = Me(u), NEW s, s = request[u].ids, Trail(b, s, k)
                 PROVE  Trail(b, s, k)'
      BY <2>1
    <3> QED BY <2>1, TrailKept DEF Quiet
  <2>4. Accessless(Me(u)) => Accessless(Me(u))'
    BY <2>1 DEF Accessless, Quiet
  <2> QED BY <2>1, <2>2, <2>3, <2>4 DEF TrailOK
<1>2. ASSUME NEW a \in replies, Succeeded(a), accessLogging, HasTrail(a.request)
      PROVE  Trail(a.by, a.request.ids, Len(a.request.ids))'
  <2>1. ThreadOK(t)
    BY Own
  <2>2. a.by # Me(t)
    BY <2>1 DEF ThreadOK
  <2> QED BY <1>2, <2>2, TrailKept DEF TrailInv, Quiet
<1> QED BY <1>1, <1>2 DEF TrailInv, Quiet, Succeeded

\* Most steps make no trail, and end none.
LEMMA NoTrail ==
  ASSUME DoneInv, TrailInv, NEW t \in Threads, pc[t] # "idle", Quiet(t),
         pc'[t] \notin {"notify", "access"},
         pc'[t] = "respond" => status'[t] \notin {200, 201},
         \A a \in replies' \ replies : ~Succeeded(a)
  PROVE  TrailInv'
BY TrailKeeps DEF TrailOK

LEMMA RefuseTrail ==
  ASSUME DoneInv, TrailInv, NEW t \in Threads, NEW code, NEW kinds,
         Refuse(t, code, kinds), UNCHANGED <<accessLogging, request, served, ids, replies>>,
         pc[t] # "idle", code \in 400..499 \cup {500}
  PROVE  TrailInv'
<1>1. \/ UNCHANGED <<records, status>> /\ pc' = [pc EXCEPT ![t] = "error"]
      \/ /\ LogAll(t, kinds \cup {"exception"})
         /\ status' = [status EXCEPT ![t] = code] /\ code \in 400..499
         /\ pc' = [pc EXCEPT ![t] = "respond"]
  BY DEF Refuse, Transform, Goto
<1>2. Quiet(t)
  BY <1>1, LogAllFrame DEF Quiet, DoneInv, Types, TrailInv
<1>3. pc'[t] = "error" \/ (pc'[t] = "respond" /\ status'[t] \in 400..499)
  BY <1>1 DEF DoneInv, Types
<1> QED BY <1>2, <1>3, NoTrail

LEMMA InitTrail == Init => TrailInv
BY DEF Init, TrailInv, TrailOK

LEMMA ArriveTrail ==
  ASSUME DoneInv, TrailInv, NEW t \in Threads, Arrive(t)
  PROVE  TrailInv'
<1>1. /\ UNCHANGED <<accessLogging, ids, records, replies>>
      /\ pc' = [pc EXCEPT ![t] = "route"]
      /\ served' = [served EXCEPT ![t] = @ + 1]
      /\ status' = [status EXCEPT ![t] = 200]
      /\ \E r \in Asked : request' = [request EXCEPT ![t] = r]
  BY DEF Arrive, Goto, historyVars
<1>2. pc'[t] = "route"
  BY <1>1 DEF DoneInv, Types
<1>3. \A b, s, k : Trail(b, s, k) => Trail(b, s, k)'
  BY <1>1, TrailKept
<1>4. ASSUME NEW u \in Threads \ {t} PROVE TrailOK(u)'
  <2>1. /\ pc'[u] = pc[u] /\ status'[u] = status[u] /\ request'[u] = request[u]
        /\ Me(u)' = Me(u)
    BY <1>1 DEF DoneInv, Types, Me
  <2>2. TrailOK(u)
    BY DEF TrailInv
  <2>3. \A k : Trail(Me(u), request[u].ids, k) => Trail(Me(u), request[u].ids, k)'
    BY <1>1, <2>1 DEF Trail, Logged
  <2> QED BY <1>1, <2>1, <2>2, <2>3 DEF TrailOK, Accessless
<1>5. TrailOK(t)'
  BY <1>2 DEF TrailOK
<1>6. \A a \in replies : Succeeded(a) /\ accessLogging /\ HasTrail(a.request) =>
                           Trail(a.by, a.request.ids, Len(a.request.ids))'
  BY <1>3 DEF TrailInv
<1> QED BY <1>1, <1>4, <1>5, <1>6 DEF TrailInv, Succeeded

LEMMA BeforeTrail ==
  ASSUME DoneInv, TrailInv, NEW t \in Threads,
         \/ HookFails(t) \/ AddMissingRoute(t) \/ StartContext(t)
         \/ LogRequest(t) \/ Fails(t, InsidePlugins)
         \/ LogError(t) \/ ErrorLogFails(t)
  PROVE  TrailInv'
<1>1. CASE HookFails(t) \/ LogError(t) \/ ErrorLogFails(t)
  <2>1. /\ UNCHANGED <<accessLogging, request, served, status>> /\ pc[t] # "idle"
        /\ Answer(t, 500)
        /\ LogAll(t, {"error"}) \/ UNCHANGED records
        /\ UNCHANGED ids \/ ids' = [ids EXCEPT ![t] = <<>>]
    BY <1>1 DEF HookFails, LogError, ErrorLogFails, stepVars, sharedVars
  <2>2. Quiet(t) /\ pc'[t] = "idle"
    BY <2>1, LogAllFrame DEF Quiet, DoneInv, Types, TrailInv, Answer, Goto
  <2>3. \A a \in replies' \ replies : ~Succeeded(a)
    BY <2>1 DEF Answer, Succeeded
  <2> QED BY <2>1, <2>2, <2>3, NoTrail
<1>2. CASE AddMissingRoute(t)
  <2>1. /\ UNCHANGED <<accessLogging, request, served, status, ids>>
        /\ pc[t] = "route"
    BY <1>2 DEF AddMissingRoute
  <2>2. /\ \E p \in {"idle", "start"} : pc' = [pc EXCEPT ![t] = p]
        /\ LogAll(t, {"error"}) \/ UNCHANGED records
        /\ \A a \in replies' \ replies : ~Succeeded(a)
    <3>1. CASE request[t].what \in Unmatched
      <4>1. /\ LogAll(t, {"error"}) \/ UNCHANGED records
            /\ Answer(t, MatchStatus(request[t]))
        BY <1>2, <3>1 DEF AddMissingRoute
      <4>2. MatchStatus(request[t]) \in {404, 405}
        BY DEF MatchStatus
      <4> QED BY <4>1, <4>2 DEF Answer, Goto, Succeeded
    <3>2. CASE request[t].what \notin Unmatched
      BY <1>2, <3>2 DEF AddMissingRoute, Goto
    <3> QED BY <3>1, <3>2
  <2>3. Quiet(t) /\ pc'[t] \in {"idle", "start"}
    BY <2>1, <2>2, LogAllFrame DEF Quiet, DoneInv, Types, TrailInv
  <2> QED BY <2>1, <2>2, <2>3, NoTrail
<1>3. CASE StartContext(t) \/ LogRequest(t) \/ Fails(t, InsidePlugins)
  <2>1. /\ UNCHANGED <<accessLogging, request, served, status, ids, replies>>
        /\ pc[t] # "idle"
        /\ \E p \in {"request", "authorize", "handle", "error"} :
             pc' = [pc EXCEPT ![t] = p]
        /\ LogAll(t, {"http-request"}) \/ UNCHANGED records
    BY <1>3 DEF StartContext, LogRequest, Fails, Goto, stepVars, historyVars,
                InsidePlugins
  <2>2. Quiet(t) /\ pc'[t] \in {"request", "authorize", "handle", "error"}
    BY <2>1, LogAllFrame DEF Quiet, DoneInv, Types, TrailInv
  <2> QED BY <2>1, <2>2, NoTrail
<1> QED BY <1>1, <1>2, <1>3

LEMMA RefusalTrail ==
  ASSUME DoneInv, TrailInv, NEW t \in Threads,
         CheckAuth(t) \/ BasicValidation(t) \/ HandlerRefuses(t)
  PROVE  TrailInv'
<1>1. /\ UNCHANGED <<accessLogging, request, served, ids, replies>>
      /\ pc[t] # "idle" /\ request[t] \in Asked
  BY DEF CheckAuth, BasicValidation, HandlerRefuses, stepVars, DoneInv, Types
<1>2. \/ \E code \in 400..499 \cup {500} : \E kinds : Refuse(t, code, kinds)
      \/ /\ \E p \in {"validate", "handle"} : pc' = [pc EXCEPT ![t] = p]
         /\ UNCHANGED <<records, status>>
  <2>1. CASE CheckAuth(t)
    <3>1. CASE request[t].token = "good"
      BY <2>1, <3>1 DEF CheckAuth, Goto
    <3>2. CASE request[t].token # "good"
      <4>1. \E kinds : Refuse(t, TokenStatus(request[t].token), kinds)
        BY <2>1, <3>2 DEF CheckAuth
      <4>2. TokenStatus(request[t].token) \in 400..499 \cup {500}
        BY <1>1, <3>2, TokenRefused
      <4> QED BY <4>1, <4>2
    <3> QED BY <3>1, <3>2
  <2>2. CASE BasicValidation(t)
    <3>1. CASE BodyStatus(request[t]) = 200
      BY <2>2, <3>1 DEF BasicValidation, Goto
    <3>2. CASE BodyStatus(request[t]) # 200
      <4>1. Refuse(t, BodyStatus(request[t]), {})
        BY <2>2, <3>2 DEF BasicValidation
      <4>2. BodyStatus(request[t]) \in 400..499 \cup {500}
        BY <1>1, <3>2, BodyRefused
      <4> QED BY <4>1, <4>2
    <3> QED BY <3>1, <3>2
  <2>3. CASE HandlerRefuses(t)
    <3>1. PICK code \in Refusals : Transform(t, code, {})
      BY <2>3 DEF HandlerRefuses
    <3>2. code \in 400..499 /\ code # 500
      BY RefusalsAssumption
    <3> QED BY <3>1, <3>2 DEF Refuse
  <2> QED BY <2>1, <2>2, <2>3
<1>3. CASE \E code \in 400..499 \cup {500} : \E kinds : Refuse(t, code, kinds)
  BY <1>1, <1>3, RefuseTrail
<1>4. CASE /\ \E p \in {"validate", "handle"} : pc' = [pc EXCEPT ![t] = p]
           /\ UNCHANGED <<records, status>>
  <2>1. Quiet(t) /\ pc'[t] \in {"validate", "handle"}
    BY <1>1, <1>4 DEF Quiet, DoneInv, Types, TrailInv
  <2> QED BY <1>1, <2>1, NoTrail
<1> QED BY <1>2, <1>3, <1>4

LEMMA HandleTrail ==
  ASSUME DoneInv, TrailInv, NEW t \in Threads, Handle(t)
  PROVE  TrailInv'
<1>1. /\ UNCHANGED <<accessLogging, request, served, status, ids, records, replies>>
      /\ pc[t] = "handle" /\ pc' = [pc EXCEPT ![t] = "notify"]
  BY DEF Handle, Goto, stepVars
<1>2. Quiet(t) /\ pc'[t] = "notify"
  BY <1>1 DEF Quiet, DoneInv, Types, TrailInv
<1>3. Accessless(Me(t))
  <2>1. ThreadOK(t)
    BY Own
  <2> QED BY <1>1, <2>1 DEF ThreadOK, Clean
<1>4. Accessless(Me(t))'
  BY <1>1, <1>3 DEF Accessless, Me
<1> QED BY <1>1, <1>2, <1>4, TrailKeeps DEF TrailOK

\* The ids of an answer are those that are asked for.
LEMMA TrailIds ==
  ASSUME NEW r, HasTrail(r)
  PROVE  IdsOf(r) = r.ids
<1>1. ~(r.what = "subitem" \/ r.what = "simple")
  BY DEF HasTrail
<1>2. CASE r.method = "DELETE"
  BY <1>1, <1>2 DEF HasTrail, IdsOf
<1>3. CASE r.method # "DELETE"
  BY <1>1, <1>3 DEF IdsOf
<1> QED BY <1>2, <1>3

LEMMA EmptyTrail ==
  ASSUME NEW b, NEW s, Accessless(b)
  PROVE  Trail(b, s, 0)
<1>1. Logged(b) = {} /\ 1..0 = {}
  BY DEF Logged, Accessless
<1> QED BY <1>1 DEF Trail

LEMMA AskedIds ==
  ASSUME NEW r \in Asked
  PROVE  /\ r.ids \in Seq(Range(r.ids)) /\ Len(r.ids) \in Nat
         /\ DOMAIN r.ids = 1..Len(r.ids)
         /\ \A i, j \in 1..Len(r.ids) : r.ids[i] = r.ids[j] => i = j
<1>1. r.ids \in Seq(Range(r.ids)) /\ IsInjective(r.ids)
  BY AskedAssumption
<1> QED BY <1>1 DEF IsInjective

LEMMA NotifyTrail ==
  ASSUME DoneInv, TrailInv, NEW t \in Threads, Notify(t)
  PROVE  TrailInv'
<1>1. /\ UNCHANGED <<accessLogging, request, served, records, replies>>
      /\ pc[t] = "notify"
      /\ pc' = [pc EXCEPT ![t] = IF ids'[t] = <<>> THEN "respond" ELSE "access"]
      /\ ids' = [ids EXCEPT ![t] = IF accessLogging THEN IdsOf(request[t]) ELSE <<>>]
      /\ \E code \in {200, 201} : status' = [status EXCEPT ![t] = code]
  BY DEF Notify, Goto, stepVars
<1>2. Quiet(t)
  BY <1>1 DEF Quiet, DoneInv, Types, TrailInv
<1>3. /\ ids'[t] = IF accessLogging THEN IdsOf(request[t]) ELSE <<>>
      /\ pc'[t] = IF ids'[t] = <<>> THEN "respond" ELSE "access"
  BY <1>1 DEF DoneInv, Types, TrailInv
<1>4. ASSUME HasTrail(request[t]) PROVE Trail(Me(t), request[t].ids, 0)'
  <2>1. Accessless(Me(t))
    BY <1>1, <1>4 DEF TrailInv, TrailOK
  <2>2. Trail(Me(t), request[t].ids, 0)
    BY <2>1, EmptyTrail
  <2> QED BY <1>1, <2>2 DEF Trail, Logged, Me
<1>5. TrailOK(t)'
  <2> SUFFICES ASSUME HasTrail(request[t]), NEW s, s = request[t].ids
               PROVE  /\ pc'[t] = "access" =>
                           \E k \in 0..(Len(s) - 1) :
                             ids'[t] = SubSeq(s, k + 1, Len(s)) /\ Trail(Me(t), s, k)'
                      /\ pc'[t] = "respond" /\ accessLogging =>
                           Trail(Me(t), s, Len(s))'
    BY <1>1, <1>3 DEF TrailOK
  <2>1. /\ s \in Seq(Range(s)) /\ Len(s) \in Nat
    BY AskedIds DEF DoneInv, Types
  <2>2. IdsOf(request[t]) = s
    BY TrailIds
  <2>3. Trail(Me(t), s, 0)'
    BY <1>1, <1>4
  <2>4. CASE pc'[t] = "access"
    <3>1. ids'[t] = s /\ s # <<>>
      BY <1>3, <2>2, <2>4
    <3>2. Len(s) >= 1 /\ s = SubSeq(s, 0 + 1, Len(s))
      BY <2>1, <3>1
    <3> QED BY <2>1, <2>3, <2>4, <3>1, <3>2
  <2>5. CASE pc'[t] = "respond" /\ accessLogging
    <3>1. s = <<>>
      BY <1>3, <2>2, <2>5
    <3> QED BY <2>3, <2>5, <3>1
  <2> QED BY <2>4, <2>5
<1> QED BY <1>1, <1>2, <1>5, TrailKeeps

\* The next entry has the next ids, and leaves the others for those after it.
LEMMA ChunkOf ==
  ASSUME NEW S, NEW s \in Seq(S), NEW k \in 0..(Len(s) - 1), NEW x,
         x = SubSeq(s, k + 1, Len(s))
  PROVE  \E c \in 1..(Len(s) - k) :
           /\ c <= ChunkSize
           /\ Chunk(x) = SubSeq(s, k + 1, k + c)
           /\ RestOf(x) = SubSeq(s, k + c + 1, Len(s))
           /\ k + c < Len(s) <=> Len(x) > ChunkSize
<1> DEFINE c == IF Len(x) > ChunkSize THEN ChunkSize ELSE Len(x)
<1>1. x \in Seq(S) /\ Len(x) = Len(s) - k /\ Len(s) \in Nat
  OBVIOUS
<1>2. c \in 1..(Len(s) - k) /\ c <= ChunkSize /\ (k + c < Len(s) <=> Len(x) > ChunkSize)
  BY <1>1, ChunkAssumption
<1>3. Chunk(x) = SubSeq(x, 1, c)
  BY DEF Chunk
<1> HIDE DEF c
<1>4. /\ SubSeq(x, 1, c) = SubSeq(s, k + 1, k + c)
      /\ Len(SubSeq(x, 1, c)) = c
  BY <1>1, <1>2
<1>5. RestOf(x) = SubSeq(x, c + 1, Len(x))
  BY <1>3, <1>4 DEF RestOf
<1>6. SubSeq(x, c + 1, Len(x)) = SubSeq(s, k + c + 1, Len(s))
  BY <1>1, <1>2
<1> QED BY <1>2, <1>3, <1>4, <1>5, <1>6

LEMMA TrailGrows ==
  ASSUME NEW b, NEW s, s \in Seq(Range(s)),
         \A i, j \in 1..Len(s) : s[i] = s[j] => i = j,
         NEW k \in 0..(Len(s) - 1), NEW c \in 1..(Len(s) - k), c <= ChunkSize,
         Trail(b, s, k), NEW e, e.by = b, e.kind = "access_log",
         e.ids = SubSeq(s, k + 1, k + c), records' = records \cup {e}
  PROVE  Trail(b, s, k + c)'
<1>1. Logged(b)' = Logged(b) \cup {e}
  BY DEF Logged
<1>2. Len(s) \in Nat
  OBVIOUS
<1>3. /\ Len(e.ids) = c /\ DOMAIN e.ids = 1..c
      /\ \A j \in 1..c : e.ids[j] = s[k + j]
  BY <1>2
<1>4. \A i \in 1..Len(s) : s[i] \in Range(e.ids) <=> i \in (k + 1)..(k + c)
  <2> SUFFICES ASSUME NEW i \in 1..Len(s)
               PROVE  s[i] \in Range(e.ids) <=> i \in (k + 1)..(k + c)
    OBVIOUS
  <2>1. s[i] \in Range(e.ids) <=> \E j \in 1..c : s[i] = s[k + j]
    BY <1>3 DEF Range
  <2>2. \A j \in 1..c : k + j \in 1..Len(s)
    BY <1>2
  <2>3. (\E j \in 1..c : s[i] = s[k + j]) <=> \E j \in 1..c : i = k + j
    BY <2>2
  <2>4. (\E j \in 1..c : i = k + j) <=> i \in (k + 1)..(k + c)
    <3>1. i \in (k + 1)..(k + c) => i - k \in 1..c /\ i = k + (i - k)
      BY <1>2
    <3> QED BY <1>2, <3>1
  <2> QED BY <2>1, <2>3, <2>4
<1>5. ASSUME NEW i \in 1..(k + c)
      PROVE  \E g \in Logged(b) \cup {e} :
               /\ s[i] \in Range(g.ids)
               /\ \A f \in Logged(b) \cup {e} : s[i] \in Range(f.ids) => f = g
  <2>1. CASE i <= k
    <3>1. i \in 1..k /\ s[i] \notin Range(e.ids)
      BY <1>2, <1>4, <2>1
    <3>2. PICK g \in Logged(b) :
            /\ s[i] \in Range(g.ids)
            /\ \A f \in Logged(b) : s[i] \in Range(f.ids) => f = g
      BY <3>1 DEF Trail
    <3> QED BY <3>1, <3>2
  <2>2. CASE ~(i <= k)
    <3>1. i \in (k + 1)..Len(s) /\ s[i] \in Range(e.ids)
      BY <1>2, <1>4, <2>2
    <3>2. \A f \in Logged(b) : s[i] \notin Range(f.ids)
      BY <3>1 DEF Trail
    <3> QED BY <3>1, <3>2
  <2> QED BY <2>1, <2>2
<1>6. ASSUME NEW i \in (k + c + 1)..Len(s), NEW f \in Logged(b) \cup {e}
      PROVE  s[i] \notin Range(f.ids)
  <2>1. i \in (k + 1)..Len(s) /\ s[i] \notin Range(e.ids)
    BY <1>2, <1>4
  <2> QED BY <2>1 DEF Trail
<1>7. \A f \in Logged(b) \cup {e} : f.ids # <<>> /\ Len(f.ids) <= ChunkSize
  <2>1. c # 0 /\ Len(<<>>) = 0
    BY <1>2
  <2>2. e.ids # <<>> /\ Len(e.ids) <= ChunkSize
    BY <1>3, <2>1
  <2> QED BY <2>2 DEF Trail
<1> QED BY <1>1, <1>5, <1>6, <1>7 DEF Trail

LEMMA LogAccessTrail ==
  ASSUME DoneInv, TrailInv, NEW t \in Threads, LogAccess(t)
  PROVE  TrailInv'
<1>1. /\ UNCHANGED <<accessLogging, request, served, status, replies>>
      /\ pc[t] = "access"
  BY DEF LogAccess, stepVars
<1>2. CASE request[t].qvarnToken = "bad"
  <2>1. UNCHANGED <<ids, records>> /\ pc' = [pc EXCEPT ![t] = "error"]
    BY <1>2 DEF LogAccess, Goto
  <2>2. Quiet(t) /\ pc'[t] = "error"
    BY <1>1, <2>1 DEF Quiet, DoneInv, Types, TrailInv
  <2> QED BY <1>1, <2>2, NoTrail
<1>3. CASE request[t].qvarnToken # "bad"
  <2>1. PICK x : x = ids[t]
    OBVIOUS
  <2>2. PICK e : e = Record(t, "access_log", Chunk(x))
    OBVIOUS
  <2>3. e.by = Me(t) /\ e.kind = "access_log" /\ e.ids = Chunk(x)
    BY <2>2 DEF Record
  <2>4. /\ records' = records \cup {e}
        /\ ids' = [ids EXCEPT ![t] = RestOf(x)]
        /\ pc' = [pc EXCEPT ![t] = IF Len(x) > ChunkSize THEN "access" ELSE "respond"]
    BY <1>3, <2>1, <2>2 DEF LogAccess, Goto
  <2>5. /\ pc'[t] = IF Len(x) > ChunkSize THEN "access" ELSE "respond"
        /\ ids'[t] = RestOf(x)
    BY <2>4 DEF DoneInv, Types, TrailInv
  <2>6. Quiet(t)
    BY <1>1, <2>3, <2>4 DEF Quiet, DoneInv, Types, TrailInv
  <2>7. TrailOK(t)'
    <3> SUFFICES ASSUME HasTrail(request[t]), NEW s, s = request[t].ids
                 PROVE  /\ pc'[t] = "access" =>
                             \E k \in 0..(Len(s) - 1) :
                               ids'[t] = SubSeq(s, k + 1, Len(s)) /\ Trail(Me(t), s, k)'
                        /\ pc'[t] = "respond" => Trail(Me(t), s, Len(s))'
      BY <1>1, <2>5 DEF TrailOK
    <3>1. /\ s \in Seq(Range(s)) /\ Len(s) \in Nat
          /\ \A i, j \in 1..Len(s) : s[i] = s[j] => i = j
      BY AskedIds DEF DoneInv, Types
    <3>2. PICK k \in 0..(Len(s) - 1) :
            x = SubSeq(s, k + 1, Len(s)) /\ Trail(Me(t), s, k)
      BY <1>1, <2>1 DEF TrailInv, TrailOK
    <3>3. PICK c \in 1..(Len(s) - k) :
            /\ c <= ChunkSize
            /\ Chunk(x) = SubSeq(s, k + 1, k + c)
            /\ RestOf(x) = SubSeq(s, k + c + 1, Len(s))
            /\ k + c < Len(s) <=> Len(x) > ChunkSize
      BY <3>1, <3>2, ChunkOf
    <3>4. PICK b : b = Me(t)
      OBVIOUS
    <3>5. Trail(b, s, k + c)'
      BY <2>3, <2>4, <3>1, <3>2, <3>3, <3>4, TrailGrows
    <3>6. Trail(Me(t), s, k + c)'
      BY <1>1, <3>4, <3>5 DEF Me
    <3>7. CASE Len(x) > ChunkSize
      <4>1. k + c \in 0..(Len(s) - 1) /\ pc'[t] = "access"
        BY <2>5, <3>1, <3>3, <3>7
      <4> QED BY <2>5, <3>3, <3>6, <4>1
    <3>8. CASE ~(Len(x) > ChunkSize)
      <4>1. PICK n : n = k + c
        OBVIOUS
      <4>2. Len(s) \in Nat /\ ~(k + c < Len(s))
        BY <3>1, <3>3, <3>8
      <4>3. n = Len(s)
        BY <4>1, <4>2
      <4>4. pc'[t] = "respond"
        BY <2>5, <3>8
      <4>5. Trail(Me(t), s, n)'
        BY <3>6, <4>1
      <4> QED BY <4>3, <4>4, <4>5
    <3> QED BY <3>7, <3>8
  <2> QED BY <1>1, <2>6, <2>7, TrailKeeps
<1> QED BY <1>2, <1>3

LEMMA LogResponseTrail ==
  ASSUME DoneInv, TrailInv, NEW t \in Threads, LogResponse(t)
  PROVE  TrailInv'
<1>1. /\ UNCHANGED <<accessLogging, request, served, status, ids>>
      /\ pc[t] = "respond" /\ LogAll(t, {"http-response"})
      /\ Answer(t, status[t])
  BY DEF LogResponse, stepVars
<1>2. Quiet(t) /\ pc'[t] = "idle"
  BY <1>1, LogAllFrame DEF Quiet, DoneInv, Types, TrailInv, Answer, Goto
<1>3. TrailOK(t)'
  BY <1>2 DEF TrailOK
<1>4. ASSUME NEW a \in replies' \ replies, Succeeded(a), accessLogging,
             HasTrail(a.request)
      PROVE  Trail(a.by, a.request.ids, Len(a.request.ids))'
  <2>1. a.by = Me(t) /\ a.request = request[t] /\ a.status = status[t]
    BY <1>1 DEF Answer
  <2>2. Trail(a.by, a.request.ids, Len(a.request.ids))
    BY <1>1, <1>4, <2>1 DEF TrailInv, TrailOK, Succeeded
  <2>3. \A e \in records' \ records : e.kind # "access_log"
    BY <1>1, LogAllFrame
  <2> QED BY <1>2, <2>2, <2>3, TrailKept DEF Quiet
<1> QED BY <1>1, <1>2, <1>3, <1>4, TrailKeeps

LEMMA StepTrail == DoneInv /\ TrailInv /\ [Next]_vars => TrailInv'
<1> SUFFICES ASSUME DoneInv, TrailInv, [Next]_vars PROVE TrailInv'
  OBVIOUS
<1>1. CASE Next
  <2>1. PICK t \in Threads : Arrive(t) \/ Step(t)
    BY <1>1 DEF Next
  <2> QED BY <2>1, ArriveTrail, BeforeTrail, RefusalTrail, HandleTrail,
             NotifyTrail, LogAccessTrail, LogResponseTrail DEF Step
<1>2. CASE UNCHANGED vars
  <2>1. UNCHANGED <<accessLogging, pc, request, served, status, ids, records, replies>>
    BY <1>2 DEF vars, sharedVars, threadVars, historyVars
  <2>2. ASSUME NEW t \in Threads PROVE TrailOK(t)'
    <3>1. TrailOK(t)
      BY DEF TrailInv
    <3>2. Me(t)' = Me(t) /\ Logged(Me(t))' = Logged(Me(t))
      BY <2>1 DEF Me, Logged
    <3>3. \A k : Trail(Me(t), request[t].ids, k) => Trail(Me(t), request[t].ids, k)'
      BY <2>1, <3>2 DEF Trail
    <3>4. Accessless(Me(t)) => Accessless(Me(t))'
      BY <2>1 DEF Accessless, Me
    <3> QED BY <2>1, <3>1, <3>2, <3>3, <3>4 DEF TrailOK
  <2>3. \A b, s, k : Trail(b, s, k) => Trail(b, s, k)'
    BY <2>1, TrailKept
  <2> QED BY <2>1, <2>2, <2>3 DEF TrailInv, Succeeded
<1> QED BY <1>1, <1>2

\* An answer is to what has been asked.
Answered == \A reply \in replies : reply.request \in Asked

LEMMA StepAnswered == DoneInv /\ Answered /\ [Next]_vars => Answered'
<1> SUFFICES ASSUME DoneInv, Answered, [Next]_vars PROVE Answered'
  OBVIOUS
<1>1. ASSUME NEW t \in Threads, NEW code, Answer(t, code) PROVE Answered'
  <2>1. request[t] \in Asked
    BY Own DEF Types
  <2> QED BY <1>1, <2>1 DEF Answer, Answered
<1>2. ASSUME replies' = replies PROVE Answered'
  BY <1>2 DEF Answered
<1>3. ASSUME NEW t \in Threads, AddMissingRoute(t) PROVE Answered'
  <2>1. CASE request[t].what \in Unmatched
    BY <1>1, <1>3, <2>1 DEF AddMissingRoute
  <2>2. CASE request[t].what \notin Unmatched
    BY <1>2, <1>3, <2>2 DEF AddMissingRoute
  <2> QED BY <2>1, <2>2
<1>4. ASSUME NEW t \in Threads,
             HookFails(t) \/ LogResponse(t) \/ LogError(t) \/ ErrorLogFails(t)
      PROVE  Answered'
  <2>1. \E code \in {500, status[t]} : Answer(t, code)
    BY <1>4 DEF HookFails, LogResponse, LogError, ErrorLogFails
  <2> QED BY <1>1, <2>1
<1>5. ASSUME NEW t \in Threads,
             \/ Arrive(t) \/ StartContext(t) \/ LogRequest(t) \/ CheckAuth(t)
             \/ BasicValidation(t) \/ HandlerRefuses(t) \/ Handle(t)
             \/ Notify(t) \/ LogAccess(t) \/ Fails(t, InsidePlugins)
      PROVE  Answered'
  BY <1>2, <1>5 DEF Arrive, StartContext, LogRequest, CheckAuth, BasicValidation,
     HandlerRefuses, Handle, Notify, LogAccess, Fails, historyVars
<1>6. CASE UNCHANGED vars
  BY <1>2, <1>6 DEF vars, historyVars
<1> QED BY <1>3, <1>4, <1>5, <1>6 DEF Next, Step

(***************************************************************************)
(* The access log misses nothing: after a success each id of the answer is *)
(* in exactly one entry, none of them empty or too long, for every chunk   *)
(* size and every number of ids (the chunks of log_access).                *)
(***************************************************************************)
THEOREM AccessIsTrailed == Spec => []AccessIsLogged
<1>1. DoneInv /\ TrailInv /\ Answered => AccessIsLogged
  <2> SUFFICES ASSUME DoneInv, TrailInv, Answered,
                      NEW reply \in replies, Succeeded(reply), accessLogging,
                      HasTrail(reply.request),
                      NEW entries, entries = RecordsOf(reply, "access_log"),
                      NEW s, s = reply.request.ids
               PROVE  /\ \A i \in DOMAIN s :
                           Cardinality({e \in entries : s[i] \in Range(e.ids)}) = 1
                      /\ \A e \in entries : e.ids # <<>> /\ Len(e.ids) <= ChunkSize
    BY DEF AccessIsLogged
  <2>1. Trail(reply.by, s, Len(s)) /\ entries = Logged(reply.by)
    BY DEF TrailInv, RecordsOf, Logged
  <2>2. ASSUME NEW i \in 1..Len(s)
        PROVE  Cardinality({e \in entries : s[i] \in Range(e.ids)}) = 1
    <3>1. PICK e \in entries :
            /\ s[i] \in Range(e.ids)
            /\ \A f \in entries : s[i] \in Range(f.ids) => f = e
      BY <2>1 DEF Trail
    <3>2. {f \in entries : s[i] \in Range(f.ids)} = {e}
      BY <3>1
    <3> QED BY <3>2, FS_Singleton
  <2>3. DOMAIN s = 1..Len(s)
    BY AskedIds DEF Answered
  <2> QED BY <2>1, <2>2, <2>3 DEF Trail
<1>2. Init => Answered
  BY DEF Init, Answered
<1> QED BY <1>1, <1>2, InitTrail, StepTrail, StepAnswered, DoneInvariance, PTL
        DEF Spec
=============================================================================
