----------------------------- MODULE MCRequests -----------------------------
(* Requests for TLC: requests of every kind, tokens and bodies that end in   *)
(* each way, and answers with as many ids as make one entry, two, none.      *)
EXTENDS Requests, TLC

CONSTANTS a, b

Good(method, what, some) ==
  [method |-> method, what |-> what, path |-> "/foos", token |-> "good",
   qvarnToken |-> "none", body |-> "good", ids |-> some]
Reading(what, some) == Good("GET", what, some)
WithToken(token, r) == [r EXCEPT !.token = token]
WithBody(body, r)   == [r EXCEPT !.body = body]

MCAsked ==
  { Reading("items", <<1, 2, 3>>),
    Reading("search", <<>>),
    Reading("file", <<1>>),
    Reading("subitem", <<1>>),
    Reading("notifications", <<1, 2>>),
    Good("POST", "items", <<1>>),
    Good("PUT", "item", <<1>>),
    Good("DELETE", "item", <<1>>),
    Good("DELETE", "listener", <<1>>),
    [Good("PUT", "file", <<1>>) EXCEPT !.qvarnToken = "bad"],
    WithToken("none", Good("DELETE", "item", <<1>>)),
    WithToken("wrong scope", Reading("item", <<1>>)),
    WithBody("number", Good("PUT", "subitem", <<1>>)),
    WithBody("no revision", Good("PUT", "item", <<1>>)),
    WithToken("none", [Reading("simple", <<>>) EXCEPT !.path = "/version"]),
    [Good("PUT", "other method of simple", <<>>) EXCEPT !.path = "/version"],
    Good("PATCH", "other method", <<>>),
    Reading("no route", <<>>),
    [Reading("undefined", <<>>) EXCEPT !.path = "/nothing"] }

=============================================================================
