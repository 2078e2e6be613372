--------------------------- MODULE MCStructuredLog ---------------------------
(* StructuredLog for TLC: a file that rotates, filters of every kind, and   *)
(* configurations that fail.                                                *)
EXTENDS StructuredLog, TLC

CONSTANTS m, a, b

MCThreads == {m, a, b}
MCMain    == m

MCStartup  == [msg_type |-> "startup", argv |-> "qvarn-backend"]
MCMessages == {[msg_type |-> "debug"], [msg_type |-> "access_log", entry |-> "e"]}

File(log, size) == [log |-> log, to |-> "file", max |-> size]
Filtered(option, specs) == option @@ [filter |-> specs]

HasEntry    == [field |-> "entry"]
IsDebug     == [field |-> "msg_type", value |-> "debug"]
NotDebug    == IsDebug @@ [include |-> FALSE]
NoEntry     == HasEntry @@ [include |-> FALSE]
StartsWithS == [field |-> "msg_type", regexp |-> {"startup"}]
NoField     == [include |-> TRUE]

MCConfigurations ==
  { <<>>,
    <<File("log", 1)>>,
    <<File("log", 2), Filtered([log |-> "log2", to |-> "stream"], <<HasEntry>>)>>,
    <<Filtered(File("log", 1), <<NotDebug>>)>>,
    <<Filtered([log |-> "log", to |-> "stream"], <<IsDebug, NoEntry>>)>>,
    <<Filtered([log |-> "log", to |-> "stream"], <<StartsWithS, NoField>>)>>,
    <<Filtered([log |-> "log", to |-> "stream"], <<NoField>>)>>,
    <<File("log", 1), Filtered(File("log2", 1), <<>>)>>,
    <<File("log", 1), File("log2", 1) @@ [missing |-> "filter"]>>,
    <<[log |-> "log", to |-> "unknown"]>> }

=============================================================================
