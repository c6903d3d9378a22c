-------------------------- MODULE MCFunctionCalls --------------------------
(***************************************************************************)
(* Two sandboxes that share the writer registered as HostPrint.  The first *)
(* registers two functions beside it, and its guest passes arguments that  *)
(* are right and wrong to each of them; the buffer holds HostPrint and a   *)
(* function of two parameters, exactly.  The guest of the second, in       *)
(* Rust or in C, has functions that its host calls, and makes a few calls  *)
(* itself.                                                                 *)
(*                                                                         *)
(* The guests' logs share nothing with their calls: a behaviour is one of  *)
(* the calls or one of the logs, which go through all levels.              *)
(***************************************************************************)
EXTENDS FunctionCalls, GuestLogs

CONSTANTS s1, s2, writer, nullary, binary

VARIABLE part       \* what the behaviour is about

MCSignature ==
    [c \in {writer, nullary, binary} |->
        CASE c = writer  -> [params |-> <<"String">>, ret |-> "Int", content |-> Default]
          [] c = nullary -> [params |-> <<>>, ret |-> "Int", content |-> NotDefault]
          [] c = binary  -> [params |-> <<"Int", "VecBytes">>, ret |-> "VecBytes",
                             content |-> NotDefault]]
MCWriter == [s \in {s1, s2} |-> writer]

Calls(names, arguments, kind, types) ==
    {FunctionCall(n, args, kind, ret) : n \in names, args \in arguments, ret \in types}

int == Value("Int", Default)
bytes == Value("VecBytes", NotDefault)
string == Value("String", NotDefault)

MCHostCalls ==
    [s \in {s1, s2} |->
        IF s = s1
        THEN Calls({HostPrint}, {Some(<<string>>), Some(<<string, bytes>>)}, "Host", {"Int"})
             \cup Calls({1}, {None, Some(<<>>)}, "Host", {"Int"})
             \cup Calls(Names \ {HostPrint}, {Some(<<int, bytes>>)}, "Host", {"VecBytes"})
        ELSE Calls({HostPrint}, {Some(<<Value("String", WithNul)>>)}, "Host", {"ULong"})
             \cup Calls({HostPrint}, {Some(<<Value("String", Default)>>)}, "Host", {"Int"})]

MCLanguages == [s \in {s1, s2} |-> IF s = s1 THEN {"Rust"} ELSE {"Rust", "C"}]

MCGuestCalls ==
    [s \in {s1, s2} |->
        IF s = s1 THEN {}
        ELSE Calls({"Echo"}, {None, Some(<<string>>), Some(<<Value("String", WithNul)>>)},
                   "Guest", {"Void"})]

MCGuestSignatures ==
    [s \in {s1, s2} |->
        IF s = s1 THEN {}
        ELSE {[params |-> <<"String">>, ret |-> "VecBytes", content |-> Default],
              [params |-> <<>>, ret |-> "Bool", content |-> NotDefault]}]

MCMaxRegistrations == [s \in {s1, s2} |-> IF s = s1 THEN 3 ELSE 1]

Record(level, line, module_path) ==
    [level |-> level, message |-> "m", target |-> "t", file |-> "f", line |-> line,
     module_path |-> module_path]
Message(level) ==
    [level |-> level, message |-> "m", source |-> "module", caller |-> "c",
     source_file |-> "f", line |-> 1]

\* Line 0 is the default of the table; the last record is one of hl_log.
MCLogRecords ==
    {Record(level, 0, Some("module")) : level \in Levels} \cup {Record("Info", 1, None)}
MCLogMessages == {Message(level) : level \in DOMAIN LevelOf}

MCInit ==
    /\ part \in {"calls", "logs"}
    /\ Init /\ LogInit
    /\ part = "logs" => language = [s \in Sandboxes |-> "Rust"]
MCNext ==
    \/ part = "calls" /\ Next /\ UNCHANGED <<part, log_vars>>
    \/ part = "logs" /\ LogNext /\ UNCHANGED <<part, vars>>
MCSpec == MCInit /\ [][MCNext]_<<part, vars, log_vars>>
=============================================================================
