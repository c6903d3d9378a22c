----------------------------- MODULE GuestLogs -----------------------------
(***************************************************************************)
(* The log records of guests: filtered in the guest by the level that the  *)
(* host's logger had when the guest was initialised, written as Messages,  *)
(* and handed by outb_log to the host's logger.  Levels are three types:   *)
(* Level of the log crate, whose numbers grow with verbosity, LogLevel of  *)
(* the guest's library and FbLogLevel of the messages, whose numbers grow  *)
(* with severity and which have two levels more.                           *)
(***************************************************************************)
EXTENDS Integers, Messages

CONSTANTS
    Guests,
    HostLevels,     \* the levels that the host process gives its logger
    LogRecords,     \* the records that guests log with a macro, or with hl_log
    LogMessages     \* the data that guests call log_message with

ASSUME LogAssumption ==
    /\ HostLevels \subseteq DOMAIN Level
    /\ \A r \in LogRecords : r.level \in Levels /\ r.line \in Nat
    /\ \A data \in LogMessages : data.level \in DOMAIN LevelOf

VARIABLES
    host_level,     \* log::max_level() of the host process
    max_log_level,  \* per guest: the number that initialise passed to it, if it did
    last            \* per guest: what became of what it logged last

log_vars == <<host_level, max_log_level, last>>

Nothing == [how |-> "nothing"]

\* A process starts without log records.
LogInit ==
    /\ host_level = "Off"
    /\ max_log_level = [g \in Guests |-> None]
    /\ last = [g \in Guests |-> Nothing]

\* log::set_max_level, whenever the host likes.
SetMaxLevel(level) ==
    /\ level # host_level
    /\ host_level' = level
    /\ UNCHANGED <<max_log_level, last>>

\* The host runs the guest's entry point, once: get_max_log_level.
Initialise(g) ==
    /\ max_log_level[g] = None
    /\ max_log_level' = [max_log_level EXCEPT ![g] = Some(Level[host_level])]
    /\ UNCHANGED <<host_level, last>>

\* Mutant: the number is looked up among the levels, which have no Off.
LevelAt(n) == CHOOSE l \in Levels : Level[l] = (IF n < 5 THEN n + 1 ELSE 5)

\* The entry point makes a filter of the number: LevelFilter::iter().nth(n).
LevelFilterAt(n) == CHOOSE l \in DOMAIN Level : Level[l] = n

\* log_enabled!, and what the log macros ask before they call the logger.
log_enabled(g, level) == Level[level] <= Level[LevelFilterAt(max_log_level[g][1])]

\* GuestLogger::log: what a record becomes.  hl_log gives no module.
LogData(r) ==
    [message |-> r.message, level |-> LogLevel[r.level], caller |-> r.target,
     source |-> IF r.module_path = None THEN "Unknown" ELSE r.module_path[1],
     source_file |-> r.file, line |-> r.line]

\* outb_log: the record that the host hands to its own logger, or to its tracing
\* subscriber, without asking its level again.  The caller is not in it.
Logged(data) ==
    LET got == decode_log(encode_log(data))
    IN  IF got = None THEN None
        ELSE Some([message |-> got[1].message, level |-> LevelOf[got[1].level],
                   target |-> "hyperlight-guest", file |-> got[1].source_file,
                   line |-> got[1].line, module_path |-> got[1].source])

\* log_message pushes the data and leaves for the host.
log_message(g, how, sent, data) ==
    last' = [last EXCEPT ![g] = [how |-> how, sent |-> sent, got |-> Logged(data)]]

\* A log macro, or hl_log, in a guest that runs.
Log(g, r) ==
    /\ max_log_level[g] # None
    /\ IF log_enabled(g, r.level)
       THEN log_message(g, "logged", r, LogData(r))
       ELSE last' = [last EXCEPT ![g] = [how |-> "filtered", sent |-> r, got |-> None]]
    /\ UNCHANGED <<host_level, max_log_level>>

\* A guest may call log_message itself, with a LogLevel: no level is asked.
LogMessage(g, data) ==
    /\ max_log_level[g] # None
    /\ log_message(g, "message", data, data)
    /\ UNCHANGED <<host_level, max_log_level>>

LogNext ==
    \/ \E level \in HostLevels : SetMaxLevel(level)
    \/ \E g \in Guests :
        \/ Initialise(g)
        \/ \E r \in LogRecords : Log(g, r)
        \/ \E data \in LogMessages : LogMessage(g, data)

-----------------------------------------------------------------------------
(* Properties                                                              *)

\* The host's logger gets a record of a guest with the level, the text and the
\* place that the guest gave it, though the level goes through three orders of
\* levels; only Critical and None, for which the logger has no level, arrive as
\* Error and as Trace (GuestLogger::log, outb_log).  The guest filters with the
\* level that the host had when it initialised it: a record that the host's
\* level rules out arrives, and one that it lets through is lost, only when the
\* host has changed its level since, or, for the first, by log_message.
LogsArriveAsSent ==
    \A g \in Guests :
        LET sent == last[g].sent
            got == last[g].got[1]
        IN
        /\ last[g].how \in {"logged", "message"} => last[g].got # None
        /\ last[g].how = "logged" =>
                /\ got.level = sent.level
                /\ <<got.message, got.file, got.line>> = <<sent.message, sent.file, sent.line>>
                /\ sent.module_path \in {None, Some(got.module_path)}
        /\ last[g].how = "message" =>
                /\ \/ LogLevel[got.level] = sent.level
                   \/ <<sent.level, got.level>> \in {<<"Critical", "Error">>, <<"None", "Trace">>}
                /\ <<got.message, got.file, got.line, got.module_path>>
                     = <<sent.message, sent.source_file, sent.line, sent.source>>
        /\ max_log_level[g] = Some(Level[host_level]) =>
                /\ last[g].how = "logged" => Level[sent.level] <= Level[host_level]
                /\ last[g].how = "filtered" => Level[sent.level] > Level[host_level]
=============================================================================
