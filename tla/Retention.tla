----------------------------- MODULE Retention ------------------------------
(***************************************************************************)
(* Retention of monitoring results: run_database_maintenance() moves old    *)
(* results of the agents into hourly and old hours into daily sums, and     *)
(* deletes old log rows, while results arrive and the Mini App reads the    *)
(* history.  Maintenance has a connection of its own and one transaction for*)
(* all its batches; what it has not committed nobody else sees.             *)
(*                                                                         *)
(* The results are those of one agent for one url.  Their number stands for *)
(* all that is summed; user_logs, bot_messages and events are one table.    *)
(***************************************************************************)
EXTENDS Integers, FiniteSets

CONSTANTS
    HourLength, DayLength,  \* ticks of the clock
    RawKeep,        \* AGENT_RESULT_RETENTION_DAYS, in ticks
    HourKeep,       \* AGENT_HOURLY_RETENTION_DAYS
    LogKeep,        \* USER_LOG_RETENTION_DAYS, and those of the other tables
    BatchSize,      \* DB_CLEANUP_BATCH_SIZE
    MaxBatches,     \* DB_CLEANUP_MAX_BATCHES
    Periods,        \* lengths of the history that are asked for
    MaxTime,        \* bound: last tick
    MaxResults,     \* bound: results and log rows in all
    MaxFailures     \* bound: runs that fail

RetentionAssumption ==
    /\ {HourLength, DayLength, RawKeep, HourKeep, LogKeep, BatchSize, MaxBatches}
         \subseteq Nat \ {0}
    /\ \E k \in 1..DayLength : DayLength = k * HourLength
    /\ Periods \cup {MaxTime, MaxResults, MaxFailures} \subseteq Nat

ASSUME RetentionAssumption

VARIABLES
    now,
    raw,        \* agent_check_results: how many of each tick
    hourly,     \* agent_check_hourly: checks of each bucket, by bucket_start
    daily,      \* agent_check_daily
    logs,       \* ticks of the rows of the log tables
    run,        \* the transaction of run_database_maintenance()
    taken,      \* history: results stored, by tick
    logged,     \* history: log rows stored
    failures    \* history: runs that failed

vars == <<now, raw, hourly, daily, logs, run, taken, logged, failures>>

Times == 0..MaxTime
None == [t \in Times |-> 0]

\* date_trunc(), as functions of the time
Hour == [t \in Times |-> (t \div HourLength) * HourLength]
Day == [t \in Times |-> (t \div DayLength) * DayLength]

\* The sum of f over S, as the number of its units.
Units(f, S) == UNION {{t} \X (1..f[t]) : t \in S}
Total(f, S) == Cardinality(Units(f, S))

\* at is the now of the run; gone are the results, old the log rows it deleted, and
\* hourly, daily the tables as it sees them: it alone writes those.
NoRun == [pc |-> "idle", round |-> 0, at |-> 0, gone |-> None, hourly |-> None,
          daily |-> None, old |-> {}]

Init ==
    /\ now = 0
    /\ raw = None /\ hourly = None /\ daily = None /\ taken = None
    /\ logs = {} /\ logged = {}
    /\ run = NoRun
    /\ failures = 0

-----------------------------------------------------------------------------
(* The rest of the program.                                                *)

Stored == Total(taken, Times) + Cardinality(logged)

\* log_agent_check_result()
Store ==
    /\ Stored < MaxResults
    /\ raw' = [raw EXCEPT ![now] = @ + 1]
    /\ taken' = [taken EXCEPT ![now] = @ + 1]
    /\ UNCHANGED <<now, hourly, daily, logs, run, logged, failures>>

\* log_user_action(), log_bot_message(), log_event()
Log ==
    /\ now \notin logged /\ Stored < MaxResults
    /\ logs' = logs \cup {now}
    /\ logged' = logged \cup {now}
    /\ UNCHANGED <<now, raw, hourly, daily, run, taken, failures>>

Tick ==
    /\ now < MaxTime
    /\ now' = now + 1
    /\ UNCHANGED <<raw, hourly, daily, logs, run, taken, logged, failures>>

\* get_site_history_for_user(): one statement over the three tables.
History(since) ==
    Total(raw, {t \in Times : t >= since})
        + Total(hourly, {h \in Times : h >= since})
        + Total(daily, {d \in Times : d >= since})

-----------------------------------------------------------------------------
(* One run.                                                                *)

Tables == <<now, raw, hourly, daily, logs, taken, logged, failures>>

\* The index is valid, and the cutoffs are taken from the clock.
Begin ==
    /\ run.pc = "idle"
    /\ run' = [NoRun EXCEPT !.pc = "raw", !.at = now, !.hourly = hourly, !.daily = daily]
    /\ UNCHANGED Tables

\* Another batch unless this one was not full, or was the last allowed.
Continue(count, pc) ==
    IF count < BatchSize \/ run.round + 1 = MaxBatches
    THEN [run EXCEPT !.pc = pc, !.round = 0]
    ELSE [run EXCEPT !.round = @ + 1]

Moved(from, to, bucket) ==
    [b \in Times |-> to[b] + Total(from, {t \in Times : bucket[t] = b})]

Left == [t \in Times |-> raw[t] - run.gone[t]]

\* The oldest results before the cutoff, BatchSize at most.
Doomed(cutoff) ==
    [t \in Times |->
       LET room == BatchSize - Total(Left, 0..(t - 1)) IN
       IF t >= cutoff \/ room < 0 THEN 0 ELSE IF Left[t] < room THEN Left[t] ELSE room]

\* Mutated form of AddedHourly: results are kept under their own time.
AddedHourlyExact(doomed) == [b \in Times |-> run.hourly[b] + doomed[b]]

\* Mutated form of AddedHourly: a bucket that exists is replaced.
AddedHourlyFresh(doomed) ==
    LET sums == Moved(doomed, None, Hour) IN
    [b \in Times |-> IF sums[b] > 0 THEN sums[b] ELSE run.hourly[b]]

\* ON CONFLICT DO UPDATE adds to the bucket.
AddedHourly(doomed) == Moved(doomed, run.hourly, Hour)

\* _archive_agent_batch()
RawBatch ==
    LET doomed == Doomed(run.at - RawKeep) IN
    /\ run.pc = "raw"
    /\ run' = [Continue(Total(doomed, Times), "hourly") EXCEPT
                 !.gone = [t \in Times |-> @[t] + doomed[t]],
                 !.hourly = AddedHourly(doomed)]
    /\ UNCHANGED Tables

\* The oldest buckets of f before the cutoff, BatchSize at most.
OldBuckets(f, cutoff) ==
    {b \in Times : /\ b < cutoff /\ f[b] > 0
                   /\ Cardinality({a \in 0..(b - 1) : f[a] > 0}) < BatchSize}

\* _archive_hourly_batch()
HourlyBatch ==
    LET doomed == OldBuckets(run.hourly, run.at - HourKeep)
        sums == [b \in Times |-> IF b \in doomed THEN run.hourly[b] ELSE 0]
    IN  /\ run.pc = "hourly"
        /\ run' = [Continue(Cardinality(doomed), "logs") EXCEPT
                     !.hourly = [b \in Times |-> IF b \in doomed THEN 0 ELSE @[b]],
                     !.daily = Moved(sums, @, Day)]
        /\ UNCHANGED Tables

LogCutoff == run.at - LogKeep

\* _delete_batch()
LogBatch ==
    LET seen == logs \ run.old
        doomed == {t \in seen : /\ t < LogCutoff
                                /\ Cardinality({s \in seen : s < t}) < BatchSize}
    IN  /\ run.pc = "logs"
        /\ run' = [Continue(Cardinality(doomed), "commit") EXCEPT !.old = @ \cup doomed]
        /\ UNCHANGED Tables

\* Mutated form of Commit: the connection is closed without a commit.
CommitMissing ==
    /\ run.pc = "commit"
    /\ run' = NoRun
    /\ UNCHANGED Tables

Commit ==
    /\ run.pc = "commit"
    /\ raw' = Left
    /\ hourly' = run.hourly /\ daily' = run.daily
    /\ logs' = logs \ run.old
    /\ run' = NoRun
    /\ UNCHANGED <<now, taken, logged, failures>>

\* A statement fails, the connection is lost or the process ends: all is rolled back.
Fail ==
    /\ run.pc # "idle"
    /\ failures < MaxFailures
    /\ failures' = failures + 1
    /\ run' = NoRun
    /\ UNCHANGED <<now, raw, hourly, daily, logs, taken, logged>>

RunStep == Begin \/ RawBatch \/ HourlyBatch \/ LogBatch \/ Commit

Next == Store \/ Log \/ Tick \/ RunStep \/ Fail

\* The scheduler starts a run at each interval, and its thread makes progress.
Spec == Init /\ [][Next]_vars /\ WF_vars(RunStep)

-----------------------------------------------------------------------------
(* Properties.                                                             *)

Counts == [Times -> Nat]

Run == [pc: {"idle", "raw", "hourly", "logs", "commit"}, round: 0..(MaxBatches - 1),
        at: Times, gone: Counts, hourly: Counts, daily: Counts, old: SUBSET Times]

\* Buckets are kept under their start, and a run deletes only what is there.
TypeOK ==
    /\ now \in Times /\ failures \in 0..MaxFailures
    /\ {raw, hourly, daily, taken} \subseteq Counts
    /\ run \in Run
    /\ \A t \in Times : hourly[t] > 0 => t = Hour[t]
    /\ \A t \in Times : daily[t] > 0 => t = Day[t]
    /\ \A t \in Times : run.gone[t] <= raw[t]
    /\ run.old \subseteq logs /\ logs \subseteq logged /\ logged \subseteq Times

\* Whatever batch, failure or commit came last, a history of any length counts a
\* result once at most and only if it is young enough, and no result is missing
\* whose day lies within the period.
HistoryExact ==
    \A p \in Periods :
        LET since == now - p IN
        /\ History(since) <= Total(taken, {t \in Times : t >= since})
        /\ History(since) >= Total(taken, {t \in Times : Day[t] >= since})

\* A backlog longer than the batches of one run, or runs that fail, delay the end of
\* old results but do not prevent it.
OldArchived ==
    \A t \in Times : []<>(t < now - RawKeep => raw[t] = 0)
=============================================================================
