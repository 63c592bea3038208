# webcheck in TLA+

A model of webcheck, the Telegram bot that watches websites: TLA+ modules of its
components, TLC configurations that check them on small instances, and proofs
for TLAPS.  Every definition is translated from the Python source; the table
`map` of `PROJECT.json` names the lines each one stands for.

    tlc -workers 2 -config SiteMonitor_one.cfg MCSiteMonitor     # a run
    tlapm SiteMonitor_proof.tla                                  # the proofs

## 1. The system

One process runs an asyncio event loop with four entrances: Telegram polling,
an APScheduler, an aiohttp server for the Mini App and the admin console, and an
aiohttp WebSocket server for remote agents.  All state that survives a restart
is in PostgreSQL.  Handlers call the database synchronously on the loop, except
for a few calls moved to worker threads with `asyncio.to_thread` (DNS snapshots,
retention, deletion).  So the unit of atomicity is the code between two awaits,
and for those few calls the single SQL statement or transaction.

| component | state | operations | talks to |
|---|---|---|---|
| scheduled monitor (`telegram/scheduler.py`) | flags, failure count and incident of each site; locals of `process_site()` | one run over all due sites; per site: check, confirm, alert, recover, remind | checks, agents, Telegram, database |
| incidents (`infra/db.py`) | `sites.incident_started_at`, `central_incidents` | start, clear, acknowledge, mark reminder | monitor, handlers |
| DNS monitor (`scheduler.py`, `infra/db.py`) | `site_dns_snapshots`, `dns_change_events` | record a snapshot, list pending changes, mark notified, enable or disable | monitor (worker threads), Mini App |
| repository (`infra/repository.py`) | pool of connections, one operation state per thread | acquire, execute, fetch, commit, rollback | everything |
| agent registry (`agent_server/`) | online agents, disabled agents, pending requests | register, unregister, disable, request, answer | agents, monitor, admin console |
| remote agent (`agent/`) | connection, running checks, back-off | connect, heartbeat, handle a job | registry |
| deletion (`core/confirmation.py`, `telegram/deletion.py`) | confirmation tokens | prompt, confirm, expire | Telegram, database |
| retention (`infra/maintenance.py`) | raw, hourly and daily results | archive, delete in batches | database, history readers |
| projects and invites (`infra/db.py`) | projects, members, invites, sites | create, invite, join, change role, remove | Mini App, Telegram |
| feedback (`infra/db.py`, handlers, console) | conversations, messages | open, cancel, write, read, answer | Mini App, Telegram, console |
| manual checks (`webapp/server.py`, `handlers.py`) | `last_status`, per-site locks | check now | checks, agents |
| checks (`checks/`, `agent/checks.py`) | none | HTTP with retries and redirects, TLS, WHOIS, DNS | network |
| status pages, admin console, Mini App views | status page rows | publish, update | browsers |

What is hard here: tasks interleave at every await while they hold values read
before it; a run may outlive its scheduler job; messages to Telegram are sent
before or after the commit that records them, so a crash or an error in between
loses or repeats one; several commits make up one logical change; agents come,
go and answer late.

What makes each component correct:

* *monitor*: an outage is told once, after the threshold, and its end closes it;
* *incidents*: the two records of an incident never disagree;
* *DNS monitor*: a change is told or suppressed, never both and never lost, and
  the first snapshot after re-enabling is only a baseline;
* *repository*: no permit and no connection is lost, and the writes of one
  function are stored together;
* *registry*: the newest connection of an agent is the registered one; every
  request ends once, with the answer to it or with an error;
* *remote agent*: no check outlives its connection; connecting is paced;
* *deletion*: nothing is deleted that the same person did not confirm in time;
* *retention*: no result is lost or counted twice between the three tables;
* *projects*: nobody changes what they may not change at the moment of the
  write; targets are distinct and the windows of a site do not overlap;
* *feedback*: what opens a conversation brings one message to the operator, and
  the transcript shows no answer that was not delivered.

## 2. The plan

The most important behaviour comes first.  Done:

1. `Incident` and `SiteMonitor` (with `SiteMonitor_proof`): the outage
   lifecycle and the monitor that implements it.
2. `AgentExchange` and `AgentRegistry` (with `AgentRegistry_proof`): requests to
   agents and their answers.
3. `DnsMonitor` (with `DnsMonitor_proof`): snapshots and change events across
   threads.
4. `AgentClient` (with `AgentClient_proof`): the agent's connection, tasks and
   permits.
5. `Repository` (with `Repository_proof`): the cursor facade, the pool and its
   semaphore.
6. `Project`: members, invites, sites, windows, bulk requests, manual checks;
   `Deletion` extends it with the confirmations and deletions that run beside
   (with `Deletion_proof`).
7. `Retention` (with `Retention_proof`): the moves between the tables of
   results, and the history.
8. `Feedback` (with `Feedback_proof`): conversations between users and the
   operator.

Next, in this order:

9. A specification of what a confirmation and the history of results promise,
   and proofs that `Deletion` and `Retention` implement it.
10. `Reminders`, the clock of `reminder_kind()`, which `SiteMonitor` leaves open.
11. A composition of `AgentRegistry` with `AgentClient`, whose connection is
    abstract on both sides.

## 3. Modules and code

A module keeps the names of the functions and columns it translates.  An action
is the code between two awaits (or, in a worker thread, one statement or
transaction); a program counter `pc` says at which await a task is suspended.

### SiteMonitor and Incident

`telegram/scheduler.py`.  A *run* is one call of `monitor()`: it snapshots the
due sites (`StartRun`), and has a task per site.  A task waits for the semaphore
(`Acquire`), then passes through the awaits of `process_site()`:

| pc | suspended in | leaves by |
|---|---|---|
| `queued` | `process_site_limited()` | `Acquire` |
| `check`, `domain`, `confirm` | `check_resource()`, the domain check, `confirm_http_down()` | `CheckDone`, `DomainDone`, `ConfirmDone`, `CheckRaises` |
| `recSend`, `recAck` | the recovery message, before and after its delivery | `Deliver`, `RecoveryDone`, `SendForbidden`, `SendFails` |
| `dns` | `monitor_site_dns()` | `DnsDone`, `SendForbidden`, `CheckRaises` |
| `renewSend` | the "renewed" message | `RenewDone`, … |
| `alertSend`, `alertAck` | the alert, before and after its delivery | `Deliver`, `AlertDone`, … |
| `background` | the agents' check | `BackgroundDone`, … |
| `errSend` | the report of an exception | `ErrorReported`, … |
| `operSend`, `operLast` | the message of `notify_block()` to the operator; the second within the report of an exception | `OperatorTold` |

Everything the code reads once and uses later is a field of the task
(`started`, `notified`, `fails`, `prefs`, `issues`), so it can be stale as in the
code.  `sites[s]` is the row of the site: the flags, the counter, and the two
records of its incident, `started` (`sites.incident_started_at`) and `open` (an
open `central_incidents` row).  `Commits` is a sequence of two commits between
which the database may fail.  `gather()` has no `return_exceptions`: an
exception that escapes a task ends the run for the scheduler (`abandoned`) while
its other tasks go on.  A forbidden message (`SendForbidden`) deletes the private
sites of the owner before the operator is told of it, and each commit of that may
be refused.  What fails in `alertSend` ends the task, but for the agents' check
that a DOWN alert quotes, which raises outside of the `try` around the send.

History variables, which no action reads: `heard` (messages that reached the
owner about the present incident, and in `unacked` the kinds of those whose
delivery the bot never learned of), `streak` (failed evaluations in a row),
`tainted` (sites on which two tasks overlapped or a database error fell between
two commits).  `Incident` is what the owner may rely on; `SiteMonitor`
implements it under the mapping `Phase`.

Abstracted: time (`DueReminder` may choose any reminder the preferences and
flags allow; `near` and `again` stand for expiry dates), the site's text and
agents' results.

### AgentRegistry and AgentExchange

`agent_server/registry.py`, `server.py`, `checks.py`.  A connection is one
`agents_ws()` handler, a job one `request_check()` of a round.  The handler is
`hello`, `admitted`, then `registered` while it waits for the close of an older
connection and for its acknowledgement to be sent (`Register`, `Acknowledge`): it
is on the list and is sent jobs, but reads no results before it is in its `loop`;
then `ending`.  The `asyncio.Lock` is `holder`: methods that do
not await inside the lock are one action, enabled when it is free; sending holds
it from `Take` to `Sent` or `SendFails`, and from `AdminSends` to `AdminSent`.
`Expire` and `Forget` are the two halves of the time-out: the future is
cancelled, and only later taken out of `_pending`, so a result may come in
between.  `AgentExchange` has one variable, the outcome of each request.

The registry takes for granted of an agent that its loss loses its unanswered
jobs and that it answers a job once; `AgentClient` is how the agent does that.

### AgentClient

`agent/client.py`.  `link` is where `run_forever()` and `_connect_once()` are,
`jobs` the `_handle_check()` task of each request, and `free` and `queue` the
semaphore, with the hand-over of a permit to the first waiter as asyncio does it
(`granted`).  The clean-up is three steps, as it awaits twice: `Leave` (the
heartbeat is cancelled), `CancelAll` (all tasks are, and nobody waits for a
permit from then on), `Left` (all have ended).  A message loop that ends by
itself raises nothing: `peer = "closed"` is a close or an end of stream,
`peer = "error"` a protocol error, which is raised.

### DnsMonitor

`monitor_site_dns()` with `record_dns_snapshot()`, `get_pending_dns_changes()`
and `mark_dns_changes_notified()`, against `site_check_settings()`.  A task goes
from the check (`Checked`) to the lookups (`LookedUp`), the recheck of the
setting (`Recheck`), the old snapshot (`Read`), the transaction (`Write`), the
pending events (`List`), the message (`Send`) and its record (`Mark`).  The
database calls run in threads.  `Recheck` and `Read` are steps of their own
although both statements say `FOR UPDATE`: the cursor facade rolls back a
`SELECT` when it is fetched (`repository.py:176`), and the lock goes with it.
`Restart` includes the migration that seeds snapshots from `last_resolved_ip`.
History: the interval of enabled monitoring in which a run of the task began
(`interval`, `at`), which is where its lookups belong, and with them the values
that it stores and the changes that it reports (`since`, `from`, `to`); the
messages that named an event (`told`); the first value of a baseline (`first`);
and whether a run that began before "disabled" was saved recorded its lookups
after it (`torn`).  The site is not deleted; its owner either gets the message or not.

### Repository

`infra/repository.py`.  A thread runs functions of `db.py`, which are sequences
of statements (`Functions`, with the assumption `WellFormed` on how `db.py`
writes them).  `pc` is where the thread is: `inside` a function, in `getconn()`,
making a cursor, in `putconn()`, or about to release its permit.  `open` and
`dirty` are the thread-local `_OperationState`; `permits` is the semaphore,
`idle` and `used` are the two sets of the pool of psycopg2, which the code
guards with the semaphore but which counts for itself.  Every call may fail.
`row` stands for the rows that statements lock.

### Project and Deletion

One personal project that its owner shares.  A handler is one action when
nothing is awaited between the look at the role of its sender and the write.
The others are kept in `requests`: adding a target (a DNS lookup), an edit or a
window (a body), a check (the check itself).  They come back to the database
with what they read before, and the member may be gone by then.  Windows are
pairs of instants; labels stand for group, tags and settings alike.

`Deletion` adds `ConfirmationStore` twice (bot and console) and the handlers
`jobs` of the bot, whose calls run in worker threads one by one: the site and
the role before the prompt (`AskSite`, `AskRole`), the role again, the test for
members and the deletion after the confirmation. Every step of the project may
come in between. `prompts` is history: what was shown to whom, and what was done
with it. A token is a place in `prompts`, so a store, which keeps its tokens in
the order they were issued, is a set of places: the oldest is the least
(`Newest`).

`Scope` bounds a behaviour, not the code: each behaviour sends requests of some
kinds only, which is chosen in its initial state, so that one run covers every
mix in `MCScopes` without the product of all.

### Retention

`run_database_maintenance()` has one transaction for its four loops; `run` is
what it sees of its own writes, and `Commit` makes them the tables.  Results
arrive meanwhile (`Store`), so `Commit` removes what the run took, not what is
old then.  A result is a tick; the sums are counts by the start of a bucket
(`Total` counts the results behind the rows of a set of starts).
`Fail` is any failure or the end of the process.  The history that the Mini App
reads is one statement (`History`) and so a function of the state.

### Feedback

Two handlers await Telegram between two accesses to the tables: opening feedback
from the Mini App (`opening` counts the requests of each user), and the answer of
the console (`replies`).
`Deliver` and `Record` are separate, and so are `Deliver` and `SendFails`:
Telegram may deliver and still report an error.  Deleting a user cascades.  What
the operator has read is left out: the column `is_read` is written by the page of
a conversation and only counted on another.

## 4. The runs

`MC<module>` declares the model values of `<module>`; a cfg is named
`<module>_<question>`.  "Shows" is what would be wrong if the run failed.

| run | instance | shows |
|---|---|---|
| `SiteMonitor_one` | one private site, up to two runs at once, threshold 2, one restart, database errors | messages about an outage agree with what happened; the two records of an incident agree, whatever overlaps; the monitor implements `Incident` |
| `SiteMonitor_live` | one shared site, one run, threshold 2, a certificate that expires and is renewed | outages are told; incidents are closed, unless the owner of the shared site blocked the bot |
| `AgentRegistry_rounds` | one agent, two connections, two rounds | online list = registered handlers; one outcome each; every request returns |
| `AgentClient_tasks` | three requests, two permits | no permit lost, requests are answered, the agent comes back |
| `DnsMonitor_told` | two record types; one change with a disable and an unrecorded message, or with a restart and both preferences | changes are stored and told once, none between two intervals (but for a run that straddles one, section 5); they are settled, and the snapshot catches up |
| `Repository_pool` | three threads, pool of two, five shapes of functions, one of which writes twice with a fetch in between | no permit lost, the pool never dry, writes together, who waits is served |
| `Deletion_team` | one guest, two requests, one job, seven scopes | who lost a right changes and deletes nothing; targets and windows stay distinct; a confirmation does what it showed, once |
| `Retention_sums` | hours of 2 ticks, days of 4, batches of 1, two per loop, one failure | every history counts no result twice and misses no whole day; old results leave their table |
| `Feedback_talk` | two users, one answer at a time | one message per opening; no answer shown that was not delivered |

`SiteMonitor_shared`, `DnsMonitor_seed` and `Deletion_joined` are refuted; see
section 5.

The bounds. One site in two runs is the least in which two tasks hold flags of
one row, and it is what the properties of the monitor are about. Sites meet in
the semaphore, in `gather()` and in `notify_block()`; that several do is left to
the theorems of section 6, which hold for any number of sites and runs.
Threshold 2 is the smallest with a failure that is not yet an outage. Expiries,
of which one stands for both, are in `SiteMonitor_live` only, where their
messages may fail or be forbidden on the way to an alert. `SiteMonitor_one`
takes runs that swap their names for one state (`SYMMETRY`; it checks no
liveness), and has a `VIEW`: of a site that is tainted, and stays so, no
property reads `heard` and `streak`, and no action does but to write them, so
states that differ there only are one. Two connections are what it takes to
have one replaced while it is still ending, and a connection may be used again;
two rounds to one agent contend for the lock as two agents would, and the
theorems of section 6 cover any number of each. Three requests for two permits
make one wait while two hold, and a hand-over race the cancellation; so do three
threads over a pool of two, of which one connection is kept and one closed. Two
record types, of which one fails on its own, and two answers per type are enough
for a change, a change back and a partial baseline. One guest who joins, is
changed and removed while two requests wait is enough for every order of a loss
of rights and a write, and a second sender is the owner; three windows on one
site include two that overlap and two that only touch. Three confirmations
overflow a store of two. A batch of one makes every loop take several and stop
at its limit, which leaves a backlog; days of two hours, and a retention that is
no multiple of either, put cutoffs inside buckets. The remaining bounds
(`MaxRestarts`, `MaxCrashes`, `MaxFailures`, `MaxStarts`, …; `MaxReplies` for
each conversation) bound the environment only, never the code. `FailCap` stops
counting at the threshold, where the code counts on but compares nothing more.

Overlapping tasks on one site (`MONITOR_MAX_INSTANCES` above 1, or a run that
was left by an exception) are in the model and in `SiteMonitor_one`. The
properties of messages are stated for sites without them (`Sound`); `TypeOK` and
`IncidentViewsAgree` are checked and proved with them, and so is that a late
task leaves nothing in the place of a deleted row. In `DnsMonitor` the run has
one task; `SameInterval` is proved for any number, `NoChangeLost` and `ToldOnce`
for one (two tasks record and tell one change twice).

Deadlock is checked in every run but `Retention_sums`, whose clock ends.

### Fairness

* `SiteMonitor`: the scheduler starts runs (APScheduler's interval job); a task
  that is suspended gets an answer (time-outs bound the checks and the requests
  to Telegram); what is tried again and again does not fail every time (strong
  fairness of the successful answers, `OutageAlerted` and `RecoveryCloses` are
  about a database and a Telegram that work at last).
* `AgentRegistry`: asyncio's lock is first come, first served, so an action that
  takes it is strongly fair; a send ends because the server's heartbeat closes a
  dead connection; `wait_for()` bounds the wait.
* `AgentClient`: the event loop runs what is ready, a sleep ends, `wait_for()`
  bounds a check, an attempt to connect ends; one to reach a server that accepts
  is made good at last (strong fairness of `Connect`).
* `DnsMonitor`: only the steps of the task are fair, weakly.  That failures stop
  is a premise of the two properties (`Calm`), not an assumption of the model.
* `Repository`: each thread goes on when it can (`WF(Work(t))`); the semaphore is
  not first come, first served, so `Served` only says that somebody is.
* `Retention`: a run is started at each interval and its thread makes progress.
* `Project`, `Deletion`, `Feedback`: none; their properties are about safety.

## 5. Where code and documentation disagree

Three disagreements are runs that TLC refutes; `PROJECT.json` quotes both sides.

| run | the documentation | the code |
|---|---|---|
| `SiteMonitor_shared` | recovery closes the incident, whoever is notified (`ARCHITECTURE.md:157`, `PROJECT_MEMORY.md:85`) | a forbidden recovery message ends `process_site()` before the incident is closed; a shared site is not deleted then, so its incident stays open as long as its owner blocks the bot |
| `Deletion_joined` | a user with a shared project is not removed | a guest who joins between the test and the deletion loses the sites |
| `DnsMonitor_seed` | re-enabling starts from a fresh baseline | a restart seeds one from the last resolved address |

The modules contain more behaviour that a reader of the documentation would not
expect.  In the monitor and the agent:

* a run that outlives its job sends the alert once more (`ARCHITECTURE.md:154`);
* an acknowledgement between the decision to remind (`scheduler.py:281`) and the
  message does not stop it (`OneAlertPerIncident` says that it is at most one);
* a site that is paused while its task waits for the semaphore is checked;
* a database error between the commit that closes an incident and the one that
  resets the failure counter leaves the old count to the next outage, which is
  then told too early (the site is not `Sound`, and no property covers it);
* the future of a request whose send failed stays in `_pending` for good
  (`registry.py:154`; `PendingAccounted` excepts it);
* the agent pauses before it reconnects after an error, but not after a
  connection that the server closed (`agent/README.md:58`).

In the DNS monitor and the settings:

* a run that began before monitoring was disabled and records after it was
  enabled again makes its old lookups the new baseline, and the next run reports
  the change of the disabled interval (`scheduler.py:124`, `db.py:1300`);
  `README.md:322` says that this does not happen.  `SameInterval` excepts what
  comes after such a run (`torn`);
* the row lock of a snapshot is gone at the fetch (`repository.py:176`;
  `ARCHITECTURE.md:109`, `:135`), and a save in between is overwritten;
* two tasks on one site both deliver a pending DNS change;
* a settings request that omits `dns_monitoring_enabled` writes back the value
  it read before it awaited the validation of its target (`server.py:579`).

In the project and the feedback:

* the limit of sites is tested before the lookup of the target is awaited
  (`server.py:391`), and adding a site in the chat has no limit;
* checks started in the chat take no lock (`ARCHITECTURE.md:185` speaks of one);
* an invite for viewers makes a viewer of a manager who opens it (`db.py:200`);
* a viewer who presses "pause" in the chat is told that the site is paused,
  though the query refused it (`handlers.py:394`);
* a failure of Telegram while the Mini App opens feedback cancels a wait that
  began later (`webapp/server.py:365`); a late item of an album consumes a newer
  wait; an answer marks as "answered" what arrived unread meanwhile.

## 6. What is proved

TLAPS checks these for every value of the constants that the `ASSUME`s of the
modules admit: any number of sites, runs, users, requests, connections and
events, and any bounds.  Finite are assumed to be only the sites and runs of
`SiteMonitor`, the threads of `Repository` and the replies of `Feedback`, which
are counted.  Every invariant and action property that a run checks is a theorem
here.

`SiteMonitor_proof`

* `TypeCorrect`: `Spec => []TypeOK`, and `ViewsAgree`:
  `Spec => []IncidentViewsAgree`.  `Types` is inductive, with one step per action,
  and together with it `RowsFine`: the two records of a row agree, and a row that
  is gone is empty.  Every operation that changes `started` or `open` changes both
  in one commit, and writes no row that is gone (`Put`).

and, from the inductive invariant

    IInv == Types /\ IncidentViewsAgree /\ FreeIsIdle /\ Alone /\ OutagesOK

`AlertsEarned`, `RecoveryTold` and `AlertsOnce`, the three properties of messages
(`DownAfterThreshold`, `RecoveryOnlyAfterDown`, `OneAlertPerIncident`).  `Alone`
says that an untainted site has one task at most (a new run taints those that
have one already, so `FreeIsIdle` is needed: a free run has none left), and
`OutagesOK` that on such a site four things tell one story: the row, what the
owner heard, the failures in a row and the messages whose answer is open
(`Told`), and that what the task read before its awaits still agrees with them
(`Fits`).  Without `Fits` the flags of the row say nothing about the message that
a task is about to send.

* `LifecycleImplemented`: `Spec => ImplementsLifecycle`.  Under `Phase` each
  action maps to a step of `Incident` or to none: per site, an action advances
  its stage by one (`Advances`), and what changes several sites at once (a
  blocked bot deletes them) makes each of them void.

`AgentRegistry_proof`, from the inductive invariant

    IInv == TypeOK /\ ServedIsOnline /\ OnlineIsServed /\ DisabledOnlyLate
            /\ AdmittedLate /\ OneSender /\ Unbegun /\ PendingAccounted

`ServedIsOnline` and `OnlineIsServed` need each other: that an ending handler
removes only itself rests on the list naming the newest connection.  Both speak of
a handler from its registration on, before it acknowledges (`Reachable`).
`DisabledOnlyLate` needs `AdmittedLate`, a connection admitted but not yet
registered when its agent is disabled; `Unbegun`, that a round not begun has no
requests, is what makes `Begin` a step of the exchange.

* `TypeCorrect`, `ListIsTrue`, `DisabledIsOffline`, `SendsAlone`,
  `FuturesAccounted`: the parts of `IInv`.
* `Implements`: `Spec => Exchange!Spec`.  Each action maps, under `Outcome`, to
  `Begin`, to `Settle` or to a stutter; the case that needs the invariant is a
  result that arrives when its future is cancelled but still registered.

`Repository_proof`, from the inductive invariant

    PoolInv == PoolTypes /\ OpenAtRest /\ PermitsBalanced
               /\ used = Cardinality(Connected)

for finitely many threads.  `OpenAtRest` says that a thread with a state is
neither getting a connection nor giving one back; without it a thread could be
counted once and leave twice.

* `NoPermitLost`: `Spec => []PermitsBalanced`.
* `PoolNeverDry`: `Spec => []PoolSuffices`.  The threads with a connection are
  some of those with a permit, and one that is still to get its connection is
  not among them, so fewer than `Max` connections are in use.

and from a second one, `CallsOk`, for every function that is `WellFormed`: a
thread in a transaction has all the writes of its function so far and is dirty
if there are any (`Running`); outside of one, it has written nothing
(`Untouched`) or is at the end (`Settled`).

* `AllOrNothing`: `Spec => []WritesTogether`.
* `NoneLeftOpen`: no transaction stays open when a thread leaves a function.

`Deletion_proof`, about `Project` with the deletions beside it

* `TargetsDistinct`, `WindowsApart`: `Spec => []UrlsDistinct` and
  `Spec => []WindowsDisjoint`, from `SitesInv`, which adds that the rows have ids
  that were given out.  A step keeps some of the sites (`Fewer`), adds one
  (`Inserted`) or a window to one (`Scheduled`), and the last two look at the
  table in the step that writes.
* `RightsHold`, `DeletersManage`: `Spec => RightsHeldAtWrite` and
  `Spec => OnlyManagersDelete`, from `HandlersInv`: the handler that deletes all
  the data of a user is never one that a member began for a site.
* `TypeCorrect`: `Spec => []TypeOK`, in parts for the members, the rows, the
  requests, the confirmations and the handlers.  That a store never holds more
  than `MaxPending` is a fact about `issue()`: the newest `n` of a finite set are
  at most `n` (`NewestFew`).
* `ConfirmedOnce`: `Spec => []ConfirmedAsShown`, from `ConfirmInv`, which adds
  that no confirmation in a store was used yet.  It rests on `TypeOK`: a token is
  in the store it was shown through only, so `take()` leaves it in none.

`DnsMonitor_proof`

* `TypeCorrect`: `Spec => []TypeOK`, with the locals of a task that is at each
  of its awaits.
* `WithinOneInterval`: `Spec => []SameInterval`, for any number of tasks, from
  `Begun`, that no run began in an interval to come, and `Intervals`: unless a run
  recorded what it had looked up before "disabled" was saved, the snapshot is a
  baseline or its values were looked up in the present interval, and so is the row
  that a task of this interval is about to write from (`RowOK`).
* `ChangesKept` and `ChangesToldOnce`: `Spec => []NoChangeLost` and
  `Spec => []ToldOnce`, if the site has one task (`OneTask`: the default of
  `MONITOR_MAX_INSTANCES`).  The first needs `RowCurrent`, that the row read
  before the write is still the snapshot, although its lock is gone.  The second
  counts: an event was told as often as there were slips before it is told once
  more, and one for the message that is being recorded (`Paid`).

`Retention_proof`

* `TypeCorrect`: `Spec => []TypeOK`, with buckets under the start of their hour
  and day in the tables and in the transaction of the run.
* `HistoryCounts`: `Spec => []HistoryExact`, from `HistoryInv`.  It says for every
  instant, not only for the starts of the histories that are shown, that the
  rows since then count no more than what was stored since, and all that was
  stored on days since; and it says so of the tables and of what the run in
  progress would commit (`RunAccounts`), as a commit takes the place of tables to
  which results were added meanwhile.  The lemmas are about sums over buckets:
  what moves into a bucket is what leaves (`TotalByBucket`), and an hour lies
  within one day (`Buckets`).

`Feedback_proof`

* `TypeCorrect`: `Spec => []TypeOK`, with one conversation per user.
* `OnePerOpening`: `Spec => []OneMessagePerPrompt`, from `Talk`: openings are
  numbered upwards (`PromptsInOrder`), and while a conversation waits its present
  opening has no message, or nothing but items of the album (`WaitingClean`).
* `AnswersMatched`: `Spec => []AnswersDelivered`, from `AnswersCounted`: the
  stored answers of a conversation and the requests that sent one and have not
  stored it yet are together no more than the deliveries.

`AgentClient_proof`, from the inductive invariant

    IInv == TypeOK /\ QueueInv /\ IsFiniteSet(Holders) /\ PermitsBalanced

`QueueInv` says that the waiters are distinct tasks that wait: a permit that is
handed to the first of them makes one new holder.

* `TypeCorrect`: `Spec => []TypeOK`, and with it the bounds of the delay.
* `PermitsKept`: `Spec => []PermitsBalanced`.
* `StartsClean`: between two connections no task is left, nobody waits and every
  permit is free (`CleanStart`).
* `AnswersOnce`: no result is sent for a job that has one (`AnsweredOnce`), as an
  answered job is sending or done (`AnsweredLate`).

The last two state what `AgentRegistry` takes for granted of an agent; no run
names them.

Only model-checked is liveness, which is out of the prover's reach: nine
properties, of the monitor (`OutageAlerted`, `RecoveryCloses`), the registry
(`RequestsEnd`), the agent (`Answered`, `Returns`), the DNS monitor
(`PendingSettled`, `CatchesUp`), retention (`OldArchived`) and the repository
(`Served`).  The three disagreements of section 5 are counterexamples of TLC.

## 7. What is not modelled

The list `components` of `PROJECT.json` gives each part with its reason.  In
short: rendering and wording (pages of the console and the Mini App, status
texts, menus), parsing of commands, authentication and validation of single
requests (no state), the HTTP retries, TLS, WHOIS and content checks (functions
of the network's answer; `SiteMonitor` and `Project` choose their outcome), the
rows of status pages, migrations other than the one that writes data at every
start, and the search for subdomains, which is an external program.  Within the
modelled parts: the clock of reminders, latencies and averages, more than one
project, which messages of a conversation the operator has read, and the copies
that go to the operator's chat.
