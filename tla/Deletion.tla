------------------------------ MODULE Deletion ------------------------------
(***************************************************************************)
(* Confirmed deletions, beside the project they delete from: the two stores *)
(* of confirmations (ConfirmationStore of the bot and of the console), the  *)
(* deletion flow of the bot, whose database calls each run in a worker      *)
(* thread while the event loop serves the project, and the pages of the     *)
(* console.                                                                *)
(***************************************************************************)
EXTENDS Project

CONSTANTS
    Admin,          \* BOT_OWNER_ID, and whoever signs in to the console
    Jobs,           \* deletion handlers of the bot at work at once
    MaxPending      \* ConfirmationStore.max_pending

DeletionAssumption ==
    /\ Admin \notin Users
    /\ MaxPending \in Nat \ {0}

ASSUME DeletionAssumption

VARIABLES
    stores,     \* ConfirmationStore.pending of bot and console, as places in prompts
    prompts,    \* every confirmation that was shown, in their order, and its use
    jobs        \* handlers of the bot between two calls to a worker thread

deletionVars == <<stores, prompts, jobs>>
allVars == <<projectVars, deletionVars>>

Rest == <<jobs, projectVars>>

Vias == {"bot", "web"}

NoJob == [pc |-> "idle", action |-> "none", target |-> 0, by |-> Admin]

\* over: its five minutes are over.  runs and astray are history: the deletions that
\* were begun with it; one of them was not the one shown, or not in time.
Prompt(via, action, target, actor) ==
    [via |-> via, action |-> action, target |-> target, actor |-> actor,
     over |-> FALSE, runs |-> 0, astray |-> FALSE]

DeletionInit ==
    /\ Init
    /\ stores = [s \in Vias |-> {}]
    /\ prompts = <<>>
    /\ jobs = [j \in Jobs |-> NoJob]

-----------------------------------------------------------------------------
(* ConfirmationStore.                                                      *)

Live(store) == {t \in store : ~prompts[t].over}

\* Mutated form of Issued: nothing is dropped from a full store.
IssuedOnTop(store, t) == Live(store) \cup {t}

Newest(S, n) == {s \in S : Cardinality({r \in S : r > s}) < n}

\* issue(): what expired goes, then the oldest while the store is full.
Issued(store, t) == Newest(Live(store), MaxPending - 1) \cup {t}

Show(p) ==
    /\ Len(prompts) < scope.prompts
    /\ prompts' = Append(prompts, p)
    /\ stores' = [stores EXCEPT ![p.via] = Issued(@, Len(prompts) + 1)]

Drop(via, t) == stores' = [stores EXCEPT ![via] = @ \ {t}]

\* take() pops what it returns.
Spend(via, t) == Drop(via, t)

\* Mutated form of Valid: neither actor nor action nor target is compared.
ValidForAny(via, t, action, target, actor) ==
    t \in stores[via] /\ ~prompts[t].over

\* take(): the bot compares the actor, the console the action and the target too.
Valid(via, t, action, target, actor) ==
    /\ t \in stores[via] /\ ~prompts[t].over
    /\ prompts[t].actor = actor /\ prompts[t].action = action /\ prompts[t].target = target

\* take() of a confirmation that expired removes it.
TakeExpired(via, t) ==
    /\ t \in stores[via] /\ prompts[t].over
    /\ Drop(via, t)
    /\ UNCHANGED <<prompts, Rest>>

\* Five minutes pass for the oldest that is not yet over.
Expire(via) ==
    \E t \in DOMAIN prompts :
        /\ prompts[t].via = via /\ ~prompts[t].over
        /\ \A s \in 1..(t - 1) : prompts[s].via = via => prompts[s].over
        /\ prompts' = [prompts EXCEPT ![t].over = TRUE]
        /\ UNCHANGED <<stores, Rest>>

\* The history of a use of t: what is done now, and by whom.
Used(t, action, target, by) ==
    prompts' = [prompts EXCEPT
        ![t].runs = @ + 1,
        ![t].astray = \/ @ \/ prompts[t].over
                      \/ <<prompts[t].action, prompts[t].target, prompts[t].actor>>
                           # <<action, target, by>>]

-----------------------------------------------------------------------------
(* The bot.                                                                *)

SetJob(j, job) == jobs' = [jobs EXCEPT ![j] = job]

\* prompt_site_deletion(): get_site_for_user() in a worker thread, which finds the site
\* for whoever may see it.
AskSite(j, u, i) ==
    /\ jobs[j] = NoJob
    /\ Len(prompts) < scope.prompts
    /\ Sees(u, i)
    /\ SetJob(j, [pc |-> "ask", action |-> "site", target |-> i, by |-> u])
    /\ UNCHANGED <<stores, prompts, projectVars>>

\* A handler that waits reads the role: it goes on to the place next, or ends.
GoesOnIfManager(j, next) ==
    /\ SetJob(j, IF Manages(jobs[j].by, jobs[j].target)
                 THEN [jobs[j] EXCEPT !.pc = next] ELSE NoJob)
    /\ UNCHANGED <<stores, prompts, projectVars>>

\* get_site_role(), in another call to a worker thread.
AskRole(j) == jobs[j].pc = "ask" /\ GoesOnIfManager(j, "show")

AskAsAdmin(j, action, i) ==
    /\ jobs[j] = NoJob
    /\ Len(prompts) < scope.prompts
    /\ SetJob(j, [pc |-> "show", action |-> action, target |-> i, by |-> Admin])
    /\ UNCHANGED <<stores, prompts, projectVars>>

\* _prompt()
ShowPrompt(j) ==
    /\ jobs[j].pc = "show"
    /\ Show(Prompt("bot", jobs[j].action, jobs[j].target, jobs[j].by))
    /\ SetJob(j, NoJob)
    /\ UNCHANGED projectVars

\* handle_deletion_confirmation(): the button "cancel". Others may press it too.
PressCancel(t, u) ==
    /\ Valid("bot", t, prompts[t].action, prompts[t].target, u)
    /\ Spend("bot", t)
    /\ UNCHANGED <<prompts, Rest>>

PressConfirm(j, t, u) ==
    LET p == prompts[t] IN
    /\ jobs[j] = NoJob
    /\ p.via = "bot" /\ p.runs < 2
    /\ Valid("bot", t, p.action, p.target, u)
    /\ Spend("bot", t)
    /\ Used(t, p.action, p.target, u)
    /\ SetJob(j, [pc |-> CASE p.action = "site" -> "role"
                           [] p.action = "user" -> "test"
                           [] OTHER -> "delete",
                  action |-> p.action, target |-> p.target, by |-> u])
    /\ UNCHANGED projectVars

\* The role is read again before the deletion.
ReadRole(j) == jobs[j].pc = "role" /\ GoesOnIfManager(j, "delete")

\* Mutated form of Deletes: the DELETE trusts the role that was read before.
DeletesTrusting(job) == job.target \in DOMAIN sites

\* delete_site_by_id() has the filter for managers, admin_delete_site_by_id() none.
Deletes(job) ==
    IF job.action = "site" THEN Manages(job.by, job.target) ELSE job.target \in DOMAIN sites

DeleteSite(j) ==
    /\ jobs[j].pc = "delete"
    /\ sites' = IF Deletes(jobs[j]) THEN Without({jobs[j].target}) ELSE sites
    /\ SetJob(j, NoJob)
    /\ UNCHANGED <<stores, prompts, Members, given, requests>>

HasMembers == \E g \in Guests : role[g] # Null

\* delete_user_data() of the owner: the test for members, whose read-only cursor is
\* released when it is fetched, and then the deletions in one transaction.
TestMembers(j) ==
    /\ jobs[j].pc = "test"
    /\ SetJob(j, IF HasMembers THEN NoJob ELSE [jobs[j] EXCEPT !.pc = "wipe"])
    /\ UNCHANGED <<stores, prompts, projectVars>>

Wipe(j) ==
    /\ jobs[j].pc = "wipe"
    /\ sites' = Without(DOMAIN sites)
    /\ SetJob(j, NoJob)
    /\ UNCHANGED <<stores, prompts, Members, given, requests>>

-----------------------------------------------------------------------------
(* The console: its handlers run on the event loop.                        *)

\* deletion_confirmation(), for a site or for the owner.
ConsoleAsk(action, i) ==
    /\ Show(Prompt("web", action, i, Admin))
    /\ UNCHANGED Rest

\* delete_user(): refused with the confirmation spent when there are members.
ConsoleDeleteUser(t) ==
    /\ prompts[t].runs < 2
    /\ Valid("web", t, "user", 0, Admin)
    /\ Spend("web", t)
    /\ Used(t, "user", 0, Admin)
    /\ sites' = IF HasMembers THEN sites ELSE Without(DOMAIN sites)
    /\ UNCHANGED <<jobs, Members, given, requests>>

\* delete_site(): the form of one site with the confirmation of another is refused.
ConsoleDeleteSite(t, i) ==
    /\ prompts[t].runs < 2
    /\ Valid("web", t, "site", i, Admin)
    /\ Spend("web", t)
    /\ Used(t, "site", i, Admin)
    /\ sites' = Without({i})
    /\ UNCHANGED <<jobs, Members, given, requests>>

\* The process restarts: confirmations, handlers and requests are gone.
Restart ==
    /\ stores' = [s \in Vias |-> {}]
    /\ jobs' = [j \in Jobs |-> NoJob]
    /\ requests' = [r \in Requests |-> Idle]
    /\ UNCHANGED <<prompts, role, invites, sites, given, now, scope>>

-----------------------------------------------------------------------------
ConsoleStep(t) ==
    \/ ConsoleDeleteUser(t)
    \/ \E i \in DOMAIN sites : ConsoleDeleteSite(t, i)
    \/ \E via \in Vias : TakeExpired(via, t)

BotStep(j) ==
    \/ \E u \in Users, i \in DOMAIN sites : AskSite(j, u, i)
    \/ \E i \in DOMAIN sites : AskAsAdmin(j, "admin_site", i)
    \/ AskAsAdmin(j, "user", 0)
    \/ AskRole(j) \/ ShowPrompt(j) \/ ReadRole(j) \/ DeleteSite(j) \/ TestMembers(j) \/ Wipe(j)
    \/ \E t \in DOMAIN prompts, u \in Users \cup {Admin} : PressConfirm(j, t, u)

DeletionStep ==
    \/ \E j \in Jobs : BotStep(j)
    \/ \E t \in DOMAIN prompts : ConsoleStep(t)
    \/ \E t \in DOMAIN prompts, u \in Users \cup {Admin} : PressCancel(t, u)
    \/ \E i \in DOMAIN sites : ConsoleAsk("site", i)
    \/ ConsoleAsk("user", 0)
    \/ \E via \in Vias : Expire(via)
    \/ Restart

Next == (ProjectStep /\ UNCHANGED deletionVars) \/ DeletionStep

Spec == DeletionInit /\ [][Next]_allVars

-----------------------------------------------------------------------------
(* Properties.                                                             *)

Actors == Users \cup {Admin}

Shown == [via : Vias, action : {"site", "admin_site", "user"}, target : Nat,
          actor : Actors, over : BOOLEAN, runs : 0..2, astray : BOOLEAN]

Job == {NoJob} \cup [pc : {"ask", "show", "role", "delete", "test", "wipe"},
                      action : {"site", "admin_site", "user"}, target : Nat, by : Actors]

\* Confirmations in a store were shown through it, and are no more than it may hold; a
\* confirmation or a handler names a site by an id that once existed.
TypeOK ==
    /\ ProjectTypeOK
    /\ prompts \in Seq(Shown)
    /\ stores \in [Vias -> SUBSET DOMAIN prompts]
    /\ \A via \in Vias : Cardinality(stores[via]) <= MaxPending
    /\ \A via \in Vias : \A t \in stores[via] : prompts[t].via = via
    /\ \A t \in DOMAIN prompts : prompts[t].target <= given
    /\ jobs \in [Jobs -> Job]
    /\ \A j \in Jobs : jobs[j].target <= given

\* A confirmation begins one deletion at most, however often and by whom its button
\* is pressed or its form is sent, before or after a restart: the deletion that was
\* shown, of the user it was shown to, within five minutes.
ConfirmedAsShown ==
    \A t \in DOMAIN prompts : prompts[t].runs <= 1 /\ ~prompts[t].astray

\* A member who confirms a deletion and loses the right while the worker threads are
\* at it deletes nothing.
OnlyManagersDelete ==
    [][\A j \in Jobs :
         jobs[j].action = "site" /\ jobs'[j] # jobs[j] /\ sites' # sites
         => RoleOf(jobs[j].by) \in {"owner", "manager"}]_allVars

\* PROJECT_MEMORY.md: "Removing a user with a shared owned project is refused rather
\* than deleting team resources." This does not hold: a member may join between the
\* test and the deletion.
TeamSitesKept ==
    [][\A j \in Jobs : jobs[j].pc = "wipe" /\ sites' # sites => ~HasMembers]_allVars
=============================================================================
