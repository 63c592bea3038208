------------------------------- MODULE Project -------------------------------
(***************************************************************************)
(* One shared project: its members and invites, its sites with their labels,*)
(* pauses and maintenance windows, and the requests of the Mini App and the *)
(* bot that change them.                                                    *)
(*                                                                         *)
(* Handlers run on one event loop.  What a handler does between two awaits  *)
(* is one action; a request that awaits after its first look at the role of *)
(* its sender is kept in requests until it comes back to the database, and  *)
(* by then the member may have been removed.  The project is the personal   *)
(* project of its owner, who shares it.                                     *)
(***************************************************************************)
EXTENDS Naturals, Sequences, FiniteSets, Functions

CONSTANTS
    Owner,          \* projects.owner_user_id, which never changes
    Guests,         \* users who may be invited
    Requests,       \* requests in flight at once
    Urls,           \* targets, a sequence without repetition
    Labels,         \* values of group, tags or check settings (one for all three)
    Windows,        \* maintenance windows <<start, end>> that are asked for
    Null,
    SiteLimit,      \* WEB_APP_MAX_SITES_PER_USER
    MaxSites,       \* bound: sites.id values given out
    Horizon,        \* bound: last instant of the clock
    Scopes          \* bounds of the behaviours considered, see Scope

Users == {Owner} \cup Guests

\* One behaviour sends requests of some kinds, so many at once; its project begins
\* with the first so many targets; so many invites are created in it, and so many
\* confirmations asked for.
Scope == [kinds : SUBSET {"add", "edit", "window", "check", "pause", "remove"},
          atOnce : Nat, sites : Nat, invites : Nat, prompts : Nat]

ProjectAssumption ==
    /\ Owner \notin Guests
    /\ Null \notin Users \cup Range(Urls) \cup Labels \cup {"owner", "manager", "viewer"}
    /\ Urls \in Seq(Range(Urls))
    /\ \A i, j \in DOMAIN Urls : i # j => Urls[i] # Urls[j]
    /\ \A w \in Windows : w \in Nat \X Nat /\ w[1] < w[2]
    /\ {SiteLimit, MaxSites, Horizon} \subseteq Nat
    /\ \A s \in Scopes : s \in Scope /\ s.sites <= Len(Urls) /\ s.sites <= MaxSites

ASSUME ProjectAssumption

VARIABLES
    role,       \* project_members: "viewer", "manager" or Null
    invites,    \* project_invites, in the order of their ids
    sites,      \* the rows of sites: a function on the ids that exist
    given,      \* ids given out so far
    now,        \* the clock, for the windows
    requests,   \* requests between two awaits
    scope       \* the bounds of this behaviour

projectVars == <<role, invites, sites, given, now, requests, scope>>

Roles == {"viewer", "manager"}

NewSite(url) == [url |-> url, paused |-> FALSE, label |-> Null, windows |-> {},
                 checked |-> FALSE]

Idle == [kind |-> "idle", by |-> Owner, site |-> 0, arg |-> Null]

Init ==
    /\ role = [g \in Guests |-> Null]
    /\ invites = <<>>
    /\ scope \in Scopes
    /\ sites = [i \in 1..scope.sites |-> NewSite(Urls[i])]
    /\ given = scope.sites
    /\ now = 0
    /\ requests = [r \in Requests |-> Idle]

-----------------------------------------------------------------------------
(* Access, as the queries of db.py decide it.                              *)

\* get_project_role()
RoleOf(u) == IF u = Owner THEN "owner" ELSE role[u]

\* get_site_role(): a site that is gone gives no role.
SiteRole(i, u) == IF i \in DOMAIN sites THEN RoleOf(u) ELSE Null

\* _site_access(), and _lock_managed_site(): may see the site, may change it.
Sees(u, i) == SiteRole(i, u) # Null
Manages(u, i) == SiteRole(i, u) \in {"owner", "manager"}

HasUrl(url) == \E i \in DOMAIN sites : sites[i].url = url
SiteCount == Cardinality(DOMAIN sites)

-----------------------------------------------------------------------------
(* Members and invites: each handler is one step, as its sender is the owner *)
(* throughout, or as nothing is awaited.                                    *)

CreateInvite(ro) ==
    /\ Len(invites) < scope.invites
    /\ invites' = Append(invites, [role |-> ro, state |-> "open"])
    /\ UNCHANGED <<role, sites, given, now, requests, scope>>

\* revoke_project_invite(), or seven days are over.
CloseInvite(i) ==
    /\ invites[i].state = "open"
    /\ invites' = [invites EXCEPT ![i].state = "closed"]
    /\ UNCHANGED <<role, sites, given, now, requests, scope>>

\* cmd_join_project(): a link that was forwarded may be opened by anyone.
ConsumeInvite(i, g) ==
    /\ invites[i].state = "open"
    /\ role' = [role EXCEPT ![g] = invites[i].role]
    /\ invites' = [invites EXCEPT ![i].state = "used"]
    /\ UNCHANGED <<sites, given, now, requests, scope>>

ChangeRole(g, ro) ==
    /\ role[g] # Null
    /\ role' = [role EXCEPT ![g] = ro]
    /\ UNCHANGED <<invites, sites, given, now, requests, scope>>

RemoveMember(g) ==
    /\ role[g] # Null
    /\ role' = [role EXCEPT ![g] = Null]
    /\ UNCHANGED <<invites, sites, given, now, requests, scope>>

-----------------------------------------------------------------------------
(* Requests that await between their first look at the role and their write.*)

Members == <<role, invites, now, scope>>

Set(r, q) == requests' = [requests EXCEPT ![r] = q]

Free(r) ==
    /\ requests[r] = Idle
    /\ Cardinality({q \in Requests : requests[q] # Idle}) < scope.atOnce

Asked(r, kind, u, i, arg) ==
    /\ kind \in scope.kinds
    /\ Free(r)
    /\ Set(r, [kind |-> kind, by |-> u, site |-> i, arg |-> arg])
    /\ UNCHANGED <<Members, sites, given>>

\* The request ends without a write: a body that is no JSON, a value that is
\* refused, a check that raises.
Abandon(r) ==
    /\ requests[r].kind \in {"edit", "window", "check", "botCheck"}
    /\ Set(r, Idle)
    /\ UNCHANGED <<Members, sites, given>>

Update(i, row) == sites' = [sites EXCEPT ![i] = row]

\* create_site(), or bulk_sites() with several targets, up to the first lookup of
\* a target.
BeginAdd(r, u, targets) ==
    /\ RoleOf(u) \in {"owner", "manager"}
    /\ SiteCount < SiteLimit
    /\ Asked(r, "add", u, 0, targets)

\* What is left of a bulk request: the items that find the project full fail at
\* once.
NextItem(r, count) ==
    LET rest == Tail(requests[r].arg) IN
    Set(r, IF rest = <<>> \/ count >= SiteLimit THEN Idle
           ELSE [requests[r] EXCEPT !.arg = rest])

Insert(url) ==
    /\ given < MaxSites
    /\ given' = given + 1
    /\ sites' = [i \in DOMAIN sites \cup {given + 1} |->
                   IF i = given + 1 THEN NewSite(url) ELSE sites[i]]

\* Mutated form of AddAllowed: the test for a duplicate was made before the lookup.
AddAllowedEarly(u, url) == RoleOf(u) \in {"owner", "manager"}

\* get_site_by_url_in_project(), and the role as add_site_to_project() reads it.
AddAllowed(u, url) == ~HasUrl(url) /\ RoleOf(u) \in {"owner", "manager"}

\* The target resolved: the site is stored, if it may be, and the next item begins.
FinishAdd(r) ==
    LET q == requests[r] IN
    /\ q.kind = "add"
    /\ AddAllowed(q.by, Head(q.arg))
    /\ Insert(Head(q.arg))
    /\ NextItem(r, SiteCount + 1)
    /\ UNCHANGED Members

RefuseAdd(r) ==
    /\ requests[r].kind = "add"
    /\ NextItem(r, SiteCount)
    /\ UNCHANGED <<Members, sites, given>>

\* update_site_group(), update_site_tags(), site_check_settings()
BeginEdit(r, u, i, label) == Manages(u, i) /\ Asked(r, "edit", u, i, label)

\* Mutated form of Relabelled: the UPDATE has no filter for the access.
RelabelledAnyway(u, i, label) ==
    IF i \in DOMAIN sites THEN Update(i, [sites[i] EXCEPT !.label = label])
    ELSE UNCHANGED sites

\* set_site_group_by_id(), set_site_tags_by_id()
Relabelled(u, i, label) ==
    IF Manages(u, i) THEN Update(i, [sites[i] EXCEPT !.label = label])
    ELSE UNCHANGED sites

FinishEdit(r) ==
    LET q == requests[r] IN
    /\ q.kind = "edit"
    /\ Relabelled(q.by, q.site, q.arg)
    /\ Set(r, Idle)
    /\ UNCHANGED <<Members, given>>

-----------------------------------------------------------------------------
(* Maintenance windows.                                                    *)

Overlap(v, w) == v[1] < w[2] /\ w[1] < v[2]

\* Mutated form of Fits: only windows that begin inside the new one are seen.
FitsInside(i, w) == \A v \in sites[i].windows : ~(w[1] <= v[1] /\ v[1] < w[2])

Fits(i, w) == \A v \in sites[i].windows : ~Overlap(v, w)

\* create_maintenance_window(); only windows that are not cancelled are kept.
Schedule(u, i, w) ==
    IF Manages(u, i) /\ Fits(i, w)
    THEN Update(i, [sites[i] EXCEPT !.windows = @ \cup {w}])
    ELSE UNCHANGED sites

BeginWindow(r, u, i, w) == Manages(u, i) /\ Asked(r, "window", u, i, w)

FinishWindow(r) ==
    LET q == requests[r] IN
    /\ q.kind = "window"
    /\ q.arg[2] > now
    /\ Schedule(q.by, q.site, q.arg)
    /\ Set(r, Idle)
    /\ UNCHANGED <<Members, given>>

\* inline_pause_one_hour(): viewers may press it too, and Schedule refuses them.
PauseHour(u, i) ==
    /\ "window" \in scope.kinds
    /\ Sees(u, i)
    /\ Schedule(u, i, <<now, now + 1>>)
    /\ UNCHANGED <<Members, given, requests>>

CancelWindow(u, i, w) ==
    /\ Manages(u, i)
    /\ w \in sites[i].windows
    /\ w[2] > now
    /\ Update(i, [sites[i] EXCEPT !.windows = @ \ {w}])
    /\ UNCHANGED <<Members, given, requests>>

Tick ==
    /\ "window" \in scope.kinds
    /\ now < Horizon
    /\ now' = now + 1
    /\ UNCHANGED <<role, invites, sites, given, requests, scope>>

-----------------------------------------------------------------------------
(* Requests that await nothing after the role is read.                     *)

\* pause_site(), resume_site(), the commands of the bot, and bulk_sites() for
\* several: items whose sender has no right are reported and left alone.
SetPaused(u, S, paused) ==
    /\ "pause" \in scope.kinds
    /\ LET mine == {i \in S : Manages(u, i)} IN
       /\ mine # {}
       /\ sites' = [i \in DOMAIN sites |->
                      IF i \in mine THEN [sites[i] EXCEPT !.paused = paused] ELSE sites[i]]
    /\ UNCHANGED <<Members, given, requests>>

Without(S) == Restrict(sites, DOMAIN sites \ S)

\* delete_site() of the Mini App.
RemoveSite(u, i) ==
    /\ "remove" \in scope.kinds
    /\ Manages(u, i)
    /\ sites' = Without({i})
    /\ UNCHANGED <<Members, given, requests>>

\* The owner blocked the bot: delete_user_sites() leaves the sites of a project
\* that has members.
OwnerBlocksBot ==
    /\ "remove" \in scope.kinds
    /\ \A g \in Guests : role[g] = Null
    /\ sites' = Without(DOMAIN sites)
    /\ UNCHANGED <<Members, given, requests>>

-----------------------------------------------------------------------------
(* Manual checks.                                                          *)

\* check_site(): _check_locks holds the site until the request ends.
BeginCheck(r, u, i) ==
    /\ Manages(u, i)
    /\ \A q \in Requests : ~(requests[q].kind = "check" /\ requests[q].site = i)
    /\ Asked(r, "check", u, i, Null)

FinishCheck(r) ==
    LET q == requests[r] IN
    /\ q.kind = "check"
    /\ IF Manages(q.by, q.site)
       THEN Update(q.site, [sites[q.site] EXCEPT !.checked = TRUE])
       ELSE UNCHANGED sites
    /\ Set(r, Idle)
    /\ UNCHANGED <<Members, given>>

\* inline_check_now(): whoever sees the site, and without the lock.
BeginBotCheck(r, u, i) ==
    /\ "check" \in scope.kinds
    /\ Free(r)
    /\ Sees(u, i)
    /\ Set(r, [kind |-> "botCheck", by |-> u, site |-> i, arg |-> Null])
    /\ UNCHANGED <<Members, sites, given>>

\* process_site_input(): the owner sends a target to the bot, which stores it
\* without a look at the limit and then checks it.
BotAdd(r, url) ==
    /\ "add" \in scope.kinds
    /\ Free(r)
    /\ ~HasUrl(url)
    /\ Insert(url)
    /\ Set(r, [kind |-> "botCheck", by |-> Owner, site |-> given + 1, arg |-> Null])
    /\ UNCHANGED Members

\* send_status_report()
FinishBotCheck(r) ==
    LET q == requests[r] IN
    /\ q.kind = "botCheck"
    /\ IF q.site \in DOMAIN sites
       THEN Update(q.site, [sites[q.site] EXCEPT !.checked = TRUE])
       ELSE UNCHANGED sites
    /\ Set(r, Idle)
    /\ UNCHANGED <<Members, given>>

-----------------------------------------------------------------------------
Targets == {<<u>> : u \in Range(Urls)} \cup (Range(Urls) \X Range(Urls))

MemberStep ==
    \/ \E ro \in Roles : CreateInvite(ro)
    \/ \E i \in DOMAIN invites : CloseInvite(i)
    \/ \E i \in DOMAIN invites, g \in Guests : ConsumeInvite(i, g)
    \/ \E g \in Guests, ro \in Roles : ChangeRole(g, ro)
    \/ \E g \in Guests : RemoveMember(g)

SiteStep(u, i) ==
    \/ \E r \in Requests : BeginCheck(r, u, i) \/ BeginBotCheck(r, u, i)
    \/ \E r \in Requests, label \in Labels : BeginEdit(r, u, i, label)
    \/ \E r \in Requests, w \in Windows : BeginWindow(r, u, i, w)
    \/ \E w \in sites[i].windows : CancelWindow(u, i, w)
    \/ PauseHour(u, i)
    \/ RemoveSite(u, i)

RequestStep(r) ==
    \/ \E u \in Users, targets \in Targets : BeginAdd(r, u, targets)
    \/ \E url \in Range(Urls) : BotAdd(r, url)
    \/ FinishAdd(r) \/ RefuseAdd(r) \/ FinishEdit(r) \/ FinishWindow(r)
    \/ FinishCheck(r) \/ FinishBotCheck(r) \/ Abandon(r)

ProjectStep ==
    \/ MemberStep
    \/ \E u \in Users, i \in DOMAIN sites : SiteStep(u, i)
    \/ \E r \in Requests : RequestStep(r)
    \/ \E u \in Users, S \in SUBSET DOMAIN sites, paused \in BOOLEAN : SetPaused(u, S, paused)
    \/ OwnerBlocksBot
    \/ Tick

ProjectSpec == Init /\ [][ProjectStep]_projectVars

-----------------------------------------------------------------------------
(* Properties.                                                             *)

SiteRow == [url : Range(Urls), paused : BOOLEAN, label : Labels \cup {Null},
            windows : SUBSET (Nat \X Nat), checked : BOOLEAN]

Invite == [role : Roles, state : {"open", "used", "closed"}]

Args(kind) ==
    CASE kind = "add" -> Targets
      [] kind = "edit" -> Labels
      [] kind = "window" -> Windows
      [] OTHER -> {Null}

\* Ids are given out once and rows exist only under ids that were given out; a
\* request names a site by an id that once existed.
ProjectTypeOK ==
    /\ role \in [Guests -> Roles \cup {Null}]
    /\ invites \in Seq(Invite)
    /\ given \in 0..MaxSites /\ now \in 0..Horizon /\ scope \in Scopes
    /\ sites \in [DOMAIN sites -> SiteRow] /\ DOMAIN sites \subseteq 1..given
    /\ DOMAIN requests = Requests
    /\ \A r \in Requests :
         LET q == requests[r] IN
         /\ q.kind \in {"idle", "add", "edit", "window", "check", "botCheck"}
         /\ q = [kind |-> q.kind, by |-> q.by, site |-> q.site, arg |-> q.arg]
         /\ q.by \in Users /\ q.site \in 0..given /\ q.arg \in Args(q.kind)

\* Members are removed and demoted while their requests wait for a body, a lookup
\* or a check.  When such a request ends, it changes the sites of the project only
\* if its sender is still the owner or a manager (README: "viewers" may not
\* change); a check started from a chat is open to viewers.
RightsHeldAtWrite ==
    [][\A r \in Requests :
         /\ requests[r].kind \notin {"idle", "botCheck"}
         /\ requests'[r] # requests[r]
         /\ sites' # sites
         => RoleOf(requests[r].by) \in {"owner", "manager"}]_projectVars

\* However single and bulk requests and the chat race with each other's lookups, a
\* target is in the project once.
UrlsDistinct ==
    \A i, j \in DOMAIN sites : i # j => sites[i].url # sites[j].url

\* The windows of one site that are not cancelled never overlap, whether planned
\* in the Mini App or set by the button of an alert.
WindowsDisjoint ==
    \A i \in DOMAIN sites : \A v, w \in sites[i].windows : v # w => ~Overlap(v, w)

=============================================================================
