---------------------------- MODULE Deletion_proof ----------------------------
(* Theorems about Project and Deletion, for any members, requests, targets, windows *)
(* and confirmations, and any bounds of the behaviours.                            *)
EXTENDS Deletion, FiniteSetTheorems, WellFoundedInduction, TLAPS

-----------------------------------------------------------------------------
(* The sites: every step keeps some of them, adds one or adds a window to one. *)

SitesInv ==
    /\ given \in Nat /\ DOMAIN sites \subseteq 1..given
    /\ \A i \in DOMAIN sites : {"url", "windows"} \subseteq DOMAIN sites[i]
    /\ UrlsDistinct
    /\ WindowsDisjoint

LEMMA SitesInit == DeletionInit => SitesInv
  <1> SUFFICES ASSUME DeletionInit PROVE SitesInv
    OBVIOUS
  <1> DEFINE n == scope.sites
  <1>1. /\ Urls \in Seq(Range(Urls))
        /\ \A i, j \in DOMAIN Urls : i # j => Urls[i] # Urls[j]
        /\ n \in Nat /\ n <= Len(Urls)
    BY ProjectAssumption DEF ProjectAssumption, DeletionInit, Init, Scope
  <1>2. given = n /\ sites = [i \in 1..n |-> NewSite(Urls[i])]
    BY DEF DeletionInit, Init
  <1> HIDE DEF n
  <1>3. /\ DOMAIN sites = 1..n
        /\ \A i \in DOMAIN sites : /\ sites[i].url = Urls[i] /\ sites[i].windows = {}
                                   /\ {"url", "windows"} \subseteq DOMAIN sites[i]
    BY <1>2 DEF NewSite
  <1>4. 1..n \subseteq DOMAIN Urls
    BY <1>1
  <1>5. UrlsDistinct
    BY <1>1, <1>3, <1>4 DEF UrlsDistinct
  <1>6. WindowsDisjoint
    BY <1>3 DEF WindowsDisjoint
  <1> QED
    BY <1>1, <1>2, <1>3, <1>5, <1>6 DEF SitesInv

\* Who manages a site has a right in the project, and the site is there.
LEMMA Managers ==
    ASSUME NEW u, NEW i, Manages(u, i)
    PROVE  i \in DOMAIN sites /\ RoleOf(u) \in {"owner", "manager"}
  <1>1. Null \notin {"owner", "manager"}
    BY ProjectAssumption DEF ProjectAssumption
  <1> QED
    BY <1>1 DEF Manages, SiteRole

\* Sites keep their targets, and go or lose windows.
LEMMA Fewer ==
    ASSUME SitesInv, UNCHANGED given,
           \A i \in DOMAIN sites' :
             /\ i \in DOMAIN sites /\ {"url", "windows"} \subseteq DOMAIN sites'[i]
             /\ sites'[i].url = sites[i].url /\ sites'[i].windows \subseteq sites[i].windows
    PROVE  SitesInv'
  BY DEF SitesInv, UrlsDistinct, WindowsDisjoint

LEMMA Same == SitesInv /\ UNCHANGED <<sites, given>> => SitesInv'
  BY DEF SitesInv, UrlsDistinct, WindowsDisjoint

LEMMA Inserted ==
    ASSUME SitesInv, NEW url, ~HasUrl(url), Insert(url)
    PROVE  SitesInv'
  <1> DEFINE n == given + 1
  <1>1. given' = n /\ n \in Nat /\ n \notin DOMAIN sites /\ DOMAIN sites \subseteq 1..n
    BY DEF SitesInv, Insert
  <1>2. sites' = [i \in DOMAIN sites \cup {n} |-> IF i = n THEN NewSite(url) ELSE sites[i]]
    BY DEF Insert
  <1>3. n \in 1..n
    BY <1>1 DEF SitesInv
  <1> HIDE DEF n
  <1>4. /\ sites'[n].url = url /\ sites'[n].windows = {}
        /\ {"url", "windows"} \subseteq DOMAIN sites'[n]
    BY <1>2 DEF NewSite
  <1>5. DOMAIN sites' = DOMAIN sites \cup {n}
        /\ \A i \in DOMAIN sites : sites'[i] = sites[i]
    BY <1>1, <1>2
  <1>6. \A i \in DOMAIN sites : sites[i].url # url
    BY DEF HasUrl
  <1>7. UrlsDistinct'
    BY <1>4, <1>5, <1>6 DEF SitesInv, UrlsDistinct
  <1>8. WindowsDisjoint'
    BY <1>4, <1>5 DEF SitesInv, WindowsDisjoint
  <1> QED
    BY <1>1, <1>3, <1>4, <1>5, <1>7, <1>8 DEF SitesInv

LEMMA Scheduled ==
    ASSUME SitesInv, NEW u, NEW i, NEW w, Schedule(u, i, w), UNCHANGED given
    PROVE  SitesInv'
  <1>1. CASE Manages(u, i) /\ Fits(i, w)
    <2> DEFINE row == [sites[i] EXCEPT !.windows = @ \cup {w}]
    <2>1. i \in DOMAIN sites
      BY <1>1, Managers
    <2>2. sites' = [sites EXCEPT ![i] = row]
      BY <1>1 DEF Schedule, Update
    <2>3. /\ {"url", "windows"} \subseteq DOMAIN row /\ row.url = sites[i].url
          /\ row.windows = sites[i].windows \cup {w}
      BY <2>1 DEF SitesInv
    <2> HIDE DEF row
    <2>4. /\ DOMAIN sites' = DOMAIN sites /\ sites'[i] = row
          /\ \A k \in DOMAIN sites : k # i => sites'[k] = sites[k]
      BY <2>1, <2>2
    <2>5. UrlsDistinct'
      BY <2>1, <2>3, <2>4 DEF SitesInv, UrlsDistinct
    <2>6. WindowsDisjoint'
      BY <1>1, <2>1, <2>3, <2>4 DEF SitesInv, WindowsDisjoint, Fits, Overlap
    <2> QED
      BY <2>3, <2>4, <2>5, <2>6 DEF SitesInv
  <1>2. CASE ~(Manages(u, i) /\ Fits(i, w))
    BY <1>2, Same DEF Schedule
  <1> QED
    BY <1>1, <1>2

\* One site has other columns written, or loses windows.
LEMMA Updated ==
    ASSUME SitesInv, UNCHANGED given, NEW i \in DOMAIN sites, NEW row, Update(i, row),
           {"url", "windows"} \subseteq DOMAIN row,
           row.url = sites[i].url, row.windows \subseteq sites[i].windows
    PROVE  SitesInv'
  BY Fewer DEF SitesInv, Update

LEMMA Removed ==
    ASSUME SitesInv, UNCHANGED given, NEW S, sites' = Without(S)
    PROVE  SitesInv'
  BY Fewer DEF SitesInv, Without, Restrict

LEMMA EditSites ==
    ASSUME SitesInv, NEW r \in Requests, FinishEdit(r)
    PROVE  SitesInv'
  <1> DEFINE i == requests[r].site
             row == [sites[i] EXCEPT !.label = requests[r].arg]
  <1>1. UNCHANGED given /\ IF Manages(requests[r].by, i) THEN Update(i, row) ELSE UNCHANGED sites
    BY DEF FinishEdit, Relabelled
  <1>2. CASE Manages(requests[r].by, i)
    <2>1. i \in DOMAIN sites
      BY <1>2, Managers
    <2>2. /\ {"url", "windows"} \subseteq DOMAIN row
          /\ row.url = sites[i].url /\ row.windows = sites[i].windows
      BY <2>1 DEF SitesInv
    <2> HIDE DEF i, row
    <2> QED
      BY <1>1, <1>2, <2>1, <2>2, Updated
  <1>3. CASE ~Manages(requests[r].by, i)
    BY <1>1, <1>3, Same
  <1> QED
    BY <1>2, <1>3

LEMMA CheckSites ==
    ASSUME SitesInv, NEW r \in Requests, FinishCheck(r) \/ FinishBotCheck(r)
    PROVE  SitesInv'
  <1> DEFINE i == requests[r].site
             row == [sites[i] EXCEPT !.checked = TRUE]
  <1>1. UNCHANGED given /\ (UNCHANGED sites \/ (i \in DOMAIN sites /\ Update(i, row)))
    BY Managers DEF FinishCheck, FinishBotCheck
  <1>2. CASE UNCHANGED sites
    BY <1>1, <1>2, Same
  <1>3. CASE i \in DOMAIN sites /\ Update(i, row)
    <2>1. /\ {"url", "windows"} \subseteq DOMAIN row
          /\ row.url = sites[i].url /\ row.windows = sites[i].windows
      BY <1>3 DEF SitesInv
    <2> HIDE DEF i, row
    <2> QED
      BY <1>1, <1>3, <2>1, Updated
  <1> QED
    BY <1>1, <1>2, <1>3

LEMMA CancelSites ==
    ASSUME SitesInv, NEW u, NEW i \in DOMAIN sites, NEW w, CancelWindow(u, i, w)
    PROVE  SitesInv'
  <1> DEFINE row == [sites[i] EXCEPT !.windows = @ \ {w}]
  <1>1. /\ {"url", "windows"} \subseteq DOMAIN row
        /\ row.url = sites[i].url /\ row.windows \subseteq sites[i].windows
    BY DEF SitesInv
  <1>2. Update(i, row) /\ UNCHANGED given
    BY DEF CancelWindow
  <1> HIDE DEF row
  <1> QED
    BY <1>1, <1>2, Updated

LEMMA PauseSites ==
    ASSUME SitesInv, NEW u, NEW S, NEW paused, SetPaused(u, S, paused)
    PROVE  SitesInv'
  <1>1. /\ UNCHANGED given /\ DOMAIN sites' = DOMAIN sites
        /\ \A i \in DOMAIN sites :
             \/ sites'[i] = sites[i]
             \/ sites'[i] = [sites[i] EXCEPT !.paused = paused]
    BY DEF SetPaused
  <1>2. \A i \in DOMAIN sites :
          /\ {"url", "windows"} \subseteq DOMAIN sites'[i]
          /\ sites'[i].url = sites[i].url /\ sites'[i].windows = sites[i].windows
    BY <1>1 DEF SitesInv
  <1> QED
    BY <1>1, <1>2, Fewer

-----------------------------------------------------------------------------
(* The steps.                                                              *)

LEMMA RequestSites ==
    ASSUME SitesInv, NEW r \in Requests, RequestStep(r)
    PROVE  SitesInv'
  <1>1. CASE \E u \in Users, targets \in Targets : BeginAdd(r, u, targets)
    BY <1>1, Same DEF BeginAdd, Asked
  <1>2. CASE \E url \in Range(Urls) : BotAdd(r, url)
    BY <1>2, Inserted DEF BotAdd
  <1>3. CASE FinishAdd(r)
    BY <1>3, Inserted DEF FinishAdd, AddAllowed
  <1>4. CASE RefuseAdd(r) \/ Abandon(r)
    BY <1>4, Same DEF RefuseAdd, Abandon
  <1>5. CASE FinishEdit(r)
    BY <1>5, EditSites
  <1>6. CASE FinishWindow(r)
    BY <1>6, Scheduled DEF FinishWindow
  <1>7. CASE FinishCheck(r) \/ FinishBotCheck(r)
    BY <1>7, CheckSites
  <1> QED
    BY <1>1, <1>2, <1>3, <1>4, <1>5, <1>6, <1>7 DEF RequestStep

LEMMA SiteSites ==
    ASSUME SitesInv, NEW u \in Users, NEW i \in DOMAIN sites, SiteStep(u, i)
    PROVE  SitesInv'
  <1>1. CASE \/ \E r \in Requests : BeginCheck(r, u, i) \/ BeginBotCheck(r, u, i)
             \/ \E r \in Requests, label \in Labels : BeginEdit(r, u, i, label)
             \/ \E r \in Requests, w \in Windows : BeginWindow(r, u, i, w)
    BY <1>1, Same DEF BeginCheck, BeginBotCheck, BeginEdit, BeginWindow, Asked
  <1>2. CASE \E w \in sites[i].windows : CancelWindow(u, i, w)
    BY <1>2, CancelSites
  <1>3. CASE PauseHour(u, i)
    BY <1>3, Scheduled DEF PauseHour
  <1>4. CASE RemoveSite(u, i)
    BY <1>4, Removed DEF RemoveSite
  <1> QED
    BY <1>1, <1>2, <1>3, <1>4 DEF SiteStep

LEMMA ProjectSites == SitesInv /\ ProjectStep => SitesInv'
  <1> SUFFICES ASSUME SitesInv, ProjectStep PROVE SitesInv'
    OBVIOUS
  <1>1. CASE MemberStep
    BY <1>1, Same DEF MemberStep, CreateInvite, CloseInvite, ConsumeInvite, ChangeRole,
                      RemoveMember
  <1>2. CASE OwnerBlocksBot
    BY <1>2, Removed DEF OwnerBlocksBot
  <1>3. CASE Tick
    BY <1>3, Same DEF Tick
  <1> QED
    BY <1>1, <1>2, <1>3, SiteSites, RequestSites, PauseSites DEF ProjectStep

LEMMA BotSites ==
    ASSUME SitesInv, NEW j \in Jobs, BotStep(j)
    PROVE  SitesInv'
  <1>1. CASE DeleteSite(j)
    BY <1>1, Removed, Same DEF DeleteSite
  <1>2. CASE Wipe(j)
    BY <1>2, Removed DEF Wipe
  <1>3. CASE UNCHANGED projectVars
    BY <1>3, Same DEF projectVars
  <1> QED
    BY <1>1, <1>2, <1>3 DEF BotStep, AskSite, AskRole, GoesOnIfManager, AskAsAdmin, ShowPrompt,
                            ReadRole, TestMembers, PressConfirm

LEMMA SitesStep == SitesInv /\ [Next]_allVars => SitesInv'
  <1> SUFFICES ASSUME SitesInv, [Next]_allVars PROVE SitesInv'
    OBVIOUS
  <1>1. CASE UNCHANGED projectVars
    BY <1>1, Same DEF projectVars
  <1>2. CASE ProjectStep
    BY <1>2, ProjectSites
  <1>3. CASE \E j \in Jobs : BotStep(j)
    BY <1>3, BotSites
  <1>4. ASSUME NEW t, ConsoleStep(t) PROVE SitesInv'
    <2>1. CASE ConsoleDeleteUser(t)
      BY <2>1, Removed, Same DEF ConsoleDeleteUser
    <2>2. CASE \E i \in DOMAIN sites : ConsoleDeleteSite(t, i)
      BY <2>2, Removed DEF ConsoleDeleteSite
    <2>3. CASE \E via \in Vias : TakeExpired(via, t)
      BY <2>3, <1>1 DEF TakeExpired, Rest
    <2> QED
      BY <1>4, <2>1, <2>2, <2>3 DEF ConsoleStep
  <1>5. CASE Restart
    BY <1>5, Same DEF Restart
  <1>6. ASSUME NEW t, NEW u, PressCancel(t, u) PROVE SitesInv'
    BY <1>1, <1>6 DEF PressCancel, Rest
  <1>7. ASSUME NEW action, NEW i, ConsoleAsk(action, i) PROVE SitesInv'
    BY <1>1, <1>7 DEF ConsoleAsk, Rest
  <1>8. ASSUME NEW via, Expire(via) PROVE SitesInv'
    BY <1>1, <1>8 DEF Expire, Rest
  <1> QED
    BY <1>1, <1>2, <1>3, <1>4, <1>5, <1>6, <1>7, <1>8 DEF Next, DeletionStep, allVars

\* However requests race with each other's lookups and with deletions, a target is in
\* the project once (create_site(), bulk_sites(), process_site_input()).
THEOREM TargetsDistinct == Spec => []UrlsDistinct
  <1>1. SitesInv => UrlsDistinct
    BY DEF SitesInv
  <1> QED
    BY <1>1, SitesInit, SitesStep, PTL DEF Spec

\* Windows of one site never overlap, whatever is planned, cancelled or set from an alert
\* while others wait (create_maintenance_window()).
THEOREM WindowsApart == Spec => []WindowsDisjoint
  <1>1. SitesInv => WindowsDisjoint
    BY DEF SitesInv
  <1> QED
    BY <1>1, SitesInit, SitesStep, PTL DEF Spec

-----------------------------------------------------------------------------
(* The rights: what a handler that waited does to the sites.                *)

\* The test for members is made for the owner's data only.
IsEntry(job) ==
    /\ {"pc", "action", "by"} \subseteq DOMAIN job
    /\ job.pc \in {"test", "wipe"} => job.action = "user"

\* Each handler has its entry.
HandlersInv ==
    /\ DOMAIN requests = Requests
    /\ DOMAIN jobs = Jobs
    /\ \A j \in Jobs : IsEntry(jobs[j])

LEMMA HandlersInit == DeletionInit => HandlersInv
  BY DEF DeletionInit, Init, NoJob, HandlersInv, IsEntry

LEMMA RequestsKept ==
    ASSUME HandlersInv, ProjectStep
    PROVE  DOMAIN requests' = Requests
  <1>1. CASE \E r \in Requests : \E q : Set(r, q)
    BY <1>1 DEF HandlersInv, Set
  <1>2. CASE UNCHANGED requests
    BY <1>2 DEF HandlersInv
  <1>3. ASSUME NEW r \in Requests, NEW kind, NEW u, NEW i, NEW arg, Asked(r, kind, u, i, arg)
        PROVE  DOMAIN requests' = Requests
    BY <1>1, <1>3 DEF Asked
  <1>4. ASSUME NEW r \in Requests, RequestStep(r) PROVE DOMAIN requests' = Requests
    BY <1>1, <1>3, <1>4 DEF RequestStep, BeginAdd, BotAdd, FinishAdd, RefuseAdd, NextItem,
         FinishEdit, FinishWindow, FinishCheck, FinishBotCheck, Abandon
  <1>5. ASSUME NEW u \in Users, NEW i \in DOMAIN sites, SiteStep(u, i)
        PROVE  DOMAIN requests' = Requests
    BY <1>1, <1>2, <1>3, <1>5 DEF SiteStep, BeginCheck, BeginBotCheck, BeginEdit,
         BeginWindow, CancelWindow, PauseHour, RemoveSite
  <1>6. CASE MemberStep
    BY <1>2, <1>6 DEF MemberStep, CreateInvite, CloseInvite, ConsumeInvite, ChangeRole,
                      RemoveMember
  <1>7. CASE OwnerBlocksBot \/ Tick
    BY <1>2, <1>7 DEF OwnerBlocksBot, Tick
  <1>8. ASSUME NEW u, NEW S, NEW paused, SetPaused(u, S, paused)
        PROVE  DOMAIN requests' = Requests
    BY <1>2, <1>8 DEF SetPaused
  <1> QED
    BY <1>4, <1>5, <1>6, <1>7, <1>8 DEF ProjectStep

\* A step of a handler of the bot gives that handler an entry of the right kind.
LEMMA JobStep ==
    ASSUME HandlersInv, NEW j \in Jobs, BotStep(j)
    PROVE  HandlersInv'
  <1>1. UNCHANGED requests
    BY DEF BotStep, AskSite, AskRole, GoesOnIfManager, AskAsAdmin, ShowPrompt, PressConfirm,
           ReadRole, DeleteSite, TestMembers, Wipe, projectVars
  <1>2. ASSUME NEW job, SetJob(j, job), IsEntry(job) PROVE HandlersInv'
    BY <1>1, <1>2 DEF SetJob, HandlersInv
  <1>3. IsEntry(NoJob)
    BY DEF NoJob, IsEntry
  <1>4. ASSUME NEW action, NEW i, AskAsAdmin(j, action, i) PROVE HandlersInv'
    BY <1>2, <1>4 DEF AskAsAdmin, IsEntry
  <1>5. ASSUME NEW u, NEW i, AskSite(j, u, i) PROVE HandlersInv'
    BY <1>2, <1>5 DEF AskSite, IsEntry
  <1>6. CASE ShowPrompt(j) \/ DeleteSite(j) \/ Wipe(j)
    BY <1>2, <1>3, <1>6 DEF ShowPrompt, DeleteSite, Wipe
  <1>7. ASSUME NEW t, NEW u, PressConfirm(j, t, u) PROVE HandlersInv'
    <2> DEFINE p == prompts[t]
               place == CASE p.action = "site" -> "role"
                          [] p.action = "user" -> "test"
                          [] OTHER -> "delete"
    <2>1. SetJob(j, [pc |-> place, action |-> p.action, target |-> p.target, by |-> u])
      BY <1>7 DEF PressConfirm
    <2>2. place \in {"test", "wipe"} => p.action = "user"
      OBVIOUS
    <2> HIDE DEF place, p
    <2> QED
      BY <1>2, <2>1, <2>2 DEF IsEntry
  <1>8. CASE AskRole(j) \/ ReadRole(j)
    <2>1. IsEntry([jobs[j] EXCEPT !.pc = "show"]) /\ IsEntry([jobs[j] EXCEPT !.pc = "delete"])
      BY DEF HandlersInv, IsEntry
    <2> QED
      BY <1>2, <1>3, <1>8, <2>1 DEF AskRole, ReadRole, GoesOnIfManager
  <1>9. CASE TestMembers(j)
    <2>1. IsEntry([jobs[j] EXCEPT !.pc = "wipe"])
      BY <1>9 DEF TestMembers, HandlersInv, IsEntry
    <2> QED
      BY <1>2, <1>3, <1>9, <2>1 DEF TestMembers
  <1> QED
    BY <1>4, <1>5, <1>6, <1>7, <1>8, <1>9 DEF BotStep

LEMMA HandlersStep == HandlersInv /\ [Next]_allVars => HandlersInv'
  <1> SUFFICES ASSUME HandlersInv, [Next]_allVars PROVE HandlersInv'
    OBVIOUS
  <1>1. CASE UNCHANGED <<requests, jobs>>
    BY <1>1 DEF HandlersInv
  <1>2. CASE ProjectStep /\ UNCHANGED deletionVars
    BY <1>2, RequestsKept DEF HandlersInv, deletionVars
  <1>3. CASE \E j \in Jobs : BotStep(j)
    BY <1>3, JobStep
  <1>4. CASE Restart
    BY <1>4 DEF Restart, HandlersInv, IsEntry, NoJob
  <1>5. ASSUME NEW t, ConsoleStep(t) PROVE UNCHANGED <<requests, jobs>>
    BY <1>5 DEF ConsoleStep, ConsoleDeleteUser, ConsoleDeleteSite, TakeExpired, Rest, projectVars
  <1>6. ASSUME NEW t, NEW u, PressCancel(t, u) PROVE UNCHANGED <<requests, jobs>>
    BY <1>6 DEF PressCancel, Rest, projectVars
  <1>7. ASSUME NEW action, NEW i, ConsoleAsk(action, i) PROVE UNCHANGED <<requests, jobs>>
    BY <1>7 DEF ConsoleAsk, Rest, projectVars
  <1>8. ASSUME NEW via, Expire(via) PROVE UNCHANGED <<requests, jobs>>
    BY <1>8 DEF Expire, Rest, projectVars
  <1> QED
    BY <1>1, <1>2, <1>3, <1>4, <1>5, <1>6, <1>7, <1>8 DEF Next, DeletionStep, allVars,
       deletionVars, projectVars

LEMMA HandlersAlways == Spec => []HandlersInv
  <1> QED
    BY HandlersInit, HandlersStep, PTL DEF Spec

\* What a request may do when it ends.
RequestAllowed(r) ==
    /\ requests[r].kind \notin {"idle", "botCheck"}
    /\ requests'[r] # requests[r]
    /\ sites' # sites
    => RoleOf(requests[r].by) \in {"owner", "manager"}

LEMMA RequestRights ==
    ASSUME HandlersInv, [Next]_allVars, NEW r \in Requests
    PROVE  RequestAllowed(r)
  <1>1. CASE UNCHANGED sites \/ UNCHANGED requests
    BY <1>1 DEF RequestAllowed
  <1>2. ASSUME NEW q \in Requests, RequestStep(q) PROVE RequestAllowed(r)
    <2>1. CASE UNCHANGED sites
      BY <1>1, <2>1
    <2>2. ASSUME NEW value, Set(q, value), q # r PROVE RequestAllowed(r)
      BY <2>2 DEF Set, HandlersInv, RequestAllowed
    <2>3. CASE FinishAdd(q)
      BY <2>2, <2>3 DEF FinishAdd, AddAllowed, NextItem, RequestAllowed
    <2>4. CASE FinishEdit(q)
      BY <2>2, <2>4, Managers DEF FinishEdit, Relabelled, RequestAllowed
    <2>5. CASE FinishWindow(q)
      BY <2>2, <2>5, Managers DEF FinishWindow, Schedule, RequestAllowed
    <2>6. CASE FinishCheck(q)
      BY <2>2, <2>6, Managers DEF FinishCheck, RequestAllowed
    <2>7. CASE FinishBotCheck(q)
      BY <2>2, <2>7 DEF FinishBotCheck, RequestAllowed
    <2>8. ASSUME NEW url, BotAdd(q, url) PROVE RequestAllowed(r)
      BY <2>2, <2>8 DEF BotAdd, Free, Idle, RequestAllowed
    <2> QED
      BY <1>2, <2>1, <2>3, <2>4, <2>5, <2>6, <2>7, <2>8 DEF RequestStep, BeginAdd, Asked,
         RefuseAdd, Abandon
  <1>3. ASSUME NEW u \in Users, NEW i \in DOMAIN sites, SiteStep(u, i)
        PROVE  UNCHANGED sites \/ UNCHANGED requests
    BY <1>3 DEF SiteStep, BeginCheck, BeginBotCheck, BeginEdit, BeginWindow, Asked,
       CancelWindow, PauseHour, RemoveSite
  <1>4. CASE MemberStep
    BY <1>1, <1>4 DEF MemberStep, CreateInvite, CloseInvite, ConsumeInvite, ChangeRole,
                      RemoveMember
  <1>5. ASSUME NEW u, NEW S, NEW paused, SetPaused(u, S, paused) PROVE UNCHANGED requests
    BY <1>5 DEF SetPaused
  <1>6. CASE OwnerBlocksBot \/ Tick
    BY <1>1, <1>6 DEF OwnerBlocksBot, Tick
  <1>7. CASE ProjectStep
    BY <1>1, <1>2, <1>3, <1>4, <1>5, <1>6, <1>7 DEF ProjectStep
  <1>8. ASSUME NEW j \in Jobs, BotStep(j) PROVE UNCHANGED requests
    BY <1>8 DEF BotStep, AskSite, AskRole, GoesOnIfManager, AskAsAdmin, ShowPrompt,
       PressConfirm, ReadRole, DeleteSite, TestMembers, Wipe, projectVars
  <1>9. ASSUME NEW t, ConsoleStep(t) PROVE UNCHANGED requests
    BY <1>9 DEF ConsoleStep, ConsoleDeleteUser, ConsoleDeleteSite, TakeExpired, Rest, projectVars
  <1>10. ASSUME NEW t, NEW u, PressCancel(t, u) PROVE UNCHANGED requests
    BY <1>10 DEF PressCancel, Rest, projectVars
  <1>11. ASSUME NEW action, NEW i, ConsoleAsk(action, i) PROVE UNCHANGED requests
    BY <1>11 DEF ConsoleAsk, Rest, projectVars
  <1>12. ASSUME NEW via, Expire(via) PROVE UNCHANGED requests
    BY <1>12 DEF Expire, Rest, projectVars
  <1>13. CASE Restart
    BY <1>1, <1>13 DEF Restart
  <1>14. CASE UNCHANGED allVars
    BY <1>1, <1>14 DEF allVars, projectVars
  <1> QED
    BY <1>1, <1>7, <1>8, <1>9, <1>10, <1>11, <1>12, <1>13, <1>14 DEF Next, DeletionStep

\* A request that waited changes the sites only if its sender is still the owner or a
\* manager: each write looks at the role again.
THEOREM RightsHold == Spec => RightsHeldAtWrite
  <1>1. HandlersInv /\ [Next]_allVars =>
          [\A r \in Requests :
             /\ requests[r].kind \notin {"idle", "botCheck"}
             /\ requests'[r] # requests[r]
             /\ sites' # sites
             => RoleOf(requests[r].by) \in {"owner", "manager"}]_projectVars
    BY RequestRights DEF RequestAllowed
  <1> QED
    BY <1>1, HandlersAlways, PTL DEF Spec, RightsHeldAtWrite

\* What a handler of the bot may do when it goes on.
JobAllowed(j) ==
    jobs[j].action = "site" /\ jobs'[j] # jobs[j] /\ sites' # sites
    => RoleOf(jobs[j].by) \in {"owner", "manager"}

LEMMA JobRights ==
    ASSUME HandlersInv, [Next]_allVars, NEW j \in Jobs
    PROVE  JobAllowed(j)
  <1>1. CASE UNCHANGED sites \/ UNCHANGED jobs
    BY <1>1 DEF JobAllowed
  <1>2. CASE ProjectStep /\ UNCHANGED deletionVars
    BY <1>1, <1>2 DEF deletionVars
  <1>3. ASSUME NEW k \in Jobs, DeleteSite(k) PROVE JobAllowed(j)
    <2>1. CASE k # j
      BY <1>3, <2>1 DEF DeleteSite, SetJob, HandlersInv, JobAllowed
    <2>2. CASE k = j
      BY <1>1, <1>3, <2>2, Managers DEF DeleteSite, Deletes, JobAllowed
    <2> QED
      BY <2>1, <2>2
  <1>4. ASSUME NEW k \in Jobs, Wipe(k) PROVE JobAllowed(j)
    <2>1. CASE k # j
      BY <1>4, <2>1 DEF Wipe, SetJob, HandlersInv, JobAllowed
    <2>2. CASE k = j
      BY <1>4, <2>2 DEF Wipe, HandlersInv, IsEntry, JobAllowed
    <2> QED
      BY <2>1, <2>2
  <1>5. ASSUME NEW k \in Jobs, BotStep(k) PROVE JobAllowed(j)
    BY <1>1, <1>3, <1>4, <1>5 DEF BotStep, AskSite, AskRole, GoesOnIfManager, AskAsAdmin,
       ShowPrompt, PressConfirm, ReadRole, TestMembers, projectVars
  <1>6. ASSUME NEW t, ConsoleStep(t) PROVE UNCHANGED jobs
    BY <1>6 DEF ConsoleStep, ConsoleDeleteUser, ConsoleDeleteSite, TakeExpired, Rest
  <1>7. ASSUME NEW t, NEW u, PressCancel(t, u) PROVE UNCHANGED jobs
    BY <1>7 DEF PressCancel, Rest
  <1>8. ASSUME NEW action, NEW i, ConsoleAsk(action, i) PROVE UNCHANGED jobs
    BY <1>8 DEF ConsoleAsk, Rest
  <1>9. ASSUME NEW via, Expire(via) PROVE UNCHANGED jobs
    BY <1>9 DEF Expire, Rest
  <1>10. CASE Restart
    BY <1>1, <1>10 DEF Restart
  <1>11. CASE UNCHANGED allVars
    BY <1>1, <1>11 DEF allVars, deletionVars
  <1> QED
    BY <1>1, <1>2, <1>5, <1>6, <1>7, <1>8, <1>9, <1>10, <1>11 DEF Next, DeletionStep

\* A member who confirms a deletion in the chat and loses the right while the worker
\* threads are at it deletes nothing: the statement that deletes looks at the role again.
THEOREM DeletersManage == Spec => OnlyManagersDelete
  <1>1. HandlersInv /\ [Next]_allVars =>
          [\A j \in Jobs :
             jobs[j].action = "site" /\ jobs'[j] # jobs[j] /\ sites' # sites
             => RoleOf(jobs[j].by) \in {"owner", "manager"}]_allVars
    BY JobRights DEF JobAllowed
  <1> QED
    BY <1>1, HandlersAlways, PTL DEF Spec, OnlyManagersDelete

-----------------------------------------------------------------------------
(* Types of the project.                                                   *)

RequestOK(q, n) ==
    /\ q.kind \in {"idle", "add", "edit", "window", "check", "botCheck"}
    /\ q = [kind |-> q.kind, by |-> q.by, site |-> q.site, arg |-> q.arg]
    /\ q.by \in Users /\ q.site \in 0..n /\ q.arg \in Args(q.kind)

MembersOK ==
    /\ role \in [Guests -> Roles \cup {Null}]
    /\ invites \in Seq(Invite)
    /\ now \in 0..Horizon /\ scope \in Scopes

RowsOK ==
    /\ given \in 0..MaxSites
    /\ sites \in [DOMAIN sites -> SiteRow] /\ DOMAIN sites \subseteq 1..given

RequestsOK ==
    /\ DOMAIN requests = Requests
    /\ \A r \in Requests : RequestOK(requests[r], given)

LEMMA ProjectParts == ProjectTypeOK <=> MembersOK /\ RowsOK /\ RequestsOK
  BY DEF ProjectTypeOK, MembersOK, RowsOK, RequestsOK, RequestOK

LEMMA ProjectConstants ==
    /\ SiteLimit \in Nat /\ MaxSites \in Nat /\ Horizon \in Nat
    /\ \A w \in Windows : w \in Nat \X Nat /\ w[1] \in Nat /\ w[2] \in Nat
    /\ Owner \in Users /\ Guests \subseteq Users
    /\ \A s \in Scopes : s.sites \in Nat /\ s.sites <= Len(Urls) /\ s.sites <= MaxSites
  BY ProjectAssumption DEF ProjectAssumption, Users, Scope

LEMMA IdleOK == ASSUME NEW n \in Nat PROVE RequestOK(Idle, n)
  BY ProjectConstants DEF RequestOK, Idle, Args

LEMMA ProjectInitTyped == DeletionInit => ProjectTypeOK
  <1> SUFFICES ASSUME DeletionInit PROVE ProjectTypeOK
    OBVIOUS
  <1> DEFINE n == scope.sites
  <1>1. /\ role = [g \in Guests |-> Null] /\ invites = <<>> /\ scope \in Scopes
        /\ sites = [i \in 1..n |-> NewSite(Urls[i])] /\ given = n /\ now = 0
        /\ requests = [r \in Requests |-> Idle]
    BY DEF DeletionInit, Init
  <1>2. n \in Nat /\ n <= Len(Urls) /\ n <= MaxSites
    BY <1>1, ProjectConstants
  <1>3. Urls \in Seq(Range(Urls))
    BY ProjectAssumption DEF ProjectAssumption
  <1> HIDE DEF n
  <1>4. \A i \in 1..n : Urls[i] \in Range(Urls)
    BY <1>2, <1>3
  <1>5. \A i \in 1..n : NewSite(Urls[i]) \in SiteRow
    BY <1>4 DEF NewSite, SiteRow
  <1>6. RowsOK
    <2> HIDE DEF NewSite, SiteRow
    <2> QED
      BY <1>1, <1>2, <1>5, ProjectConstants DEF RowsOK
  <1>7. MembersOK
    BY <1>1, ProjectConstants DEF MembersOK
  <1>8. RequestsOK
    <2> HIDE DEF Idle
    <2> QED
      BY <1>1, <1>2, IdleOK DEF RequestsOK
  <1> QED
    BY <1>6, <1>7, <1>8, ProjectParts

\* Rows.
LEMMA UpdatedRow ==
    ASSUME RowsOK, UNCHANGED given, NEW i \in DOMAIN sites, NEW row \in SiteRow, Update(i, row)
    PROVE  RowsOK'
  BY DEF RowsOK, Update

LEMMA SomeRows ==
    ASSUME RowsOK, UNCHANGED given, NEW S, sites' = Without(S)
    PROVE  RowsOK'
  BY DEF RowsOK, Without, Restrict

LEMMA SameRows == RowsOK /\ UNCHANGED <<sites, given>> => RowsOK'
  BY DEF RowsOK

LEMMA InsertedRow ==
    ASSUME RowsOK, NEW url \in Range(Urls), Insert(url)
    PROVE  RowsOK' /\ given' = given + 1
  <1> DEFINE n == given + 1
  <1>1. given \in Nat /\ given' = n /\ n \in 0..MaxSites /\ DOMAIN sites \cup {n} \subseteq 1..n
    BY ProjectConstants DEF RowsOK, Insert
  <1>2. sites' = [i \in DOMAIN sites \cup {n} |-> IF i = n THEN NewSite(url) ELSE sites[i]]
    BY DEF Insert
  <1>3. NewSite(url) \in SiteRow
    BY DEF NewSite, SiteRow
  <1> HIDE DEF n
  <1>4. \A i \in DOMAIN sites : sites[i] \in SiteRow
    BY DEF RowsOK
  <1>5. sites' \in [DOMAIN sites' -> SiteRow] /\ DOMAIN sites' \subseteq 1..n
    BY <1>1, <1>2, <1>3, <1>4
  <1> QED
    BY <1>1, <1>5 DEF RowsOK, n

LEMMA ScheduledRow ==
    ASSUME RowsOK, UNCHANGED given, NEW u, NEW i, NEW w \in Nat \X Nat, Schedule(u, i, w)
    PROVE  RowsOK'
  <1>1. CASE Manages(u, i) /\ Fits(i, w)
    <2> DEFINE row == [sites[i] EXCEPT !.windows = @ \cup {w}]
    <2>1. i \in DOMAIN sites /\ sites[i] \in SiteRow
      BY <1>1, Managers DEF RowsOK
    <2>2. row \in SiteRow
      BY <2>1 DEF SiteRow
    <2>3. Update(i, row)
      BY <1>1 DEF Schedule
    <2> HIDE DEF row
    <2> QED
      BY <2>1, <2>2, <2>3, UpdatedRow
  <1>2. CASE ~(Manages(u, i) /\ Fits(i, w))
    BY <1>2, SameRows DEF Schedule
  <1> QED
    BY <1>1, <1>2

\* Requests.
LEMMA SetRequest ==
    ASSUME RowsOK, RequestsOK, NEW r \in Requests, NEW q, Set(r, q),
           given' \in Nat, given <= given', RequestOK(q, given')
    PROVE  RequestsOK'
  <1>1. given \in Nat
    BY DEF RowsOK
  <1>2. \A x \in Requests : RequestOK(requests[x], given')
    BY <1>1 DEF RequestsOK, RequestOK
  <1>3. DOMAIN requests' = Requests
        /\ \A x \in Requests : requests'[x] = IF x = r THEN q ELSE requests[x]
    BY DEF Set, RequestsOK
  <1> QED
    BY <1>2, <1>3 DEF RequestsOK

LEMMA SameRequests == RequestsOK /\ UNCHANGED <<requests, given>> => RequestsOK'
  BY DEF RequestsOK

LEMMA FreedRequest ==
    ASSUME RowsOK, RequestsOK, NEW r \in Requests, Set(r, Idle), UNCHANGED given
    PROVE  RequestsOK'
  <1>1. given \in Nat /\ RequestOK(Idle, given)
    BY IdleOK DEF RowsOK
  <1> HIDE DEF Idle
  <1> QED
    BY <1>1, SetRequest

LEMMA AskedTyped ==
    ASSUME RowsOK, RequestsOK, NEW r \in Requests, NEW u \in Users, NEW i \in 0..given,
           NEW kind \in {"add", "edit", "window", "check"}, NEW arg \in Args(kind),
           Asked(r, kind, u, i, arg)
    PROVE  RowsOK' /\ RequestsOK' /\ UNCHANGED Members
  <1> DEFINE q == [kind |-> kind, by |-> u, site |-> i, arg |-> arg]
  <1>1. Set(r, q) /\ UNCHANGED <<sites, given>> /\ UNCHANGED Members
    BY DEF Asked
  <1>2. RequestOK(q, given) /\ given \in Nat
    BY DEF RequestOK, RowsOK
  <1> HIDE DEF q
  <1> QED
    BY <1>1, <1>2, SetRequest, SameRows

\* What is left of a bulk request is one, too.
LEMMA NextItemTyped ==
    ASSUME RowsOK, RequestsOK, NEW r \in Requests, NEW count, requests[r].kind = "add",
           NextItem(r, count), given' \in Nat, given <= given'
    PROVE  RequestsOK'
  <1> DEFINE q == requests[r]
             rest == Tail(q.arg)
             next == [q EXCEPT !.arg = rest]
  <1>1. RequestOK(q, given) /\ given \in Nat
    BY DEF RequestsOK, RowsOK
  <1>2. q.arg \in Targets
    BY <1>1 DEF RequestOK, Args
  <1>3. rest = <<>> \/ rest \in Targets
    <2>1. ASSUME NEW u, NEW v PROVE Tail(<<u>>) = <<>> /\ Tail(<<u, v>>) = <<v>>
      OBVIOUS
    <2>2. \/ \E u \in Range(Urls) : q.arg = <<u>>
          \/ \E u, v \in Range(Urls) : q.arg = <<u, v>>
      BY <1>2 DEF Targets
    <2>3. ASSUME NEW u \in Range(Urls), q.arg = <<u>>
          PROVE  rest = <<>>
      BY <2>1, <2>3
    <2>4. ASSUME NEW u \in Range(Urls), NEW v \in Range(Urls), q.arg = <<u, v>>
          PROVE  rest \in Targets
      <3>1. rest = <<v>>
        BY <2>1, <2>4
      <3> HIDE DEF rest
      <3> QED
        BY <3>1 DEF Targets
    <2> HIDE DEF rest
    <2> QED
      BY <2>2, <2>3, <2>4
  <1>4. RequestOK(q, given')
    BY <1>1 DEF RequestOK
  <1>5. ASSUME rest # <<>>
        PROVE  RequestOK(next, given')
    <2> HIDE DEF rest, q
    <2>1. next = [kind |-> q.kind, by |-> q.by, site |-> q.site, arg |-> rest] /\ rest \in Targets
      BY <1>3, <1>4, <1>5 DEF RequestOK
    <2> HIDE DEF next
    <2> QED
      BY <1>4, <2>1 DEF RequestOK, Args, q
  <1>6. Set(r, Idle) \/ (rest # <<>> /\ Set(r, next))
    BY DEF NextItem
  <1>7. RequestOK(Idle, given')
    BY IdleOK
  <1> HIDE DEF q, rest, next, Idle
  <1> QED
    BY <1>5, <1>6, <1>7, SetRequest

\* The steps.
LEMMA MemberTyped ==
    ASSUME ProjectTypeOK, MemberStep
    PROVE  ProjectTypeOK' /\ UNCHANGED given
  <1>1. MembersOK /\ RowsOK /\ RequestsOK
    BY ProjectParts
  <1>2. ASSUME NEW ro \in Roles, CreateInvite(ro) PROVE MembersOK'
    <2>1. [role |-> ro, state |-> "open"] \in Invite
      BY DEF Invite
    <2> QED
      BY <1>1, <1>2, <2>1 DEF CreateInvite, MembersOK
  <1>3. ASSUME NEW i \in DOMAIN invites, CloseInvite(i) PROVE MembersOK'
    <2>1. invites[i] \in Invite
      BY <1>1 DEF MembersOK
    <2>2. [invites[i] EXCEPT !.state = "closed"] \in Invite
      BY <2>1 DEF Invite
    <2> QED
      BY <1>1, <1>3, <2>2 DEF CloseInvite, MembersOK
  <1>4. ASSUME NEW i \in DOMAIN invites, NEW g \in Guests, ConsumeInvite(i, g) PROVE MembersOK'
    <2>1. invites[i] \in Invite
      BY <1>1 DEF MembersOK
    <2>2. [invites[i] EXCEPT !.state = "used"] \in Invite /\ invites[i].role \in Roles
      BY <2>1 DEF Invite
    <2> QED
      BY <1>1, <1>4, <2>2 DEF ConsumeInvite, MembersOK
  <1>5. ASSUME NEW g \in Guests, NEW ro \in Roles, ChangeRole(g, ro) PROVE MembersOK'
    BY <1>1, <1>5 DEF ChangeRole, MembersOK
  <1>6. ASSUME NEW g \in Guests, RemoveMember(g) PROVE MembersOK'
    BY <1>1, <1>6 DEF RemoveMember, MembersOK
  <1>7. MembersOK'
    BY <1>2, <1>3, <1>4, <1>5, <1>6 DEF MemberStep
  <1>8. UNCHANGED <<sites, given, requests>>
    BY DEF MemberStep, CreateInvite, CloseInvite, ConsumeInvite, ChangeRole, RemoveMember
  <1>9. RowsOK' /\ RequestsOK'
    BY <1>1, <1>8, SameRows, SameRequests
  <1>10. ProjectTypeOK'
    BY <1>7, <1>9 DEF ProjectTypeOK, MembersOK, RowsOK, RequestsOK, RequestOK
  <1> QED
    BY <1>8, <1>10

LEMMA Assembled ==
    ASSUME MembersOK, UNCHANGED Members, RowsOK', RequestsOK'
    PROVE  ProjectTypeOK'
  <1>1. MembersOK'
    BY DEF MembersOK, Members
  <1> QED
    BY <1>1 DEF ProjectTypeOK, MembersOK, RowsOK, RequestsOK, RequestOK

LEMMA FinishTyped ==
    ASSUME ProjectTypeOK, NEW r \in Requests,
           FinishEdit(r) \/ FinishWindow(r) \/ FinishCheck(r) \/ FinishBotCheck(r) \/ Abandon(r)
    PROVE  ProjectTypeOK' /\ UNCHANGED given
  <1> DEFINE q == requests[r]
             i == q.site
  <1>1. MembersOK /\ RowsOK /\ RequestsOK
    BY ProjectParts
  <1>2. RequestOK(q, given)
    BY <1>1 DEF RequestsOK
  <1>3. UNCHANGED given /\ UNCHANGED Members /\ Set(r, Idle)
    BY DEF FinishEdit, FinishWindow, FinishCheck, FinishBotCheck, Abandon
  <1>4. ASSUME i \in DOMAIN sites
        PROVE  /\ \A label \in Labels : [sites[i] EXCEPT !.label = label] \in SiteRow
               /\ [sites[i] EXCEPT !.checked = TRUE] \in SiteRow
    <2>1. sites[i] \in SiteRow
      BY <1>1, <1>4 DEF RowsOK
    <2> HIDE DEF i
    <2> QED
      BY <2>1 DEF SiteRow
  <1>5. ASSUME FinishEdit(r) PROVE RowsOK'
    <2>1. q.arg \in Labels
      BY <1>2, <1>5 DEF FinishEdit, RequestOK, Args
    <2>2. \/ UNCHANGED sites
          \/ i \in DOMAIN sites /\ Update(i, [sites[i] EXCEPT !.label = q.arg])
      BY <1>5, Managers DEF FinishEdit, Relabelled
    <2> HIDE DEF i, q
    <2> QED
      BY <1>1, <1>3, <1>4, <2>1, <2>2, UpdatedRow, SameRows
  <1>6. ASSUME FinishWindow(r) PROVE RowsOK'
    <2>1. q.arg \in Nat \X Nat
      BY <1>2, <1>6, ProjectConstants DEF FinishWindow, RequestOK, Args
    <2> QED
      BY <1>1, <1>3, <1>6, <2>1, ScheduledRow DEF FinishWindow
  <1>7. ASSUME FinishCheck(r) \/ FinishBotCheck(r) PROVE RowsOK'
    <2>1. \/ UNCHANGED sites
          \/ i \in DOMAIN sites /\ Update(i, [sites[i] EXCEPT !.checked = TRUE])
      BY <1>7, Managers DEF FinishCheck, FinishBotCheck
    <2> HIDE DEF i
    <2> QED
      BY <1>1, <1>3, <1>4, <2>1, UpdatedRow, SameRows
  <1>8. ASSUME Abandon(r) PROVE RowsOK'
    BY <1>1, <1>8, SameRows DEF Abandon
  <1>9. RowsOK'
    BY <1>5, <1>6, <1>7, <1>8
  <1>10. RequestsOK'
    BY <1>1, <1>3, FreedRequest
  <1> QED
    BY <1>1, <1>3, <1>9, <1>10, Assembled

LEMMA AddTyped ==
    ASSUME ProjectTypeOK, NEW r \in Requests, FinishAdd(r) \/ RefuseAdd(r)
    PROVE  ProjectTypeOK' /\ given <= given'
  <1> DEFINE q == requests[r]
             url == Head(q.arg)
  <1>1. MembersOK /\ RowsOK /\ RequestsOK /\ given \in Nat
    BY ProjectParts DEF RowsOK
  <1>2. UNCHANGED Members /\ requests[r].kind = "add"
    BY DEF FinishAdd, RefuseAdd
  <1>3. url \in Range(Urls)
    <2>1. q.arg \in Targets
      BY <1>1, <1>2 DEF RequestsOK, RequestOK, Args
    <2>2. ASSUME NEW u, NEW v PROVE Head(<<u>>) = u /\ Head(<<u, v>>) = u
      OBVIOUS
    <2>3. \/ \E u \in Range(Urls) : q.arg = <<u>>
          \/ \E u, v \in Range(Urls) : q.arg = <<u, v>>
      BY <2>1 DEF Targets
    <2> HIDE DEF q
    <2> QED
      BY <2>2, <2>3
  <1>4. CASE FinishAdd(r)
    <2>1. Insert(url) /\ NextItem(r, SiteCount + 1)
      BY <1>4 DEF FinishAdd
    <2>2. RowsOK' /\ given' = given + 1
      <3> HIDE DEF url
      <3> QED
        BY <1>1, <1>3, <2>1, InsertedRow
    <2>3. RequestsOK'
      BY <1>1, <1>2, <2>1, <2>2, NextItemTyped
    <2> QED
      BY <1>1, <1>2, <2>2, <2>3, Assembled
  <1>5. CASE RefuseAdd(r)
    <2>1. UNCHANGED <<sites, given>> /\ NextItem(r, SiteCount)
      BY <1>5 DEF RefuseAdd
    <2>2. RequestsOK'
      BY <1>1, <1>2, <2>1, NextItemTyped
    <2> QED
      BY <1>1, <1>2, <2>1, <2>2, SameRows, Assembled
  <1> QED
    BY <1>4, <1>5

LEMMA RequestTyped ==
    ASSUME ProjectTypeOK, NEW r \in Requests, RequestStep(r)
    PROVE  ProjectTypeOK' /\ given <= given'
  <1>1. MembersOK /\ RowsOK /\ RequestsOK /\ given \in Nat
    BY ProjectParts DEF RowsOK
  <1>2. ASSUME NEW u \in Users, NEW targets \in Targets, BeginAdd(r, u, targets)
        PROVE  ProjectTypeOK' /\ given <= given'
    <2>1. Asked(r, "add", u, 0, targets) /\ targets \in Args("add") /\ 0 \in 0..given
      BY <1>1, <1>2 DEF BeginAdd, Args
    <2>2. given' = given
      BY <2>1 DEF Asked
    <2> QED
      BY <1>1, <2>1, <2>2, AskedTyped, Assembled
  <1>3. ASSUME NEW url \in Range(Urls), BotAdd(r, url)
        PROVE  ProjectTypeOK' /\ given <= given'
    <2> DEFINE q == [kind |-> "botCheck", by |-> Owner, site |-> given + 1, arg |-> Null]
    <2>1. Insert(url) /\ Set(r, q) /\ UNCHANGED Members
      BY <1>3 DEF BotAdd
    <2>2. RowsOK' /\ given' = given + 1
      BY <1>1, <2>1, InsertedRow
    <2>3. RequestOK(q, given')
      BY <1>1, <2>2, ProjectConstants DEF RequestOK, Args
    <2> HIDE DEF q
    <2>4. RequestsOK'
      BY <1>1, <2>1, <2>2, <2>3, SetRequest
    <2> QED
      BY <1>1, <2>1, <2>2, <2>4, Assembled
  <1> QED
    BY <1>1, <1>2, <1>3, AddTyped, FinishTyped DEF RequestStep

LEMMA SiteTyped ==
    ASSUME ProjectTypeOK, NEW u \in Users, NEW i \in DOMAIN sites, SiteStep(u, i)
    PROVE  ProjectTypeOK' /\ UNCHANGED given
  <1>1. MembersOK /\ RowsOK /\ RequestsOK /\ given \in Nat
    BY ProjectParts DEF RowsOK
  <1>2. i \in 0..given /\ sites[i] \in SiteRow
    BY <1>1 DEF RowsOK
  <1>3. ASSUME NEW r \in Requests, NEW kind \in {"edit", "window", "check"},
               NEW arg \in Args(kind), Asked(r, kind, u, i, arg)
        PROVE  ProjectTypeOK' /\ UNCHANGED given
    <2>1. UNCHANGED given
      BY <1>3 DEF Asked
    <2> QED
      BY <1>1, <1>2, <1>3, <2>1, AskedTyped, Assembled
  <1>4. ASSUME NEW r \in Requests, BeginCheck(r, u, i)
        PROVE  ProjectTypeOK' /\ UNCHANGED given
    BY <1>3, <1>4 DEF BeginCheck, Args
  <1>5. ASSUME NEW r \in Requests, BeginBotCheck(r, u, i)
        PROVE  ProjectTypeOK' /\ UNCHANGED given
    <2> DEFINE q == [kind |-> "botCheck", by |-> u, site |-> i, arg |-> Null]
    <2>1. Set(r, q) /\ UNCHANGED Members /\ UNCHANGED <<sites, given>>
      BY <1>5 DEF BeginBotCheck
    <2>2. RequestOK(q, given')
      BY <1>2, <2>1 DEF RequestOK, Args
    <2> HIDE DEF q
    <2>3. RequestsOK'
      BY <1>1, <2>1, <2>2, SetRequest
    <2> QED
      BY <1>1, <2>1, <2>3, SameRows, Assembled
  <1>6. ASSUME NEW r \in Requests, NEW label \in Labels, BeginEdit(r, u, i, label)
        PROVE  ProjectTypeOK' /\ UNCHANGED given
    BY <1>3, <1>6 DEF BeginEdit, Args
  <1>7. ASSUME NEW r \in Requests, NEW w \in Windows, BeginWindow(r, u, i, w)
        PROVE  ProjectTypeOK' /\ UNCHANGED given
    BY <1>3, <1>7 DEF BeginWindow, Args
  <1>8. ASSUME UNCHANGED Members, UNCHANGED <<given, requests>>, RowsOK'
        PROVE  ProjectTypeOK' /\ UNCHANGED given
    BY <1>1, <1>8, SameRequests, Assembled
  <1>9. ASSUME NEW w \in sites[i].windows, CancelWindow(u, i, w)
        PROVE  ProjectTypeOK' /\ UNCHANGED given
    <2> DEFINE row == [sites[i] EXCEPT !.windows = @ \ {w}]
    <2>1. row \in SiteRow
      BY <1>2 DEF SiteRow
    <2>2. Update(i, row) /\ UNCHANGED Members /\ UNCHANGED <<given, requests>>
      BY <1>9 DEF CancelWindow
    <2> HIDE DEF row
    <2> QED
      BY <1>1, <1>8, <2>1, <2>2, UpdatedRow
  <1>10. CASE PauseHour(u, i)
    <2>1. <<now, now + 1>> \in Nat \X Nat
      BY <1>1, ProjectConstants DEF MembersOK
    <2> QED
      BY <1>1, <1>8, <1>10, <2>1, ScheduledRow DEF PauseHour
  <1>11. CASE RemoveSite(u, i)
    BY <1>1, <1>8, <1>11, SomeRows DEF RemoveSite
  <1> QED
    BY <1>4, <1>5, <1>6, <1>7, <1>9, <1>10, <1>11 DEF SiteStep

LEMMA PausedTyped ==
    ASSUME ProjectTypeOK, NEW u, NEW S, NEW paused \in BOOLEAN, SetPaused(u, S, paused)
    PROVE  ProjectTypeOK' /\ UNCHANGED given
  <1>1. MembersOK /\ RowsOK /\ RequestsOK
    BY ProjectParts
  <1> DEFINE mine == {i \in S : Manages(u, i)}
             row(i) == IF i \in mine THEN [sites[i] EXCEPT !.paused = paused] ELSE sites[i]
  <1>2. sites' = [i \in DOMAIN sites |-> row(i)]
        /\ UNCHANGED Members /\ UNCHANGED <<given, requests>>
    BY DEF SetPaused
  <1>3. \A i \in DOMAIN sites : row(i) \in SiteRow
    BY <1>1 DEF RowsOK, SiteRow
  <1> HIDE DEF row
  <1>4. RowsOK'
    BY <1>1, <1>2, <1>3 DEF RowsOK
  <1> QED
    BY <1>1, <1>2, <1>4, SameRequests, Assembled

LEMMA ProjectStepTyped ==
    ASSUME ProjectTypeOK, ProjectStep
    PROVE  ProjectTypeOK' /\ given <= given'
  <1>1. MembersOK /\ RowsOK /\ RequestsOK /\ given \in Nat
    BY ProjectParts DEF RowsOK
  <1>2. CASE OwnerBlocksBot
    <2>1. RowsOK' /\ UNCHANGED Members /\ UNCHANGED <<given, requests>>
      BY <1>1, <1>2, SomeRows DEF OwnerBlocksBot
    <2> QED
      BY <1>1, <2>1, SameRequests, Assembled
  <1>3. CASE Tick
    <2>1. UNCHANGED <<role, invites, sites, given, requests, scope>>
          /\ now' = now + 1 /\ now < Horizon
      BY <1>3 DEF Tick
    <2>2. MembersOK'
      BY <1>1, <2>1, ProjectConstants DEF MembersOK
    <2>3. RowsOK' /\ RequestsOK'
      BY <1>1, <2>1, SameRows, SameRequests
    <2>4. ProjectTypeOK'
      BY <2>2, <2>3 DEF ProjectTypeOK, MembersOK, RowsOK, RequestsOK, RequestOK
    <2> QED
      BY <1>1, <2>1, <2>4
  <1>4. UNCHANGED given => given <= given'
    BY <1>1
  <1> QED
    BY <1>2, <1>3, <1>4, MemberTyped, SiteTyped, RequestTyped, PausedTyped DEF ProjectStep

-----------------------------------------------------------------------------
(* Types of the confirmations.                                             *)

LEMMA DeletionConstants == MaxPending \in Nat \ {0} /\ Users \subseteq Actors /\ Admin \in Actors
  BY DeletionAssumption DEF DeletionAssumption, Actors

\* The newest m of the confirmations that live, and no more.
LEMMA NewestFew ==
    ASSUME NEW L \in SUBSET Nat, IsFiniteSet(L), NEW m \in Nat
    PROVE  Newest(L, m) \in SUBSET L /\ Cardinality(Newest(L, m)) <= m
  <1> DEFINE K == Newest(L, m)
             R == {p \in Nat \X Nat : p[1] < p[2]}
  <1>1. K \in SUBSET L
    BY DEF Newest
  <1>2. IsFiniteSet(K)
    <2> HIDE DEF K
    <2> QED
      BY <1>1, FS_Subset
  <1>3. CASE K = {}
    <2> HIDE DEF K
    <2> QED
      BY <1>1, <1>3, FS_EmptySet DEF K
  <1>4. CASE K # {}
    <2>1. IsWellFoundedOn(R, Nat)
      <3>1. R = OpToRel(<, Nat)
        BY DEF OpToRel
      <3> QED
        BY <3>1, NatLessThanWellFounded
    <2>2. PICK x \in K : \A y \in K : <<y, x>> \notin R
      <3> HIDE DEF K, R
      <3> QED
        BY <1>1, <1>4, <2>1, WFMin
    <2> DEFINE newer == {r \in L : r > x}
    <2>3. x \in Nat /\ \A y \in K : y \in Nat /\ (y # x => y > x)
      <3>1. x \in Nat /\ \A y \in K : y \in Nat
        BY <1>1
      <3>2. \A y \in K : ~(y < x)
        BY <2>2, <3>1
      <3> HIDE DEF K, R
      <3> QED
        BY <3>1, <3>2
    <2>4. K \ {x} \in SUBSET newer /\ newer \in SUBSET L
      BY <1>1, <2>3
    <2>5. Cardinality(newer) < m
      BY DEF Newest
    <2> HIDE DEF K, R, newer
    <2>6. IsFiniteSet(newer)
      BY <2>4, FS_Subset
    <2>7. Cardinality(K \ {x}) <= Cardinality(newer)
      BY <2>4, <2>6, FS_Subset
    <2>8. Cardinality(K \ {x}) = Cardinality(K) - 1
      BY <1>2, FS_RemoveElement
    <2>9. Cardinality(newer) \in Nat /\ Cardinality(K) \in Nat
      BY <1>2, <2>6, FS_CardinalityType
    <2>10. Cardinality(K) <= m
      BY <2>5, <2>7, <2>8, <2>9
    <2> QED
      BY <1>1, <2>10 DEF K
  <1> QED
    BY <1>3, <1>4

LEMMA IssuedFits ==
    ASSUME NEW store, NEW t \in Nat, store \in SUBSET Nat, IsFiniteSet(store)
    PROVE  Issued(store, t) \subseteq store \cup {t} /\ Cardinality(Issued(store, t)) <= MaxPending
  <1> DEFINE L == Live(store)
             m == MaxPending - 1
             K == Newest(L, m)
  <1>1. L \in SUBSET store
    BY DEF Live
  <1>2. m \in Nat /\ m + 1 = MaxPending
    BY DeletionConstants
  <1>3. Issued(store, t) = K \cup {t}
    BY DEF Issued
  <1> HIDE DEF L, m
  <1>4. IsFiniteSet(L) /\ L \in SUBSET Nat
    BY <1>1, FS_Subset
  <1>5. K \in SUBSET L /\ Cardinality(K) <= m
    BY <1>2, <1>4, NewestFew
  <1> HIDE DEF K
  <1>6. IsFiniteSet(K)
    BY <1>4, <1>5, FS_Subset
  <1>7. Cardinality(K \cup {t}) = IF t \in K THEN Cardinality(K) ELSE Cardinality(K) + 1
    BY <1>6, FS_AddElement
  <1>8. Cardinality(K) \in Nat
    BY <1>6, FS_CardinalityType
  <1>9. Cardinality(K \cup {t}) <= MaxPending
    BY <1>2, <1>5, <1>7, <1>8
  <1> QED
    BY <1>1, <1>3, <1>5, <1>9

PromptsOK ==
    /\ prompts \in Seq(Shown)
    /\ stores \in [Vias -> SUBSET DOMAIN prompts]
    /\ \A via \in Vias : Cardinality(stores[via]) <= MaxPending
    /\ \A via \in Vias : \A t \in stores[via] : prompts[t].via = via
    /\ \A t \in DOMAIN prompts : prompts[t].target <= given

JobsOK ==
    /\ jobs \in [Jobs -> Job]
    /\ \A j \in Jobs : jobs[j].target <= given

LEMMA DeletionParts == TypeOK <=> ProjectTypeOK /\ PromptsOK /\ JobsOK
  BY DEF TypeOK, PromptsOK, JobsOK

LEMMA Given == ProjectTypeOK => given \in Nat
  BY ProjectParts DEF RowsOK

LEMMA NoJobOK == NoJob \in Job /\ NoJob.target = 0 /\ NoJob.pc = "idle"
  BY DEF NoJob, Job

\* A job that works is no NoJob.
LEMMA WorkingJob ==
    ASSUME NEW job \in Job, job.pc # "idle"
    PROVE  job \in [pc : {"ask", "show", "role", "delete", "test", "wipe"},
                    action : {"site", "admin_site", "user"}, target : Nat, by : Actors]
  BY DEF Job, NoJob

LEMMA StoreFinite ==
    ASSUME TypeOK, NEW via \in Vias
    PROVE  stores[via] \in SUBSET DOMAIN prompts /\ stores[via] \in SUBSET Nat
           /\ IsFiniteSet(stores[via])
  <1> DEFINE n == Len(prompts)
             D == 1..n
  <1>1. stores \in [Vias -> SUBSET DOMAIN prompts] /\ DOMAIN prompts = D /\ n \in Nat
    BY DeletionParts DEF PromptsOK
  <1>2. IsFiniteSet(D) /\ D \in SUBSET Nat
    <2> HIDE DEF n
    <2> QED
      BY <1>1, FS_Interval
  <1> HIDE DEF D, n
  <1>3. stores[via] \in SUBSET D
    BY <1>1
  <1> QED
    BY <1>1, <1>2, <1>3, FS_Subset

\* A confirmation that is shown is put into its store.
LEMMA ShownTyped ==
    ASSUME TypeOK, NEW p \in Shown, p.target <= given, Show(p), UNCHANGED given
    PROVE  PromptsOK'
  <1> DEFINE n == Len(prompts) + 1
  <1>1. PromptsOK
    BY DeletionParts
  <1>2. /\ prompts \in Seq(Shown) /\ prompts' = Append(prompts, p)
        /\ stores' = [stores EXCEPT ![p.via] = Issued(@, n)]
        /\ stores \in [Vias -> SUBSET DOMAIN prompts]
    BY <1>1 DEF Show, PromptsOK
  <1>3. /\ prompts' \in Seq(Shown) /\ DOMAIN prompts = 1..Len(prompts) /\ DOMAIN prompts' = 1..n
        /\ n \in Nat /\ Len(prompts) \in Nat
        /\ prompts'[n] = p /\ \A t \in DOMAIN prompts : prompts'[t] = prompts[t]
    BY <1>2
  <1>4. p.via \in Vias
    BY DEF Shown
  <1> DEFINE store == stores[p.via]
  <1>5. store \in SUBSET DOMAIN prompts /\ store \in SUBSET Nat /\ IsFiniteSet(store)
    BY <1>4, StoreFinite
  <1>6. Issued(store, n) \subseteq store \cup {n} /\ Cardinality(Issued(store, n)) <= MaxPending
    <2> HIDE DEF store, n
    <2> QED
      BY <1>3, <1>5, IssuedFits
  <1> HIDE DEF n
  <1>7. \A via \in Vias : stores'[via] = IF via = p.via THEN Issued(store, n) ELSE stores[via]
    BY <1>2, <1>4
  <1>8. \A via \in Vias : stores'[via] \subseteq stores[via] \cup {n} /\ (via # p.via => stores'[via] = stores[via])
    BY <1>6, <1>7
  <1>9. stores' \in [Vias -> SUBSET DOMAIN prompts']
    <2>1. DOMAIN prompts \cup {n} \subseteq DOMAIN prompts'
      BY <1>3 DEF n
    <2>2. DOMAIN stores' = Vias /\ stores' = [via \in Vias |-> stores'[via]]
      BY <1>2
    <2> QED
      BY <1>2, <1>8, <2>1, <2>2
  <1>10. \A via \in Vias : Cardinality(stores'[via]) <= MaxPending
    BY <1>1, <1>6, <1>7 DEF PromptsOK
  <1>11. ASSUME NEW via \in Vias, NEW t \in stores'[via]
         PROVE  prompts'[t].via = via
    <2>1. CASE t \in stores[via]
      BY <1>1, <1>2, <1>3, <2>1 DEF PromptsOK
    <2>2. CASE t \notin stores[via]
      BY <1>3, <1>8, <2>2
    <2> QED
      BY <2>1, <2>2
  <1>12. ASSUME NEW t \in DOMAIN prompts'
         PROVE  prompts'[t].target <= given'
    <2>1. t \in DOMAIN prompts \/ t = n
      BY <1>3 DEF n
    <2> QED
      BY <1>1, <1>3, <2>1 DEF PromptsOK
  <1> QED
    BY <1>3, <1>9, <1>10, <1>11, <1>12 DEF PromptsOK

\* A confirmation that is spent leaves its store.
LEMMA DroppedTyped ==
    ASSUME TypeOK, NEW via \in Vias, NEW t, Drop(via, t)
    PROVE  /\ stores' \in [Vias -> SUBSET DOMAIN prompts]
           /\ stores'[via] = stores[via] \ {t}
           /\ \A v \in Vias : /\ stores'[v] \subseteq stores[v]
                              /\ v # via => stores'[v] = stores[v]
                              /\ Cardinality(stores'[v]) <= MaxPending
  <1>1. /\ prompts \in Seq(Shown) /\ stores \in [Vias -> SUBSET DOMAIN prompts]
        /\ \A v \in Vias : Cardinality(stores[v]) <= MaxPending
        /\ stores' = [stores EXCEPT ![via] = @ \ {t}]
    BY DeletionParts DEF PromptsOK, Drop
  <1>2. \A v \in Vias : stores'[v] = IF v = via THEN stores[v] \ {t} ELSE stores[v]
    BY <1>1
  <1>3. stores' \in [Vias -> SUBSET DOMAIN prompts]
    BY <1>1
  <1>4. ASSUME NEW v \in Vias
        PROVE  Cardinality(stores'[v]) <= MaxPending
    <2>1. IsFiniteSet(stores[v])
      BY StoreFinite
    <2>2. stores'[v] \in SUBSET stores[v]
      BY <1>2
    <2>3. IsFiniteSet(stores'[v])
      BY <2>1, <2>2, FS_Subset
    <2>4. Cardinality(stores'[v]) <= Cardinality(stores[v])
          /\ Cardinality(stores'[v]) \in Nat /\ Cardinality(stores[v]) \in Nat
      BY <2>1, <2>2, <2>3, FS_Subset, FS_CardinalityType
    <2> QED
      BY <1>1, <2>4, DeletionConstants
  <1> QED
    BY <1>1, <1>2, <1>3, <1>4

\* The history of a confirmation that is used.
LEMMA UsedTyped ==
    ASSUME TypeOK, NEW t \in DOMAIN prompts, prompts[t].runs < 2,
           NEW action, NEW target, NEW by, Used(t, action, target, by)
    PROVE  /\ prompts' \in Seq(Shown) /\ DOMAIN prompts' = DOMAIN prompts
           /\ \A s \in DOMAIN prompts : /\ prompts'[s].via = prompts[s].via
                                        /\ prompts'[s].target = prompts[s].target
                                        /\ s # t => prompts'[s] = prompts[s]
           /\ prompts'[t].runs = prompts[t].runs + 1
           /\ ~prompts[t].astray /\ ~prompts[t].over
              /\ prompts[t].action = action /\ prompts[t].target = target /\ prompts[t].actor = by
              => ~prompts'[t].astray
  <1> DEFINE p == prompts[t]
             odd == \/ p.astray \/ p.over
                    \/ <<p.action, p.target, p.actor>> # <<action, target, by>>
             new == [p EXCEPT !.runs = @ + 1, !.astray = odd]
  <1>1. prompts \in Seq(Shown) /\ p \in Shown
    BY DeletionParts DEF PromptsOK
  <1>2. prompts' = [prompts EXCEPT ![t] = new]
    BY <1>1 DEF Used, Shown
  <1>3. new \in Shown /\ new.runs = p.runs + 1 /\ new.via = p.via /\ new.target = p.target
        /\ new.astray = odd
    <2>1. odd \in BOOLEAN
      OBVIOUS
    <2>2. p.runs + 1 \in 0..2
      BY <1>1 DEF Shown
    <2> HIDE DEF odd
    <2>3. p \in Shown /\ new = [p EXCEPT !.runs = p.runs + 1, !.astray = odd]
      BY <1>1
    <2> HIDE DEF p, new
    <2> QED
      BY <2>1, <2>2, <2>3 DEF Shown
  <1>4. ~p.astray /\ ~p.over /\ p.action = action /\ p.target = target /\ p.actor = by => ~odd
    OBVIOUS
  <1> HIDE DEF p, new, odd
  <1>5. prompts' \in Seq(Shown) /\ DOMAIN prompts' = DOMAIN prompts /\ prompts'[t] = new
        /\ \A s \in DOMAIN prompts : s # t => prompts'[s] = prompts[s]
    BY <1>1, <1>2, <1>3
  <1> QED
    BY <1>3, <1>4, <1>5 DEF p

\* A confirmation that is confirmed is used, and leaves its store.
LEMMA ConfirmedTyped ==
    ASSUME TypeOK, NEW t \in DOMAIN prompts, prompts[t].runs < 2, NEW via \in Vias, Drop(via, t),
           NEW action, NEW target, NEW by, Used(t, action, target, by), UNCHANGED given
    PROVE  PromptsOK'
  <1>1. PromptsOK
    BY DeletionParts
  <1>2. /\ prompts' \in Seq(Shown) /\ DOMAIN prompts' = DOMAIN prompts
        /\ \A s \in DOMAIN prompts : /\ prompts'[s].via = prompts[s].via
                                     /\ prompts'[s].target = prompts[s].target
    BY UsedTyped
  <1>3. /\ stores' \in [Vias -> SUBSET DOMAIN prompts]
        /\ \A v \in Vias : stores'[v] \subseteq stores[v] /\ Cardinality(stores'[v]) <= MaxPending
    BY DroppedTyped
  <1>4. \A v \in Vias : \A s \in stores'[v] : s \in DOMAIN prompts /\ prompts[s].via = v
    BY <1>1, <1>3 DEF PromptsOK
  <1>5. \A s \in DOMAIN prompts : prompts[s].target <= given
    BY <1>1 DEF PromptsOK
  <1> QED
    BY <1>2, <1>3, <1>4, <1>5 DEF PromptsOK

LEMMA SamePrompts ==
    ASSUME TypeOK, UNCHANGED <<prompts, stores>>, given <= given', given' \in Nat
    PROVE  PromptsOK'
  <1>1. /\ PromptsOK /\ given \in Nat
        /\ \A t \in DOMAIN prompts : prompts[t].target \in Nat
    <2>1. PromptsOK /\ given \in Nat
      BY DeletionParts, Given
    <2>2. \A t \in DOMAIN prompts : prompts[t] \in Shown
      BY <2>1 DEF PromptsOK
    <2> QED
      BY <2>1, <2>2 DEF Shown
  <1>2. \A t \in DOMAIN prompts : prompts[t].target <= given'
    BY <1>1 DEF PromptsOK
  <1> QED
    BY <1>1, <1>2 DEF PromptsOK

LEMMA TookTyped ==
    ASSUME TypeOK, NEW via \in Vias, NEW t, Drop(via, t), UNCHANGED <<prompts, given>>
    PROVE  PromptsOK'
  <1>1. PromptsOK
    BY DeletionParts
  <1>2. /\ stores' \in [Vias -> SUBSET DOMAIN prompts]
        /\ \A v \in Vias : stores'[v] \subseteq stores[v] /\ Cardinality(stores'[v]) <= MaxPending
    BY DroppedTyped
  <1> QED
    BY <1>1, <1>2 DEF PromptsOK

LEMMA ExpiredTyped ==
    ASSUME TypeOK, NEW via, Expire(via)
    PROVE  /\ PromptsOK' /\ UNCHANGED <<stores, Rest>> /\ DOMAIN prompts' = DOMAIN prompts
           /\ \A t \in DOMAIN prompts : prompts'[t].runs = prompts[t].runs
                                        /\ prompts'[t].astray = prompts[t].astray
  <1>1. PromptsOK /\ prompts \in Seq(Shown)
    BY DeletionParts DEF PromptsOK
  <1>2. PICK t \in DOMAIN prompts : prompts' = [prompts EXCEPT ![t].over = TRUE]
    BY DEF Expire
  <1>3. UNCHANGED <<stores, Rest>>
    BY DEF Expire
  <1>4. prompts[t] \in Shown
    BY <1>1
  <1> DEFINE new == [prompts[t] EXCEPT !.over = TRUE]
  <1>5. /\ new \in Shown /\ new.runs = prompts[t].runs /\ new.astray = prompts[t].astray
        /\ new.via = prompts[t].via /\ new.target = prompts[t].target
    BY <1>4 DEF Shown
  <1>6. prompts' = [prompts EXCEPT ![t] = new]
    BY <1>2
  <1> HIDE DEF new
  <1>7. prompts' \in Seq(Shown) /\ DOMAIN prompts' = DOMAIN prompts
        /\ \A s \in DOMAIN prompts : prompts'[s] = IF s = t THEN new ELSE prompts[s]
    BY <1>1, <1>5, <1>6
  <1>8. PromptsOK'
    <2>1. UNCHANGED given
      BY <1>3 DEF Rest, projectVars
    <2> QED
      BY <1>1, <1>3, <1>5, <1>7, <2>1 DEF PromptsOK
  <1> QED
    BY <1>3, <1>5, <1>7, <1>8

\* Handlers.
LEMMA SetJobTyped ==
    ASSUME TypeOK, NEW j \in Jobs, NEW job \in Job, job.target <= given, SetJob(j, job), UNCHANGED given
    PROVE  JobsOK'
  <1>1. JobsOK
    BY DeletionParts
  <1>2. jobs' \in [Jobs -> Job] /\ \A k \in Jobs : jobs'[k] = IF k = j THEN job ELSE jobs[k]
    BY <1>1 DEF JobsOK, SetJob
  <1> QED
    BY <1>1, <1>2 DEF JobsOK

LEMMA FreedJob ==
    ASSUME TypeOK, NEW j \in Jobs, SetJob(j, NoJob), UNCHANGED given
    PROVE  JobsOK'
  <1>1. given \in Nat
    BY DeletionParts, Given
  <1>2. NoJob \in Job /\ NoJob.target <= given
    BY <1>1, NoJobOK
  <1> HIDE DEF NoJob
  <1> QED
    BY <1>2, SetJobTyped

LEMMA SameJobs ==
    ASSUME TypeOK, UNCHANGED jobs, given <= given', given' \in Nat
    PROVE  JobsOK'
  <1>1. JobsOK /\ given \in Nat
    BY DeletionParts, Given
  <1>2. \A j \in Jobs : jobs[j].target \in Nat
    BY <1>1 DEF JobsOK, Job, NoJob
  <1>3. \A j \in Jobs : jobs[j].target <= given'
    BY <1>1, <1>2 DEF JobsOK
  <1> QED
    BY <1>1, <1>3 DEF JobsOK

\* A handler goes on to its next place.
LEMMA MovedJob ==
    ASSUME TypeOK, NEW j \in Jobs, jobs[j].pc # "idle", NEW pc \in {"show", "delete", "wipe"},
           SetJob(j, [jobs[j] EXCEPT !.pc = pc]), UNCHANGED given
    PROVE  JobsOK'
  <1> DEFINE job == [jobs[j] EXCEPT !.pc = pc]
  <1>1. jobs[j] \in Job /\ jobs[j].target <= given
    BY DeletionParts DEF JobsOK
  <1>2. job \in Job /\ job.target <= given
    BY <1>1, WorkingJob DEF Job
  <1> HIDE DEF job
  <1>3. SetJob(j, job)
    BY DEF job
  <1> QED
    BY <1>2, <1>3, SetJobTyped

\* Deletions leave the members, the requests and some of the sites.
LEMMA DeletedTyped ==
    ASSUME TypeOK, UNCHANGED <<Members, given, requests>>,
           UNCHANGED sites \/ \E S : sites' = Without(S)
    PROVE  ProjectTypeOK'
  <1>1. MembersOK /\ RowsOK /\ RequestsOK
    BY DeletionParts, ProjectParts
  <1>2. RowsOK' /\ RequestsOK' /\ UNCHANGED Members
    BY <1>1, SomeRows, SameRows, SameRequests
  <1> QED
    BY <1>1, <1>2, Assembled

LEMMA SameProject ==
    ASSUME TypeOK, UNCHANGED projectVars
    PROVE  ProjectTypeOK' /\ UNCHANGED given
  BY DeletedTyped DEF projectVars, Members

LEMMA TypedFromParts == ProjectTypeOK' /\ PromptsOK' /\ JobsOK' => TypeOK'
  BY DEF TypeOK, PromptsOK, JobsOK

\* The steps.
LEMMA InitTyped == DeletionInit => TypeOK
  <1> SUFFICES ASSUME DeletionInit PROVE TypeOK
    OBVIOUS
  <1>1. ProjectTypeOK
    BY ProjectInitTyped
  <1>2. stores = [s \in Vias |-> {}] /\ prompts = <<>> /\ jobs = [j \in Jobs |-> NoJob]
    BY DEF DeletionInit
  <1>3. PromptsOK
    <2>1. Cardinality({}) <= MaxPending
      BY FS_EmptySet, DeletionConstants
    <2> QED
      BY <1>2, <2>1 DEF PromptsOK
  <1>4. JobsOK
    <2>1. given \in Nat
      BY <1>1, Given
    <2> HIDE DEF NoJob
    <2> QED
      BY <1>2, <2>1, NoJobOK DEF JobsOK
  <1> QED
    BY <1>1, <1>3, <1>4, DeletionParts

\* A handler of the bot that asks.
LEMMA AskTyped ==
    ASSUME TypeOK, NEW j \in Jobs, NEW action \in {"site", "admin_site", "user"},
           NEW i \in 0..given, NEW u \in Actors, NEW place \in {"ask", "show"},
           SetJob(j, [pc |-> place, action |-> action, target |-> i, by |-> u]),
           UNCHANGED <<stores, prompts, projectVars>>
    PROVE  TypeOK'
  <1> DEFINE job == [pc |-> place, action |-> action, target |-> i, by |-> u]
  <1>1. given \in Nat /\ UNCHANGED given
    BY DeletionParts, Given DEF projectVars
  <1>2. job \in Job /\ job.target <= given
    BY <1>1 DEF Job
  <1> HIDE DEF job
  <1>3. SetJob(j, job)
    BY DEF job
  <1>4. JobsOK'
    BY <1>1, <1>2, <1>3, SetJobTyped
  <1>5. ProjectTypeOK' /\ PromptsOK'
    BY <1>1, SameProject, SamePrompts
  <1> QED
    BY <1>4, <1>5, TypedFromParts

LEMMA SiteIds == ASSUME TypeOK, NEW i \in DOMAIN sites PROVE i \in 0..given
  BY DeletionParts, ProjectParts DEF RowsOK

LEMMA ShowTyped ==
    ASSUME TypeOK, NEW j \in Jobs, ShowPrompt(j)
    PROVE  TypeOK'
  <1> DEFINE job == jobs[j]
             p == Prompt("bot", job.action, job.target, job.by)
  <1>1. job \in Job /\ job.target <= given /\ job.pc = "show"
    BY DeletionParts DEF JobsOK, ShowPrompt
  <1>2. p \in Shown /\ p.target <= given
    BY <1>1, WorkingJob DEF Prompt, Shown, Vias
  <1>3. Show(p) /\ SetJob(j, NoJob) /\ UNCHANGED projectVars /\ UNCHANGED given
    BY DEF ShowPrompt, projectVars
  <1> HIDE DEF p
  <1>4. PromptsOK' /\ JobsOK' /\ ProjectTypeOK'
    BY <1>2, <1>3, ShownTyped, FreedJob, SameProject
  <1> QED
    BY <1>4, TypedFromParts

LEMMA PressTyped ==
    ASSUME TypeOK, NEW j \in Jobs, NEW t \in DOMAIN prompts, NEW u \in Actors,
           PressConfirm(j, t, u)
    PROVE  TypeOK'
  <1> DEFINE p == prompts[t]
             place == CASE p.action = "site" -> "role"
                        [] p.action = "user" -> "test"
                        [] OTHER -> "delete"
             job == [pc |-> place, action |-> p.action, target |-> p.target, by |-> u]
  <1>1. p \in Shown /\ p.target <= given /\ given \in Nat
    BY DeletionParts, Given DEF PromptsOK
  <1>2. SetJob(j, job) /\ p.runs < 2 /\ Drop("bot", t) /\ Used(t, p.action, p.target, u)
        /\ UNCHANGED projectVars /\ UNCHANGED given
    BY DEF PressConfirm, Spend, projectVars
  <1>3. job \in Job /\ job.target <= given
    <2>1. place \in {"role", "test", "delete"}
      OBVIOUS
    <2> HIDE DEF place, p
    <2> QED
      BY <1>1, <2>1 DEF Job, Shown
  <1> HIDE DEF job
  <1>4. JobsOK' /\ ProjectTypeOK'
    BY <1>2, <1>3, SetJobTyped, SameProject
  <1>5. PromptsOK'
    BY <1>2, ConfirmedTyped DEF Vias
  <1> QED
    BY <1>4, <1>5, TypedFromParts

LEMMA BotTyped ==
    ASSUME TypeOK, NEW j \in Jobs, BotStep(j)
    PROVE  TypeOK'
  <1>1. given \in Nat
    BY DeletionParts, Given
  <1>2. ASSUME NEW u \in Users, NEW i \in DOMAIN sites, AskSite(j, u, i) PROVE TypeOK'
    <2>1. i \in 0..given /\ u \in Actors
      BY SiteIds, DeletionConstants
    <2> QED
      BY <1>2, <2>1, AskTyped DEF AskSite
  <1>3. ASSUME NEW i \in DOMAIN sites, AskAsAdmin(j, "admin_site", i) PROVE TypeOK'
    <2>1. i \in 0..given /\ Admin \in Actors
      BY SiteIds, DeletionConstants
    <2> QED
      BY <1>3, <2>1, AskTyped DEF AskAsAdmin
  <1>4. CASE AskAsAdmin(j, "user", 0)
    <2>1. 0 \in 0..given /\ Admin \in Actors
      BY <1>1, DeletionConstants
    <2> QED
      BY <1>4, <2>1, AskTyped DEF AskAsAdmin
  <1>5. CASE ShowPrompt(j)
    BY <1>5, ShowTyped
  <1>6. ASSUME UNCHANGED <<stores, prompts>>, UNCHANGED given, ProjectTypeOK', JobsOK'
        PROVE  TypeOK'
    BY <1>1, <1>6, SamePrompts, TypedFromParts
  <1>7. ASSUME NEW next \in {"show", "delete"}, jobs[j].pc # "idle", GoesOnIfManager(j, next)
        PROVE  TypeOK'
    <2>1. UNCHANGED <<stores, prompts>> /\ ProjectTypeOK' /\ UNCHANGED given
      BY <1>7, SameProject DEF GoesOnIfManager
    <2>2. CASE SetJob(j, NoJob)
      BY <1>6, <2>1, <2>2, FreedJob
    <2>3. CASE SetJob(j, [jobs[j] EXCEPT !.pc = next])
      BY <1>6, <1>7, <2>1, <2>3, MovedJob
    <2> QED
      BY <1>7, <2>2, <2>3 DEF GoesOnIfManager
  <1>8. CASE TestMembers(j)
    <2>1. UNCHANGED <<stores, prompts>> /\ ProjectTypeOK' /\ UNCHANGED given
      BY <1>8, SameProject DEF TestMembers
    <2>2. CASE SetJob(j, NoJob)
      BY <1>6, <2>1, <2>2, FreedJob
    <2>3. CASE SetJob(j, [jobs[j] EXCEPT !.pc = "wipe"])
      <3>1. jobs[j].pc # "idle"
        BY <1>8 DEF TestMembers
      <3> QED
        BY <1>6, <2>1, <2>3, <3>1, MovedJob
    <2> QED
      BY <1>8, <2>2, <2>3 DEF TestMembers
  <1>9. CASE DeleteSite(j) \/ Wipe(j)
    <2>1. /\ UNCHANGED <<stores, prompts>> /\ UNCHANGED given /\ SetJob(j, NoJob)
          /\ UNCHANGED <<Members, given, requests>>
          /\ UNCHANGED sites \/ \E S : sites' = Without(S)
      BY <1>9 DEF DeleteSite, Wipe
    <2>2. ProjectTypeOK' /\ JobsOK'
      BY <2>1, DeletedTyped, FreedJob
    <2> QED
      BY <1>6, <2>1, <2>2
  <1>10. ASSUME NEW t \in DOMAIN prompts, NEW u \in Users \cup {Admin}, PressConfirm(j, t, u)
         PROVE  TypeOK'
    BY <1>10, PressTyped DEF Actors
  <1> QED
    BY <1>2, <1>3, <1>4, <1>5, <1>7, <1>8, <1>9, <1>10 DEF BotStep, AskRole, ReadRole

LEMMA ConsoleTyped ==
    ASSUME TypeOK, NEW t \in DOMAIN prompts, ConsoleStep(t)
    PROVE  TypeOK'
  <1>1. given \in Nat
    BY DeletionParts, Given
  <1>2. ASSUME NEW action, NEW i, Spend("web", t), Used(t, action, i, Admin),
               prompts[t].runs < 2, UNCHANGED jobs, UNCHANGED <<Members, given, requests>>,
               UNCHANGED sites \/ \E S : sites' = Without(S)
        PROVE  TypeOK'
    <2>1. Drop("web", t) /\ "web" \in Vias /\ UNCHANGED given
      BY <1>2 DEF Spend, Vias
    <2>2. PromptsOK'
      BY <1>2, <2>1, ConfirmedTyped
    <2>3. JobsOK' /\ ProjectTypeOK'
      BY <1>1, <1>2, SameJobs, DeletedTyped
    <2> QED
      BY <2>2, <2>3, TypedFromParts
  <1>3. CASE ConsoleDeleteUser(t)
    BY <1>2, <1>3 DEF ConsoleDeleteUser
  <1>4. ASSUME NEW i \in DOMAIN sites, ConsoleDeleteSite(t, i) PROVE TypeOK'
    BY <1>2, <1>4 DEF ConsoleDeleteSite
  <1>5. ASSUME NEW via \in Vias, TakeExpired(via, t) PROVE TypeOK'
    <2>1. Drop(via, t) /\ UNCHANGED <<prompts, given>> /\ UNCHANGED jobs /\ UNCHANGED projectVars
      BY <1>5 DEF TakeExpired, Rest, projectVars
    <2> QED
      BY <1>1, <2>1, TookTyped, SameJobs, SameProject, TypedFromParts
  <1> QED
    BY <1>3, <1>4, <1>5 DEF ConsoleStep

LEMMA RestTyped ==
    ASSUME TypeOK, UNCHANGED Rest, PromptsOK'
    PROVE  TypeOK'
  <1>1. given \in Nat
    BY DeletionParts, Given
  <1>2. UNCHANGED jobs /\ UNCHANGED projectVars /\ UNCHANGED given
    BY DEF Rest, projectVars
  <1> QED
    BY <1>1, <1>2, SameJobs, SameProject, TypedFromParts

LEMMA AskedOfConsoleTyped ==
    ASSUME TypeOK, NEW action \in {"site", "user"}, NEW i \in 0..given, ConsoleAsk(action, i)
    PROVE  TypeOK'
  <1> DEFINE p == Prompt("web", action, i, Admin)
  <1>1. given \in Nat
    BY DeletionParts, Given
  <1>2. Show(p) /\ UNCHANGED Rest /\ UNCHANGED given
    BY DEF ConsoleAsk, Rest, projectVars
  <1>3. p \in Shown /\ p.target <= given
    BY <1>1, DeletionConstants DEF Prompt, Shown, Vias
  <1> HIDE DEF p
  <1>4. PromptsOK'
    BY <1>2, <1>3, ShownTyped
  <1> QED
    BY <1>2, <1>4, RestTyped

LEMMA RestartTyped ==
    ASSUME TypeOK, Restart
    PROVE  TypeOK'
  <1>1. ProjectTypeOK /\ PromptsOK /\ given \in Nat /\ MembersOK /\ RowsOK
    BY DeletionParts, Given, ProjectParts
  <1>2. /\ stores' = [s \in Vias |-> {}] /\ jobs' = [j \in Jobs |-> NoJob]
        /\ requests' = [r \in Requests |-> Idle]
        /\ UNCHANGED <<prompts, given, sites>> /\ UNCHANGED Members
    BY DEF Restart, Members
  <1>3. PromptsOK'
    <2>1. Cardinality({}) <= MaxPending
      BY FS_EmptySet, DeletionConstants
    <2> QED
      BY <1>1, <1>2, <2>1 DEF PromptsOK
  <1>4. JobsOK'
    <2> HIDE DEF NoJob
    <2> QED
      BY <1>1, <1>2, NoJobOK DEF JobsOK
  <1>5. RequestsOK'
    <2>1. RequestOK(Idle, given')
      BY <1>1, <1>2, IdleOK
    <2> HIDE DEF Idle
    <2> QED
      BY <1>2, <2>1 DEF RequestsOK
  <1>6. ProjectTypeOK'
    BY <1>1, <1>2, <1>5, SameRows, Assembled
  <1> QED
    BY <1>3, <1>4, <1>6, TypedFromParts

LEMMA NextTyped == TypeOK /\ [Next]_allVars => TypeOK'
  <1> SUFFICES ASSUME TypeOK, [Next]_allVars PROVE TypeOK'
    OBVIOUS
  <1>1. ProjectTypeOK /\ given \in Nat
    BY DeletionParts, Given
  <1>2. CASE ProjectStep /\ UNCHANGED deletionVars
    <2>1. ProjectTypeOK' /\ given <= given'
      BY <1>1, <1>2, ProjectStepTyped
    <2>2. given' \in Nat
      BY <2>1, ProjectParts, ProjectConstants DEF ProjectTypeOK
    <2>3. UNCHANGED <<prompts, stores>> /\ UNCHANGED jobs
      BY <1>2 DEF deletionVars
    <2> QED
      BY <2>1, <2>2, <2>3, SamePrompts, SameJobs, TypedFromParts
  <1>3. ASSUME NEW t \in DOMAIN prompts, NEW u \in Users \cup {Admin}, PressCancel(t, u)
        PROVE  TypeOK'
    <2>1. Drop("bot", t) /\ "bot" \in Vias /\ UNCHANGED <<prompts, given>> /\ UNCHANGED Rest
      BY <1>3 DEF PressCancel, Spend, Vias, Rest, projectVars
    <2> QED
      BY <2>1, TookTyped, RestTyped
  <1>4. ASSUME NEW i \in DOMAIN sites, ConsoleAsk("site", i) PROVE TypeOK'
    BY <1>4, SiteIds, AskedOfConsoleTyped
  <1>5. CASE ConsoleAsk("user", 0)
    <2>1. 0 \in 0..given
      BY <1>1
    <2> QED
      BY <1>5, <2>1, AskedOfConsoleTyped
  <1>6. ASSUME NEW via \in Vias, Expire(via) PROVE TypeOK'
    BY <1>6, ExpiredTyped, RestTyped
  <1>7. CASE UNCHANGED allVars
    <2>1. UNCHANGED Rest /\ UNCHANGED <<prompts, stores>> /\ UNCHANGED given
      BY <1>7 DEF allVars, deletionVars, projectVars, Rest
    <2>2. PromptsOK'
      BY <1>1, <2>1, SamePrompts
    <2> QED
      BY <2>1, <2>2, RestTyped
  <1> QED
    BY <1>2, <1>3, <1>4, <1>5, <1>6, <1>7, BotTyped, ConsoleTyped, RestartTyped
    DEF Next, DeletionStep

\* Confirmations are kept by the store they were shown through, no more than it may hold,
\* and what they, the handlers and the requests name existed once: issue() and take() of
\* both stores, with every handler that deletes (ConfirmationStore, ConsoleStore).
THEOREM TypeCorrect == Spec => []TypeOK
  <1> QED
    BY InitTyped, NextTyped, PTL DEF Spec

-----------------------------------------------------------------------------
(* The uses of a confirmation.                                             *)

\* What is in a store was not used yet, and what was used did as it was shown.
ConfirmInv ==
    /\ \A via \in Vias : \A t \in stores[via] : prompts[t].runs = 0
    /\ ConfirmedAsShown

LEMMA ConfirmInit == DeletionInit => ConfirmInv
  BY DEF DeletionInit, ConfirmInv, ConfirmedAsShown

\* No history is written, and nothing enters a store.
LEMMA ConfirmKept ==
    ASSUME ConfirmInv, DOMAIN prompts' = DOMAIN prompts,
           \A t \in DOMAIN prompts : /\ prompts'[t].runs = prompts[t].runs
                                     /\ prompts'[t].astray = prompts[t].astray,
           \A via \in Vias : stores'[via] \subseteq stores[via] \cap DOMAIN prompts
    PROVE  ConfirmInv'
  BY DEF ConfirmInv, ConfirmedAsShown

LEMMA ConfirmSame ==
    ASSUME TypeOK, ConfirmInv, UNCHANGED <<prompts, stores>>
    PROVE  ConfirmInv'
  <1>1. stores \in [Vias -> SUBSET DOMAIN prompts]
    BY DeletionParts DEF PromptsOK
  <1> QED
    BY <1>1, ConfirmKept

LEMMA ConfirmTook ==
    ASSUME TypeOK, ConfirmInv, NEW via \in Vias, NEW t, Drop(via, t), UNCHANGED prompts
    PROVE  ConfirmInv'
  <1>1. stores \in [Vias -> SUBSET DOMAIN prompts]
    BY DeletionParts DEF PromptsOK
  <1>2. \A v \in Vias : stores'[v] \subseteq stores[v]
    BY DroppedTyped
  <1> QED
    BY <1>1, <1>2, ConfirmKept

\* A new confirmation was not used.
LEMMA ConfirmShown ==
    ASSUME TypeOK, ConfirmInv, NEW p, Show(p), p.via \in Vias, p.runs = 0, ~p.astray
    PROVE  ConfirmInv'
  <1> DEFINE n == Len(prompts) + 1
             store == stores[p.via]
  <1>1. /\ prompts \in Seq(Shown) /\ prompts' = Append(prompts, p)
        /\ stores' = [stores EXCEPT ![p.via] = Issued(@, n)]
        /\ stores \in [Vias -> SUBSET DOMAIN prompts]
    BY DeletionParts DEF Show, PromptsOK
  <1>2. /\ n \in Nat /\ DOMAIN prompts' = DOMAIN prompts \cup {n} /\ n \notin DOMAIN prompts
        /\ prompts'[n] = p /\ \A t \in DOMAIN prompts : prompts'[t] = prompts[t]
    BY <1>1
  <1>3. store \in SUBSET Nat /\ IsFiniteSet(store)
    BY StoreFinite
  <1>4. Issued(store, n) \subseteq store \cup {n}
    <2> HIDE DEF store, n
    <2> QED
      BY <1>2, <1>3, IssuedFits
  <1> HIDE DEF n
  <1>5. \A via \in Vias : stores'[via] \subseteq stores[via] \cup {n}
    BY <1>1, <1>4
  <1>6. \A via \in Vias : stores[via] \subseteq DOMAIN prompts
    BY <1>1
  <1>7. \A via \in Vias : \A t \in stores'[via] : prompts'[t].runs = 0
    BY <1>2, <1>5, <1>6 DEF ConfirmInv
  <1>8. ConfirmedAsShown'
    BY <1>2 DEF ConfirmInv, ConfirmedAsShown
  <1> QED
    BY <1>7, <1>8 DEF ConfirmInv

\* A confirmation that is used was in its store, and is in none then.
LEMMA ConfirmUsed ==
    ASSUME TypeOK, ConfirmInv, NEW via \in Vias, NEW t, NEW action, NEW target, NEW by,
           Valid(via, t, action, target, by), Spend(via, t), Used(t, action, target, by)
    PROVE  ConfirmInv'
  <1>1. PromptsOK
    BY DeletionParts
  <1>2. t \in stores[via] /\ t \in DOMAIN prompts /\ prompts[t].via = via /\ prompts[t].runs = 0
    BY <1>1 DEF Valid, PromptsOK, ConfirmInv
  <1>3. /\ ~prompts[t].astray /\ ~prompts[t].over
        /\ prompts[t].action = action /\ prompts[t].target = target /\ prompts[t].actor = by
    BY <1>2 DEF Valid, ConfirmInv, ConfirmedAsShown
  <1>4. /\ DOMAIN prompts' = DOMAIN prompts
        /\ \A s \in DOMAIN prompts : s # t => prompts'[s] = prompts[s]
        /\ prompts'[t].runs = 1 /\ ~prompts'[t].astray
    BY <1>2, <1>3, UsedTyped
  <1>5. /\ stores'[via] = stores[via] \ {t}
        /\ \A v \in Vias : stores'[v] \subseteq stores[v]
    BY DroppedTyped DEF Spend
  <1>6. \A v \in Vias : t \notin stores'[v] /\ stores'[v] \subseteq DOMAIN prompts
    BY <1>1, <1>2, <1>5 DEF PromptsOK
  <1>7. \A v \in Vias : \A s \in stores'[v] : prompts'[s].runs = 0
    BY <1>4, <1>5, <1>6 DEF ConfirmInv
  <1>8. ConfirmedAsShown'
    BY <1>4 DEF ConfirmInv, ConfirmedAsShown
  <1> QED
    BY <1>7, <1>8 DEF ConfirmInv

LEMMA ConfirmStep == TypeOK /\ ConfirmInv /\ [Next]_allVars => ConfirmInv'
  <1> SUFFICES ASSUME TypeOK, ConfirmInv, [Next]_allVars PROVE ConfirmInv'
    OBVIOUS
  <1>1. "bot" \in Vias /\ "web" \in Vias
    BY DEF Vias
  <1>2. CASE UNCHANGED <<prompts, stores>>
    BY <1>2, ConfirmSame
  <1>3. ASSUME NEW j \in Jobs, BotStep(j) PROVE ConfirmInv'
    <2>1. CASE ShowPrompt(j)
      BY <1>1, <2>1, ConfirmShown DEF ShowPrompt, Prompt
    <2>2. ASSUME NEW t, NEW u, PressConfirm(j, t, u) PROVE ConfirmInv'
      BY <1>1, <2>2, ConfirmUsed DEF PressConfirm
    <2> QED
      BY <1>2, <1>3, <2>1, <2>2 DEF BotStep, AskSite, AskRole, GoesOnIfManager, AskAsAdmin,
         ReadRole, DeleteSite, TestMembers, Wipe
  <1>4. ASSUME NEW t \in DOMAIN prompts, ConsoleStep(t) PROVE ConfirmInv'
    <2>1. CASE ConsoleDeleteUser(t)
      BY <1>1, <2>1, ConfirmUsed DEF ConsoleDeleteUser
    <2>2. ASSUME NEW i, ConsoleDeleteSite(t, i) PROVE ConfirmInv'
      BY <1>1, <2>2, ConfirmUsed DEF ConsoleDeleteSite
    <2>3. ASSUME NEW via \in Vias, TakeExpired(via, t) PROVE ConfirmInv'
      BY <2>3, ConfirmTook DEF TakeExpired
    <2> QED
      BY <1>4, <2>1, <2>2, <2>3 DEF ConsoleStep
  <1>5. ASSUME NEW t, NEW u, PressCancel(t, u) PROVE ConfirmInv'
    BY <1>1, <1>5, ConfirmTook DEF PressCancel, Spend
  <1>6. ASSUME NEW action, NEW i, ConsoleAsk(action, i) PROVE ConfirmInv'
    BY <1>1, <1>6, ConfirmShown DEF ConsoleAsk, Prompt
  <1>7. ASSUME NEW via \in Vias, Expire(via) PROVE ConfirmInv'
    <2>1. UNCHANGED stores /\ DOMAIN prompts' = DOMAIN prompts
          /\ \A t \in DOMAIN prompts : prompts'[t].runs = prompts[t].runs
                                       /\ prompts'[t].astray = prompts[t].astray
      BY <1>7, ExpiredTyped
    <2>2. \A v \in Vias : stores[v] \subseteq DOMAIN prompts
      BY DeletionParts DEF PromptsOK
    <2> QED
      BY <2>1, <2>2, ConfirmKept
  <1>8. CASE Restart
    BY <1>8 DEF Restart, ConfirmInv, ConfirmedAsShown
  <1> QED
    BY <1>2, <1>3, <1>4, <1>5, <1>6, <1>7, <1>8 DEF Next, DeletionStep, allVars, deletionVars

\* A confirmation begins one deletion at most, the one that was shown, of the user it was
\* shown to, and in time, however often and by whom its button is pressed or its form is
\* sent, and whatever is restarted between: take() removes what it returns.
THEOREM ConfirmedOnce == Spec => []ConfirmedAsShown
  <1>1. ConfirmInv => ConfirmedAsShown
    BY DEF ConfirmInv
  <1> QED
    BY <1>1, InitTyped, NextTyped, ConfirmInit, ConfirmStep, PTL DEF Spec

=============================================================================
