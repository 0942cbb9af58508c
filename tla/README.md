# MyPresence: specifications and proofs

TLA+ models of the parts of MyPresence where several requests, databases and
background timers meet, the TLC runs that check them, and theorems about them
checked by TLAPS. Paths below are relative to the repository.

## 1. The system

MyPresence is one Go process (`main.go`) that serves HTTP; `net/http` runs every
request in a goroutine of its own. State is kept in SQL databases through
`internal/db`. The default driver is SQLite with **five separate files** (core,
presence, floorplan, projects, audit), each behind a pool of up to ten
connections (`db.go:50-79`); the network drivers put all tables in one database.
No lock and, with three small exceptions, no transaction spans two statements
of a handler, and nothing can span two files. A handler is therefore a sequence
of atomic statements interleaved with those of every other request, and a
handler that reads, decides and writes may decide on state that is gone.

| Component | State | Operations | Interacts with |
|---|---|---|---|
| Presence declarations (`handlers/calendar.go`, `db/db.go`) | `presences` rows: one per user, date and half | SetPresences, ClearPresences | certifications (reads), reservations (deletes), log, O365 trigger |
| Monthly certification (`handlers/calendar.go`, `db/certifications.go`) | `declaration_certifications` | CertifyMonth, DecertifyMonth | presences, holidays (reads) |
| Presence log and pages | `presence_logs`, append only | LogPresenceAction; GetPresenceOverrides reads the last row of a day; the calendar page, the log pages | written by both edits |
| Desk reservations (`handlers/floorplan.go`, `db/db.go`) | `seat_reservations` (another file) | reserve, bulk reserve, cancel, cancel by dates, cleanup after edits | on-site status of presences |
| Floor plans, desks, favourites (`handlers/floorplan.go`) | rows, one image file per plan | create, delete, upload, toggle; plan, picker and calendar marks | reservations |
| Statuses | `statuses` with on-site and billable flags | create, update, delete | give presences their meaning for desks and timesheets |
| Manual timesheets (`handlers/project_activities.go`, `project_certifications.go`) | `project_activities` (projects file), `project_certifications` (presence file) | create, update, delete, whole-day save, certify, decertify | billable weight of presences |
| O365 synchronisation (`internal/o365`) | debounce timers in memory, tokens, `calendar_sync_events`, the Outlook calendar | Trigger, SyncMonth, token refresh, toggle, Disconnect | presences, Microsoft Graph |
| Percentage-mode projects (`handlers/projects.go`) | `project_time_entries` | SetProjectTime under a billable cap; the projects report | presences, certifications |
| Accounts and sessions (`db/db.go`, `handlers/auth.go`, `reset_password.go`) | `users`, `sessions`, a 15-second cache in memory, reset links | login, logout, change and reset of passwords, disable, delete | everything: each request looks its session up |
| Passkeys (`handlers/auth_passkey.go`) | challenges in memory, credentials | registration and login ceremonies, deletion | sessions |
| Impersonation (`handlers/settings.go`) | two cookies of a browser, sessions | impersonate, exit | sessions |
| Login limiter (`middleware/security.go`) | one counter per address in memory | Allow, RecordFailure, Reset, cleanup | logins, reset links |
| Teams and members (`handlers/admin.go`, `db/db.go`) | `user_teams` with departure dates, `team_leaders` | add, pre-provision, remove, depart, lead, delete | who may edit whom |
| Sites, domains, statuses as records (`handlers/sites.go`, `admin_domains.go`) | rows and the links to them | link, detach, delete | users, plans, teams, presences |
| Reminders (`internal/reminders`) | last run date in memory, `notifications` | ticker at 09:00, forced run | presences, activities |
| News (`db/news.go`, `setup.go`) | `news_messages`, a 30-second list in memory | edits, refresh | every page |
| Reports (`activity.go`, `sites_report.go`, `projects.go`) | none of their own | several queries, then sums | presences, holidays, reservations, entries |
| Start-up (`db/db.go`) | the files of an earlier version | migrate, copy, seed | – |
| Settings, metrics, mail, Jira, i18n, MCP server, front end | none of their own | read, format, send | – |

What makes them correct, and hard to test:

* **Declarations.** A day holds a full-day row or half-day rows, never both. An
  edit reaches no certified month; "certified" is looked up once per month of
  the request, before the write.
* **Certification.** Only a complete month is certified, and it stays as it was
  until a decertification; the two reads and the insert are separate.
* **Log.** The last log row of a day must tell the state of the day, and the
  pages that show it, each with an order and a cut of its own, must agree.
* **Desks.** No two people at a desk, no one at two desks, no desk for someone
  who is off-site, although count, count and insert are separate and the
  presence lives in another file; an edit cleans up after its own write; and the
  three views of the same rows agree on what is free.
* **Timesheets.** A day never holds more than its billable weight, which the
  calendar may change meanwhile; a certified month does not change; whole-day
  saves delete and re-insert without a transaction. In percentage mode the cap
  is three reads away from the write, and what a page offers a save must accept.
* **O365.** Every change of an auto-synchronised month reaches Outlook; runs
  overlap, fail half-way and refresh tokens; nothing but the record of an event
  lets the server find it again.
* **Accounts.** A change of password, role or state must reach a cache that is
  filled beside it, and end the sessions it is meant to end.
* **Administration.** Records live in five files and foreign keys hold on one
  connection, so a deletion is a chain of statements others interleave with.
* **Reminders, news, reports.** A clock, a cache or several queries stand
  between the rows and what is shown; each must be late by no more than it says.
* **Start-up.** A stop between any two statements, or a failure nobody is told
  of, must lose no row and bring none back.

`PROJECT.json` lists every component with its status, and every hazard at its
line, with the properties that would catch it or the reason none does.

## 2. The modules

| Module | Models | Notes |
|---|---|---|
| `Halves` | the half-day algebra of `DB.SetPresences`, `DB.ClearPresences`, `halfOverlaps` | pure operators, shared by five modules |
| `CertificationLedger` | the abstract promise: certified months are complete and frozen | each request one step; `Calendar` implements it (`INSTANCE ... WITH`) |
| `Calendar` | `calendar.go` 268-664 over `db.go`, and the debounced trigger | state machine, 20 actions |
| `CalendarProofs` | theorems about `Calendar` | |
| `Booking` | `floorplan.go` 158-237, 654-745, the cleanup in `calendar.go`, `UpdateStatus`; EXTENDS `Calendar` | composition; implements `Calendar` |
| `ReservationProofs` | theorems about `Booking` | |
| `ProjectActivities` | `project_activities.go`, `project_certifications.go` | |
| `O365Sync` | `internal/o365`, `db/o365.go`, `handlers/o365.go`, one user's month | timers, overlapping runs, Graph calls that fail |
| `Accounts` | users, sessions and their cache, passwords, reset links | a clock, expiries, requests in flight |
| `LoginLimiter` | `LoginRateLimiter` for one address | a clock |
| `Passkeys` | the two WebAuthn ceremonies | the library is external: it accepts an answer or not |
| `Impersonation` | `ImpersonatePost`, `ImpersonateExitPost`, logout beside them | a browser's two cookies |
| `ProjectTime` | the list of projects, `SetProjectTime` and its cap, certification, edits of projects and their members | statement by statement |
| `PresencePages` | the calendar page, built query by query beside edits, and the log pages | the whole log, in the order of its ids |
| `Reports`, `SitesReport` | the activity page of a team, the sites report | query by query beside edits and failures, then the sums |
| `ProjectsReport` | the projects report | one step, then the sums |
| `Reminders` | the worker, notifications | a clock with the 09:00 window |
| `News` | banners and the cached list | a clock with midnights |
| `Directory` | links to sites, domains and statuses, and their deletion | |
| `TeamRoster` | users, teams, members, leaders | foreign keys on or off per statement |
| `Desks` | plans, desks, and the views of the reservations | foreign keys on or off per statement |
| `PlanImages` | image files, favourites | |
| `Startup` | a start on the files of an earlier version | may stop between any two statements, and goes on after those whose errors it drops |
| `Totals` | `SumOf`, the sum of a function's values | used by the three reports |
| `FiniteSums` | lemmas about sums over finite sets | |
| `TimesheetProofs` | theorems about `ProjectActivities`, `ProjectTime` and their composition | |
| `AccountProofs` | theorems about `LoginLimiter`, `Passkeys`, `Accounts`, `Impersonation` | |
| `AdministrationProofs` | theorems about `Directory`, `News`, `PlanImages`, `Desks`, `TeamRoster`, `Startup`, `Reminders` | |
| `ReportProofs` | theorems about `PresencePages`, `Reports`, `SitesReport`, `ProjectsReport`, and about all the services of `MCServices` together | |
| `O365Proofs` | theorems about `O365Sync` | |
| `MCCalendar`, `MCBooking`, `MCActivities`, `MCO365`, `MCReportMonths` | instances for TLC | |
| `MCServices` | the fifteen components that share no table, as one instance | see section 3 |
| `MCTimesheets` | `ProjectActivities` and `ProjectTime`, as one instance | see section 3 |

### How a request is modelled

A request is a worker `w` with a program counter `pc[w]` and its arguments
`req[w]` (`stage[b]`, `order[b]` for reservations). One action is one statement
or one transaction with everything the handler does until the next one. The
statement that decides and the one that writes are different actions, as in the
code. In `Calendar`:

| pc | statement | action |
|---|---|---|
| idle | validation, permission, holiday map | `SetPresences`, `ClearPresences` |
| idle | holiday map, presences, completeness | `CertifyMonth` |
| check | one `IsMonthCertified` per month, in any order | `CheckMonth` |
| write | the transaction of `DB.SetPresences`; the DELETE of `DB.ClearPresences`; the certification INSERT | `SetWrite`, `ClearWrite`, `CertifyInsert` |
| scan | clear only: one on-site lookup per date | `CancelReservations`, refined by `Booking!ScanDate` |
| cancel | `CancelUserReservationsForDates` | `CancelReservations`, refined by `Booking!CancelOnDates` |
| log | the transaction of `LogPresenceAction` | `LogPresenceAction` |
| trigger | token read and `Debouncer.Trigger` for the month of one of the dates | `Trigger` |

`DecertifyMonth` and the cancellations are one statement, hence one action.
`StatementFails` ends a request whose statement failed (HTTP 500); `TailFails`
is a failed log insert or token read, which the handlers ignore; `Restart`
drops requests and timers. They, and the branches for errors the code drops
(holiday map, seat counts, on-site lookups), are enabled by the constant
`Faults`.

`Booking` adds the reservation requests (`site` – on-site lookup, `seat`,
`sitter` – the two counts, `insert`), gives the calendar's `scan` and `cancel`
phases their real effect, and adds the edit of a status's on-site flag. Every
step of a `Booking` behaviour is a step or a stutter of `Calendar`.

`ProjectActivities` has the same shape: `weight`, `total` (validation), `cert`
(`rejectIfProjectMonthCertified`), `write`/`fill` (writes), `sum`, `lock`
(certification). The order differs per handler as in the code: a creation or an
update is validated before the certification lookup, a whole-day save after it.

The later modules keep that shape with a record per request: `runs[r].stage` in
`O365Sync`, `requests[q].stage` in `Accounts`, `savers`, `posts`, `steward`,
`page`, `report`. What differs from one to the next:

* `O365Sync`. A timer is waiting, fired (its callback waits for the mutex) or
  gone; `Trigger` replaces the map's entry under the mutex, and a callback
  deletes whatever entry the map then has. A run of `SyncMonth` reads the token
  (and refreshes it), the presences and the records, then goes through its
  slots: create or update the event, save the record; delete the event, delete
  the record; then the second loop over what its copy of the records still
  holds. Every call to Graph may fail, be answered "not found", or succeed.
  A slot is a date and a half of it.
* `Accounts`. A lookup that misses the cache reads the database in one step and
  stores what it read in another. Most writers clear the cache, then write; the
  name that SAML sends is written with no word to the cache (`UpsertUser`), which
  only the roles mapped from groups clear (`SyncRoles`). A change of password
  compares the old one as a login does, and both hash a plain text again. The two
  DELETEs whose errors are dropped may fail and the request goes on
  (`SweepFails`, `ConsumeFails`); sessions and links expire. The clock's tick is a
  fraction of the 15 seconds.
* `LoginLimiter`. Each method is one step, as it holds the lock; a login's
  outcome comes any time after it was let through.
* `Passkeys`. `LoadAndDelete` is one step; the handler then reads the
  credential, verifies and writes it back with the count it was given.
* `Impersonation`. A request carries the cookies of the moment it was sent and
  sets them when its answer arrives, which may be never.
* `Directory`, `TeamRoster`, `Desks`. Where SQLite enforces foreign keys only on
  the connection that ran the PRAGMA (`db.go:66`), a statement finds them
  enforced or not.
* `Reports`, `SitesReport`. A page is a chain of queries, each a step, with edits
  between. A query may fail; its error is dropped, and the page goes on with
  nothing or with the rows it had. `Reports` marks the figures that an edit or a
  failure between their own queries may have led astray (`unsure`),
  `SitesReport` the dates of a user whose reservations changed or were not all
  read (`lost`). The sites report reads its users, sites and teams in one step
  with the reservations, and edits of those beside it are left out. When the users
  of the sites cannot be read but the list of users can, the handler may write
  into a nil map (`sites_report.go:205`) and the request ends without a page
  (`WritesNilMap`). The totals are computed as the code computes
  them, from what each query returned. Amounts are in half-days.
* `ProjectsReport`. The report is one step and edits come only while none is
  shown: the module is about which months are columns and how the sums are made,
  and no interleaving within the report is explored.
* `Startup`. A start is a chain of statements. Each whose error the code drops,
  the look for the half column, CREATE, copy, DROP and RENAME of the presences
  table and the count of the statuses among them, may fail while the start goes
  on (`Drops`); one whose error ends the start is a stop, and the server may stop
  between any two. A later start finds what is there.
* `PlanImages`. The lookup of the old image and its removal may fail unseen; such
  a plan is `spoiled` from then on.
* `Reminders`, `News`. The date and the time of day are variables; the clock
  does not wait for a run or a refresh, but a refresh of the list takes less
  than a tick. `News` remembers for how many ticks each row and each date has
  been gone.

### Abstractions

* A date is a member of a small set with its month; a half is one of the
  program's three; a status is a model value. Invalid dates and halves end in an
  error without effect and are left out. (A reservation's half is not validated
  by the code; the model uses the halves clients send.)
* In `Calendar`, roles, team leads, holidays and the auto-sync flag do not
  change: each is read once per request. Roles change in `Accounts` and
  `Impersonation`, leads in `TeamRoster`, holidays in `Reports`, the flag in
  `O365Sync`.
* In `Calendar`, `presence_logs` is reduced to the newest row per user and date,
  the one that `GetPresenceOverrides` reads; `PresencePages` has every row, with
  its second, and there an edit is two steps, its lookup and write and then its
  log row. The audit log, metrics and messages are left out.
* In `Calendar` a debounce timer is armed for a user and a month, and a third
  component tells it from the timer it replaced: `Trigger` stops the one there is
  and starts another (`debouncer.go:41-45`). `TimerFires` is a synchronisation
  that succeeds; `O365Sync` models what happens otherwise.
* A reservation's guest is a name up to case and blanks; `"self"` is none. In
  `Desks` a reservation is one step: its races are those of `Booking`.
* Percentages are whole, so the tolerance of 0.001 has nothing to absorb. The
  weight of a day in `ProjectActivities` follows from the billable rows the day
  may have; that these are a full-day row or half-day rows is
  `Calendar!HalvesExclusive`.
* An e-mail address is one up to case (see the hazard at `auth.go:345`).
  Passwords are model values, and hashing keeps or loses the plain text only.
* One account, one address of the limiter, one browser, one synchronised month,
  one plan with images: rows of others are not read by the same code paths.
* History variables, never read by an action's guard, mark what a property
  excepts or compares, so that the property can be stated of every behaviour and
  names its exceptions one by one. `Calendar`: `dirty`; `early[w]`, months
  certified after `w` looked them up; `behind[w]`, dates another edit wrote
  between `w`'s write and its log row; `astray`, days whose newest write has no
  log row or one older than an earlier write's. `Booking`, per reservation:
  `rivals`, inserted between its seat count and its insert; `uncounted`, the
  counts of it that failed where they would have refused it; `overtaken`.
  `ProjectActivities`: `peak`, the largest weight a day has had; `late`, requests
  whose month was certified after they looked it up; `crossed[w]`, days others
  wrote after `w` had counted them; `blind`, activities last written by a request
  so crossed. `O365Sync`: `upset`, `swayed`, `wanted`, `owed`. `Accounts`:
  `clobbered`; `late`, sessions a login opened after a change, or a failed or
  skipped sweep left; `changes`, passwords set by the posts that deleted a link;
  of an entry, `excused` and `stale`. `Startup`: `failed`, `torn`. `News`:
  `rowPast`, `datePast`. The other modules have their like.
* The transaction of `DB.SetPresences`, a deletion of overlapping halves and an
  upsert, is one step, as SQLite serialises it; `HalvesExclusive` is about what it
  leaves and not about steps inside it.
* `MembershipsKept` says nothing of a membership whose INSERT failed while the
  request was answered ok (`Unsure`): the code cannot tell it from one it made.

## 3. The runs

Every run names its bounds in its `.cfg`. `CHECK_DEADLOCK` is on but for two
runs, `services` and `report_months`, whose behaviours end when their budget of
edits is spent; in the others some request can always begin.

| Run | Instance | Checks | Shows |
|---|---|---|---|
| `calendar_race` | 2 workers, 1 user, 2 months of one date each, whole and half days, faults | `TypeOK`, `HalvesExclusive`, `LateWritersWereEarly`, `FrozenUnlessEarly`, `LastLogTellsState` | what the certification check guarantees under any interleaving: a certified month changes only through a request that had looked it up before; and where the log may mislead: only on days whose last log row was lost or overtaken |
| `calendar_serial` | 1 worker, employee and manager, 3 dates, 2 months, a holiday | `ImplementsLedger` | without overlap the handlers implement the ledger (what overlap does is `calendar_race`) |
| `calendar_sync` | 2 workers, 1 month, fairness | `AutoSyncCatchesUp` | a changed month is eventually synchronised, unless edits keep postponing its timer |
| `calendar_forgotten` | 2 workers, 2 months, fairness | `AutoSyncCatchesUp` (violated) | finding 1 |
| `booking_overlaps` | 2 reservations in flight, 1 desk, the user or a guest, whole and half days, faults | `OverlapsWereConcurrent` | the counts prevent every overlap but that of concurrent requests, and that of a request whose very count failed |
| `booking_race` | 1 reservation against 2 edits with half days, 2 statuses that become on-site and cease to be, faults | `OffSiteWasOvertaken`, `BookingTypeOK`, `ImplementsCalendar` | cleanup leaves no off-site reservation but an overtaken one, and does not disturb the calendar |
| `timesheets` | manual: 2 edits in flight, 1 day, 2 activities ever, weights 0, 50 and 100, faults; percentages: 2 requests, 2 projects of 4 settings, 1 day | `TimesheetsTypeOK`, `WithinAllocation`, `CertifiedActivitiesKept`, `CertifiedWhenCovered`, `SavesMatchPage`, `CertifiedTimeKept` | allocation and certification of timesheets, see below |
| `activities_frozen` | 1 edit in flight, 1 day | `CertifiedActivitiesFrozen` (violated) | finding 2 |
| `o365_sync` | 1 slot, 3 statuses, 2 runs at once, 2 timers, 3 event ids, faults, fairness | `SyncTypeOK`, `CleanRunRepairs`, `NoOrphanUnlessUpset`, `ChoiceKept`, `QueuedIsCopied` | see below |
| `o365_update` | as `o365_sync`, 1 run at a time, 2 event ids | `OnlyClearedRemoved` (violated) | finding 3 |
| `services` | fifteen components | eighteen properties | see below |
| `report_months` | a calendar with a month of 28 days | `DefaultIsThreeMonths` (violated) | finding 4 |

`o365_sync` spends its edits and choices three ways (`Mixed`): mostly edits of
the presence, mostly choices of the user (toggle, connect, disconnect), or both.

* `QueuedIsCopied` – a queued change is copied by a complete run, in behaviours
  where nothing fails, restarts or overlaps for ever (`[]~upset`).
* `NoOrphanUnlessUpset` – an event that no record leads to comes only from
  overlapping runs, a failure or a disconnection.
* `CleanRunRepairs` – one undisturbed run makes the records match what is
  declared, whatever came before it.
* `ChoiceKept` – the token and its flag are as the user last chose, unless a
  refresh that had read the row before wrote it back.

`timesheets` is `MCTimesheets`. A team declares in one of two ways, which write
different tables, so a behaviour is of `ProjectActivities` (`manual`) or of
`ProjectTime`. Of the former:

* `WithinAllocation` – the activities of a day hold no more than its largest
  weight, but for an activity whose request had counted the day before another
  added to it; deletions, half-finished saves, restarts and weights that change
  between the queries are no excuse.
* `CertifiedActivitiesKept` – an activity of a certified month is lost or changed
  only by the write of a request that had looked the month up before.
* `CertifiedWhenCovered` – a month is certified only when its billable days are
  full, save the days that changed after the certification had read them.

Of the latter:

* `SavesMatchPage` – one query lists the projects a user may declare on, and a
  save repeats its conditions in three checks: a save is let through exactly for
  the projects the page lists, and leaves the total the page shows within its
  billable days, unless another write or an edit came between its statements.
* `CertifiedTimeKept` – only a save that had looked before the certification
  still writes to a certified month.

`services` is `MCServices`. Its components share no table, so no step of one
reads what another writes: a behaviour picks one (`picked`) and the others stay
in their initial state, which explores each component's whole state space in
one run and loses no behaviour a property could tell. `Pinned` fixes a single
initial state for those not picked. A group of names in the symmetry set stands
as a whole for a constant, never for a part of one.

| Property | Component | Instance | What it says |
|---|---|---|---|
| `ServicesTypeOK` | all | | the type invariant of the picked component |
| `StaleAnswersAreBrief` | `Accounts` | 2 requests, 2 sessions, 1 link, 3 changes, expiries or failures, cache of 2 ticks | a stale answer comes from an entry stored beside the change, or follows a name SAML sent or an expiry, and lasts less than the cache's age |
| `PasswordChangesHold` | `Accounts` | same | the last password set is the one stored, sessions of another one are gone after a sweep that succeeds, and the posts that delete a link set one password; excepted are a rehash and logins that the change overtook, a change without a session cookie, and a failed sweep until the next one |
| `PenaltyServed` | `LoginLimiter` | 3 logins in flight, limit 5, window 3 ticks | nothing is let through for the whole block, unless a login let through before ends late |
| `CeremoniesHold` | `Passkeys` | 2 challenges, 2 requests, 1 key, 2 signatures | a challenge opens one session or stores one credential (`CeremonyEndsOnce`), and the stored count falls only when two logins with the key overlapped (`SignCountGrows`) |
| `RemindedOnceADay` | `Reminders` | 1 member, 2 teams with unlike horizons, 3 dates, restarts | nobody is reminded twice a day of one thing, unless the lookup failed |
| `NobodyForgotten` | `Reminders` | same | who lacked something when the run ended was told, unless touched meanwhile |
| `DanglingWasLate` | `Directory` | a site, a domain, a status and a record of each kind, 2 administrators | a link to what is gone was made after the detaching or counting statement, or that failed |
| `PageReconciles` | `Reports` | 2 people, 2 teams that share one, holidays of countries, 2 edits or failures | totals, footer and summary agree, the missing days are those a member could declare, and no day marked as off is one of them; each but where an edit or a failure touched its own queries |
| `SitesReconcile` | `SitesReport` | 2 people and a guest, 2 sites, 2 domains and 2 teams without one, 3 edits or failures | presences are counted where the user's own desk is, unless the desks of that day are at two sites, were missed or changed; domains add up to the site, whichever lookup failed |
| `RangeReconciles` | `ProjectsReport` | 5 months, the report's cap lowered to 3 | months cover the range once, columns add up, in a report rendered in one step |
| `StartIsSafe` | `Startup` | 2 rows, 2 default statuses, 3 starts, at most 2 kinds of statement that fail unseen (`MaxDropped`) | no row is lost, none comes back, no status is seeded twice and no leader forgotten, but for the failures listed below |
| `DesksTold` | `Desks` | 2 plans, 2 desks, 2 users, 2 dates, a guest | the picker agrees with the plan of each day, and a refused reservation is shown with its row |
| `ImageKept` | `PlanImages` | 2 uploads, 2 formats, 1 user | the plan has the one file its row names, between requests that did not overlap and of which no lookup, write or removal failed |
| `MembershipsKept` | `TeamRoster` | 2 addresses, 3 ids, 1 team, 2 requests | an answered change of a membership holds; who may edit whom is what the lists show |
| `BannersAreCurrent` | `News` | 2 banners, 4 dates over the end of a month, 2 edits, lists of 2 ticks | a page shows of each banner what its row and the date were no longer ago than the list's age, so that a change, a deletion and midnight show in time |
| `ActingEnds` | `Impersonation` | 2 requests, 4 sessions, 4 switches | no session is left that no cookie holds, and a browser that stops acting is its user's own |
| `PagesAgree` | `PresencePages` | 2 people of a team, 1 date, 3 events, a log page of 2 rows | whatever is edited between its queries, a calendar page contradicts neither itself nor the log pages, but at dates edited since it began |

What a start may lose without giving up (`StartIsSafe`). Rows of before: when the
look for the half column, the CREATE, copy or RENAME of the new table, or the
copy of `app.db` fails, when `app.db` is too old to have halves, and when a start
stops between DROP and RENAME. Rows that a user removed come back when the
renaming of `app.db`, the DROP or the look for the half column fails. Statuses
are seeded again when their count fails, and some are missing when a start
stops among them. A leader is forgotten when the insertion fails. Nothing else
does any of these, and of each the property excepts only what it causes.

**Why the bounds suffice.** Every race of these handlers is between one reader's
check and one other request's write, so two requests show it; a third would
repeat one of the two. Two months tell "every month of the request" from "one
of them", two dates of a month tell complete from incomplete (in
`calendar_serial`). One desk, a guest and two halves let two requests meet at the
desk, which the first count tells, and at the person's name, which the second
does. Two activities of one day are what a total and a request that another
overtakes need: no statement of a timesheet request looks at another day but for
the certification, which adds up day by day. What these bounds leave out, a second
desk, a second day, a third request, the theorems of section 4 cover: each of
these properties is proved without bound or condition. Week-end dates (`WorkingDays = {}`)
keep certification, which has runs of its own, out of the booking runs. Two
teams of one person are what counting somebody twice needs, three starts are a
start, one that stops and one that finds what it left, and three logins are one
more than passes a limit reached in between. The slots of a synchronisation do
not read one another, so one shows what a run does to each. Clocks need one tick
before, at and after an age: the ages are 2 and 3. Budgets of edits bound the
length of behaviours, not which steps follow each other; those of `Accounts`,
`Reports` and `SitesReport` are spent by failures and expiries too, so one
failure beside one edit is within them. Symmetry is used only
in runs without liveness; a property that needs fairness has a run without it.
Workers, requests, desks and ids are interchangeable; in `calendar_race` so are
the two dates when their months are swapped with them, and in `booking_race` the
two statuses, neither of which is on-site at first.

**Fairness.** `CalendarFairness` asks weak fairness of each worker's next
statement (the Go scheduler runs every runnable goroutine, a statement returns)
and of each armed timer by itself: a timer that is not replaced elapses, but one
that each edit stops and starts anew never need. Edits inside the delay may so
postpone a synchronisation for ever, as `debouncer.go:41-45` has it, and
`AutoSyncCatchesUp` excepts exactly the user and month whose timer is replaced
for ever (`Postponed`). `FairSyncSpec` asks it of each timer's elapsing, of its
callback (a mutex that is always released) and of each run's next step. Neither
asks anything of users: no request need ever begin or be repeated; and neither
supposes that failures end: `QueuedIsCopied` speaks of behaviours without any,
because the code does not recover a synchronisation lost to a failure or restart.

### Findings

1. *An edit over several months synchronises one* (`calendar_forgotten`): only
   the month of `Dates[0]` is queued (`calendar.go:370`), against `README.md:372`.
2. *A certified timesheet month accepts new activities* (`activities_frozen`):
   `project_activities.go:208-210` lacks the `return` its three siblings have.
3. *A failed update deletes the event* (`o365_update`): `continue` at
   `sync.go:134` leaves the record in the map of "presences that were cleared"
   (`sync.go:160`), which the second loop removes from Outlook.
4. *The default report may skip February* (`report_months`): `AddDate(0, -1, 0)`
   from 29 to 31 March is in March (`projects.go:556`), against "current + 2
   previous" (`projects.go:548`).

Several promises hold only of requests that do not overtake one another, and are
listed as hazards; the properties say exactly what is left of each. A
certification inserted between a declaration's lookup and its write is overtaken
(`FrozenUnlessEarly`, and `CertifiedActivitiesKept` for timesheets); a desk may be
booked by someone whose presence is cleared meanwhile (`OffSiteWasOvertaken`), or
twice by two requests at once (`OverlapsWereConcurrent`); two creations at once
may exceed a day (`WithinAllocation`); and two edits may log a day in the other
order than they wrote it (`LastLogTellsState`).

## 4. What is proved

TLAPS checks the theorems below for every value of the constants that satisfies
the named assumption of the module (`CalendarAssumption`, `SyncAssumption` and so
on): any number of users, dates, statuses, rows and requests in flight, with or
without faults unless the last column says otherwise. The assumptions type the
constants and keep a "none" value (`NoTimer`, `NoImage`, `Unmade`) apart from the
real ones; TLC evaluates each in a run.

| Theorem | States | Under |
|---|---|---|
| `CalendarProofs!CalendarTypeOK` | `[]TypeOK` | |
| `HalvesAlwaysExclusive` | `[]HalvesExclusive` | |
| `LateWritersAlwaysEarly`, `CertifiedFreeze` | `[]LateWritersWereEarly`, `FrozenUnlessEarly` | |
| `UndisturbedImplementsLedger` | `ImplementsLedger`: each request is a step of `CertificationLedger` or a stutter | `[]Undisturbed` |
| `SerialImplementsLedger` | the same | one worker, no faults |
| `LogTellsState` | `[]LastLogTellsState` | |
| `ApartLogTellsAll` | the same, and `[](astray = {})`: the log tells every day | no faults, `[]EditsApart` |
| `ReservationProofs!BookingRefinesCalendar` | `ImplementsCalendar`: `BookingSpec => CalendarSpec` | |
| `BookingKeepsCalendarSafe` | `HalvesExclusive`, `LateWritersWereEarly`, `FrozenUnlessEarly` and `LastLogTellsState`, of `BookingSpec` | |
| `BookingTypeCorrect` | `[]BookingTypeOK` | |
| `OverlapsAlwaysConcurrent` | `[]OverlapsWereConcurrent` | |
| `OffSiteAlwaysOvertaken` | `[]OffSiteWasOvertaken` | |
| `AccountProofs!PenaltyIsServed` | `[]PenaltyServed` | |
| `CeremoniesAreHeld` | `CeremoniesHold` | |
| `AnswersAreBrieflyStale` | `[]StaleAnswersAreBrief` | |
| `PasswordChangesAreKept` | `[]PasswordChangesHold` | |
| `ActingAlwaysEnds` | `[]ActingEnds` | |
| `TimesheetProofs!TimesheetsHold` | `[]WithinAllocation`, `CertifiedActivitiesKept`, `CertifiedWhenCovered` | |
| `OneAtATime` | no day above its largest weight, no activity of a certified month lost or changed: the first two without their excuses | one worker |
| `TimesheetsWellTyped` | `[]TimesheetsTypeOK`, of `TimesheetsSpec` | |
| `DeclarationsKeepThePage` | `SavesMatchPage`, `CertifiedTimeKept` | |
| `AdministrationProofs!DanglingWasAlwaysLate` | `[]DanglingWasLate` | |
| `BannersStayCurrent` | `[]BannersAreCurrent` | |
| `ImagesAreKept` | `[]ImageKept` | |
| `DesksAreTold` | `[]DesksTold` | |
| `MembershipsAreKept` | `[]MembershipsKept` | |
| `StartsAreSafe` | `[]StartIsSafe` | |
| `RemindersAreSent` | `[]RemindedOnceADay`, `NobodyForgotten` | |
| `ReportProofs!PagesAlwaysAgree` | `[]PagesAgree` | |
| `PagesReconcile` | `[]PageReconciles` | |
| `SitesDoReconcile` | `[]SitesReconcile` | |
| `RangesReconcile` | `[]RangeReconciles` | |
| `ServicesWellTyped` | `[]ServicesTypeOK`, of `ServicesSpec` | |
| `ServicesHold` | the seventeen other properties of the `services` run, of `ServicesSpec` | |
| `O365Proofs!SyncWellTyped` | `[]SyncTypeOK` | |
| `CleanRunsRepair` | `[]CleanRunRepairs` | |
| `EventsAreRemembered` | `[]NoOrphanUnlessUpset` | |
| `ChoicesAreKept` | `[]ChoiceKept` | |

The type invariants of the other components are proved beside these
(`LimiterWellTyped`, `AccountsWellTyped` and so on). So every invariant and every
action property that a passing run checks is a theorem, for any number of users,
rows, requests and failures; what a property excepts is part of the property, and
each exception is recorded by a history variable at the step that causes it.

Four theorems have a condition, because they state what the code promises only
of requests that keep out of each other's way. `Undisturbed`: no request in
flight acts on a check that another has overtaken; the ledger has requests that
take effect at one moment, and a request overtaken between its check and its
write has no such moment. `EditsApart` and no faults: no two edits of one user's
days overlap, so that no log row is lost or out of order. One worker: requests
come one after another, so that nobody is overtaken.

### The arguments

An invariant a run checks is seldom inductive: it speaks of rows, and a step
keeps it because of what a request in flight has read. Each proof therefore
strengthens the property with what a request at each stage still knows, and
under which excuse it may not. In the order of the proof modules:

* **Calendar.** `TypeInv` adds to `TypeOK` what a request at each phase holds
  (`RequestShape`). Two lemmas about `Halves` keep a day exclusive. A check moves
  a month out of `todo` only when it is not certified, and a certification makes
  early exactly those past their check; `CertifiedFreeze` then needs no induction.
  For the ledger, an undisturbed edit at its write found all of its months open
  and they still are, so its write is the ledger's step. For the log, the
  property speaks of days that nobody is about to log, which is not inductive:
  `LogFollows` says that a request that has a day to log and is not `behind` is
  about to log it as it is, and that a day not `astray` is told as soon as all
  who have yet to log it are behind. A row of one that is not behind then makes
  the log tell the day again; the row of one that is behind puts the day astray,
  and so does a row that is lost, unless a later one is still to come
  (`WriteIsLogged`, `LogUntouched`).
* **Reservations.** Each action of `Booking` is an action of `Calendar` or a
  stutter (`CleanupRefines`, `BookerFrame`), so the calendar's theorems carry
  over. `RivalsInv`: a request past its seat count has every overlapping
  reservation of that seat among its rivals, past its second count also those of
  the same person, unless that count failed and would have refused it, which it
  then carries (`uncounted`) into its row; and ids grow. `SeatedOnSite`: a request past its on-site
  lookup is on-site or overtaken, and a cancellation that is due has nothing left
  to scan, so whoever is off-site with a desk has it among the dates to cancel.
* **Accounts.** The limiter: a started block keeps its start until it has run
  (`PenaltyRuns`). Passkeys: whoever is past `LoadAndDelete` is alone with its
  challenge, which has led to nothing (`ChallengesTaken`), and carries a count
  not below the stored one (`CountsCarried`). The cache: a request that has read
  a profile or compared a password knows the truth or is overtaken, and a change
  is under way only behind a cleared cache (`Informed`); an entry is stale for no
  longer than it is old and shows the truth unless it is excused
  (`EntriesMarked`); of the requests that found a reset link and whose deletion
  did not fail, one goes on (`LinksPass`). Impersonation: what each cookie in flight
  may be (`PostsOpened`, `WayBack`).
* **Timesheets.** `FiniteSums` shows what adding, removing or changing one term
  does to a sum over a finite set. With it, a request that counted the room of a
  day still has that room at its write unless the day was crossed (`RoomLeft`),
  the row it is to update is the one it read (`TargetFound`), the month it looked
  up is open unless the request is late (`Unlocked`), and the month to certify is
  covered on the days nobody crossed (`Counted`). They are the parts of
  `ActivitiesSafe`, the inductive invariant of `TimesheetsHold`, which is a state
  invariant of any number of requests. For `OneAtATime`, `Undisputed` says that a
  single request is neither late nor crossed. In percentage mode `SaveHolds` states what each
  of a save's checks found, unless something came between.
* **Administration.** A deletion's tasks past the detaching statement have
  detached every link but those marked late (`DetachedFirst`, `LinkedAfter`). As
  long as nothing spoiled it, one request at a time is on the image, and what is
  on disk is what its stage has made of the row's (`OneOnImage`). The banners: the
  row and the date that a refresh took are of this very tick (`NewsOfNow`), and
  what was so some ticks ago is one tick older after each (`ShownStays`). Every reservation's desk
  and every leader's team exist as long as nothing ran with foreign keys off
  (`RowsReferred`, `LeadersReferred`). A start: tables have the shape their stage
  expects whatever failed (`TablesFit`); as long as nothing that loses rows has
  failed, each row is in the table, in its staging copy or still to be copied
  (`RowsHeld`); and as long as nothing that brings rows back has, no table is
  migrated or copied into once users have removed rows from it (`NothingBack`).
  Reminders: whoever the worker owes something has been told or is ahead of it
  (`NobodySkipped`), and whoever it is about to tell was not yet (`NotYetSent`).
* **Synchronisation.** `SyncInv` has one part for each property: a run without
  trouble is alone and its records match outside what it has still to do
  (`CleanSoFar`); while nothing is left to copy no run finds anything to do
  (`NothingToDo`); the one active run knows every event and record of the slots
  ahead of it, and the event it has just made (`EventsKnown`); the token and
  whoever will write it carry the user's last choice or are late
  (`ChoiceCarried`).
* **Pages and reports.** A page is a chain of queries, so its invariant says what
  it has read and still holds while no edit has overtaken it:
  `ViewCurrent` for the calendar page, date by date; `TotalsHold`, `FooterHolds`,
  `SummaryHolds`, `ExpectedHolds` and `MarkedHolds` for the activity page, a part
  for each figure that is not `unsure`; `ReadWell` for the sites report, user by
  user and date by date unless lost. `LogOrdered` (the log's seconds follow
  its ids) makes the newest row of a date, which the marks take by time, the one
  the log pages list first. The totals are then equalities of sums over what was
  read: `Footer` and the members' totals exchange a double sum over members and
  days, figure by figure (`set`, `billable`, `onSite`), the summary splits a sum
  over the teams' members, a site splits into its domains by a partition of the
  staff attached to it, and the projects report compares its sheet row by row and
  column by column (`RowsAndColumns`). What is missing of a member is the day's
  two halves less those set, which is a number because `RowsProper` keeps the
  halves of a day exclusive. `ProjectsReportInv` holds the clock on a day that
  has two months before it, which the default columns need.

* **The services as one.** `AccountServices`, `OfficeServices` and
  `ReportServices` show that a behaviour of `ServicesSpec` is one of each of the
  fifteen components: it starts where each may start, and a step of the picked
  one leaves the others' variables as they are. The theorems about the components
  then hold of the composition that the run checks, its types bundled by
  `ServicesTypeOK`; `TimesheetsWellTyped` does the same for the two ways of
  declaring time.

*Sums.* `MapThenSumSet` is a recursive function over subsets. `FiniteSums` shows from
the well-foundedness of the strict subset order that it exists and is unique, and
derives the rest from that, without induction over an operator: adding, removing
and changing one term, a sum of sums, a sum over a partition, a double sum
exchanged, and a bound term by term.

### What stays with TLC

* `AutoSyncCatchesUp`, `QueuedIsCopied`: liveness under fairness, out of the
  prover's reach.
* `ImplementsLedger` for behaviours in which a request is overtaken: it does not
  hold there; `FrozenUnlessEarly` and `LateWritersWereEarly` are what does.
* The four findings: a violation is shown by a behaviour.

### What proving changed in the models

Assumptions that the models had relied on silently are now stated: dates, slots,
members and crews are not empty; projects are finitely many; `NoImage` and
`NoPlanRow` are no formats, `Unmade` and `Deleted` no plans, `NoTimer` and
`NoEvent` no timer and no event. `Accounts!ApplyChange` had a CASE whose guards
overlapped; those of `Written` exclude one another. The components that only
`MCServices` runs state their own specification (`DirectorySpec`, `NewsSpec`,
`DesksSpec` and so on), of which the theorems speak.

The properties of the timesheets, of overlapping reservations and of the log once
held only of requests that do not overlap or do not fail, and their runs had one
worker or no faults. Asking what exactly each proof used of that led to the
history variables `late`, `crossed`, `blind`, `uncounted`, `behind` and `astray`:
the properties now hold of every behaviour, the runs have two requests in flight
and failures, and the exceptions are the steps that really cause them. They are
narrow on purpose: an update does not cross a request that counts without the
updated row, a deletion excuses no day that is too full, a failed count excuses a
reservation only if it would have refused it, and a lost log row puts no day
astray that a later edit has yet to log.

Statements whose errors the code drops once always succeeded in `Accounts`,
`PlanImages`, `Reports`, `SitesReport` and `Startup`, and properties held there
that the program does not keep. They now fail too, each property excepts what
such a failure costs and nothing else, and the inductive invariants say of each
figure, date or table what it still holds while no such failure touched it.

The reports' sums were three definitions with one meaning and are now
`Totals!SumOf`. A sum over an infinite set is no number, so staff, people,
domains, periods and months are assumed finite, as a database's rows are;
`MaxSeconds` is positive, the homes and teams of the staff are typed, and
`PresencePagesTypeOK` says that the log is a sequence of log rows.
`PageAddsUp` now parenthesises `(UNION {...}) \ page.members`: a union of
sets of members less a set reads two ways, and the two readings count others.

## 5. Plan

Proofs: every safety property a passing run checks is a theorem. What could
still be stated is the ledger for requests that are overtaken (an abstract
certification that names the edits it did not see, with `early` as its witness),
and `CleanRunRepairs` for several runs that do not touch the same slot.

Models: the pages that create notifications for chosen users; `PresenceTx`, the
two statements of `DB.SetPresences` at READ COMMITTED on the network drivers;
the year-to-date columns of the activity page.

## 6. Not modelled

* Translation, templates, spreadsheet layout, metrics, health probes: text and
  counters that no step reads.
* Mail, Jira, the SAML and WebAuthn libraries: outgoing calls and protocols; the
  modules take their answers as accepted, refused or failed.
* Personal access tokens: each request looks its token up afresh by one
  statement, and a token is created and revoked by one.
* Settings and the first-run form: key-value rows written by one statement.
* SQL text per dialect, and isolation weaker than SQLite's.
* The MCP server and the front end: clients, whose requests are those the
  handlers accept.
* Colours and opacity of banners: the handler accepts an opacity of 0, for which
  the statement stores 100 (`db/news.go:157`); one test reaches it.
* The case of e-mail addresses and the 30-second cache of menu roles: listed as
  hazards with the reason.
