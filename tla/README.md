# A TLA+ verification of DistributedChallenge

DistributedChallenge is a distributed application in which employees ask for
reports written as free-text expressions.  A report is requested in one system
(HOME), audited in another (HAL), prepared in a third (MIDDLE EARTH, "Kahin"),
sent back, stored, shown, archived and in the end erased.  Every hop is
asynchronous: RabbitMQ, HTTP with retries, a Redis stream, SignalR, planned jobs.
This directory holds TLA+ models of that core, the TLC configurations that check
small instances of them, and TLAPS proofs that hold for every instance.

Paths below are relative to the repository, and `X.cs:30` is a line of it.

## 1. Inventory

| component | state it keeps | operations | modelled in |
|---|---|---|---|
| Report store (`GamersWorld.Repository`, `Application/Document`, `DbScripts.sql`) | tables `report` and `report_document`, files on the FTP server | inserts, queries of the jobs, whole-row update, delete by document id, upload, delete file | `ReportStore` |
| Report drivers of EventHost (`GamersWorld.EventBusiness`) | what each suspended driver has read | store a prepared report, tell its owner, delete, archive | `ReportLifecycle` |
| Planned jobs (`GamersWorld.JobHost`) | what each run has read | ReportArchiver (every minute), ReportEraser (every five minutes) | `ReportLifecycle` |
| EventConsumer and RabbitMQ | queue without durability, autoAck | starts a driver per message and does not wait for it; ends with the first exception of any | both |
| NewReportRequest (EventHost) | attempt of its resilience pipeline | POST to Kahin, up to five retries | `KahinPipeline` |
| Kahin reporting gateway | none of its own | audit through HAL, then one entry in the Redis stream | `KahinPipeline` |
| Redis stream and Kahin.EventHost `Worker` | the stream with one TTL, the entry in hand | pop in two commands, prepare, re-add, send with up to five retries | `KahinPipeline` |
| Home gateway | none | publishes ReportReadyEvent or InvalidExpressionEvent | `KahinPipeline` |
| HAL audit service | none | a verdict drawn at random at each call | `KahinPipeline` (verdict and failures) |
| Messenger service | none | checks a request and publishes it; reads | as the messages it publishes |
| Notifications (`SignalrNotificationService`, `StatusHub`) | the token a push has read | push to a user | `Notifications`; which notices are pushed: `ReportLifecycle` |
| Identity service, `AccountController` | tables `employee` and `employee_tokens`, sessions | register, login, logout | `Notifications` |
| Resistance middleware | outage flag and end time, semaphore | outage, contention, latency, failures in front of HAL | `Resistance` |
| Web application in the browser (`HomeController`, `AccountController`, `ReportsController`, `signalr-notify.js`) | session, TempData cookie, sessionStorage of a tab, the page with its connection, popup and refreshes under way | pages, login, logout, connect, show a notice, refresh the list | `WebClient` |
| PirateClient (`aps.js`) | none | connects without a token and sends a notice | `WebClient` |
| Form validation (`jquery.validate.unobtrusive.js` on `jquery.validate.js`) | rules, what is invalid, pending and remembered of the server, marks | parse, check, submit, reset, answers of remote validation | `FormValidation` |
| Judge middleware, secrets agent, Heimdall and Loki, FileSaver | none the reports depend on | logging, configuration, monitoring; FileSaver is registered nowhere | no |

How they interact:

```
WebApp -> Messenger -> RabbitMQ -> EventHost.NewReportRequest
   -> Kahin gateway -> HAL            (verdict)
                    -> Redis stream   (ReportRequested | AuditFail)
   Worker: ReportRequested -> prepare -> back to the end of the stream as ReportReady
           ReportReady, AuditFail -> Home gateway -> RabbitMQ
   -> EventHost.ReportDocumentAvailable -> report, report_document -> ReportIsHereEvent
   -> EventHost.UsePreparedReport -> SignalR
WebApp -> Messenger -> RabbitMQ -> EventHost.DeleteReport / ArchiveReport
JobHost: ReportArchiver, ReportEraser  on the same rows and files
WebApp -> Identity -> employee_tokens -> EventHost (any driver that notifies) -> StatusHub
StatusHub -> every connected page of the employee -> popup -> GET /Reports/Index -> list
HAL behind Resistance: NetworkFailure, Latency, ResourceRace, Outage
```

What is hard here, and what has to be right:

* *Report store under drivers and jobs.*  Four kinds of process read a whole row,
  wait, and write the whole row back (`ReportDataRepository.cs:40`).  Drivers of
  one process interleave at every await (`EventConsumer.cs` does not wait for
  them), runs of one job overlap (`JobHost/Worker.cs:36` does not await
  `Execute`).  No stale write may put an archived report back, leave content
  behind a deleted report where no job looks for it again, or make a notice false.
* *Two statements without a transaction* (`TableSaver.cs:39`), and jobs whose
  first statement takes the row off their own list.  Work must be finished all
  the same, after failures and crashes.
* *A message is deleted before it is worked on* (`RedisService.cs:50`, autoAck):
  work may be lost, but must not come back half done or twice.
* *Retries of a POST that is not idempotent* (`EventHost/Program.cs:46`,
  `Kahin.EventHost/Program.cs:39`), with a verdict that is drawn again.
* *One stream for three kinds of entry, with one TTL* (`RedisService.cs:26`).
* *Static fields of a middleware* (`OutageBehavior.cs:38`), read and written by
  concurrent requests without a lock, and a semaphore that is entered and left
  under a flag somebody may switch in between (`ResourceRaceBehavior.cs:25`).
* *A token used in another process than it was issued for*
  (`SignalrNotificationService.cs:27`): logins overlap, time passes, and a refused
  push ends EventHost.
* *A page that lives on its own* (`signalr-notify.js`): it connects once with what
  its tab remembered before it was loaded, notices come whether or not it can show
  them, and refreshes of one list overlap while sessions end and change hands.
* *Answers about values that have changed* (`jquery.validate.js:1133`,
  `jquery.validate.unobtrusive.js:119`): a field is edited or reset, and the form
  waits to be submitted, while a server is asked about what was in it.

`PROJECT.json` lists each hazard at its line with the properties that cover it.

## 2. Modules

| module | content |
|---|---|
| `ReportStore` | the two tables and the FTP server: one operator per SQL statement or transfer |
| `ReportLifecycle` | EXTENDS it: the four drivers, the two jobs, crashes, time; the properties |
| `ReportPromise` | abstract specification: what the owner of a report may rely on |
| `ReportLifecycleInvariant` | the inductive invariants, apart from the proofs so that TLC checks them too |
| `ReportLifecycleProofs`, `ReportSafetyProofs` | the theorems |
| `KahinPipeline` | from a request to its outcome across HOME, MIDDLE EARTH and HAL; the properties |
| `DocumentProgress` | abstract specification: the way of one document through the pipeline |
| `KahinPipelineInvariant` | its inductive invariants |
| `KahinPipelineProofs`, `KahinProgressProofs` | the theorems: where a document is and in which order; the refinement of `DocumentProgress` and the one outcome of a request |
| `Notifications`, `NotificationsProofs` | logins, stored tokens and the pushes that use them; theorems |
| `Resistance`, `ResistanceProofs` | the shared fields of the middleware in front of HAL; theorems |
| `WebClient` | the web application in a browser, from login to a refreshed list of reports |
| `WebClientInvariant`, `WebClientProofs` | its inductive invariant, checked as well; theorems |
| `FormValidation`, `FormValidationProofs` | a form with remote validation; theorems |
| `MCReportLifecycle`, `MCKahinPipeline`, `MCNotifications`, `MCResistance`, `MCFormValidation`, `MCWebClient` | instances for TLC: symmetry sets, the form that is checked, and the two scenes of the web client |

### ReportStore and ReportLifecycle

State and code:

* `report[i]` is the row with `report_id` i, reduced to the columns a statement
  changes after the INSERT, and `document_id`.  `content` is the set of
  `fk_report_id` in `report_document`, `ftp[d]` the file of document d.
* `age[i]` says which of its deadlines a row has passed: `expire_time`, and
  `expire_time` plus the hour the eraser waits.  No query needs more of a date.
* `task[t]` is a process in flight with its locals: the document, the list that
  is left of a run, and the `Report` object read earlier together with the row it
  will overwrite.  `arrived` is the set of ReportIsHereEvents in the queue,
  `pushed` the notices sent.

An action is what a process does from one await to the next.  `DeleteReport`,
`DeleteReportRead`, `DeleteReportUpdate`, `PushDeleted` are the four pieces of
`DeleteReport.cs`; `ArchiverRead`, `ArchiverUpdate`, `ArchiverFetch`,
`ArchiverUpload` the body of ReportArchiver's loop, and so on.  A statement that
fails is an action of its own that does what the code does then: most are caught
and logged, an exception in a driver ends EventHost (`CrashEventHost`), one in a
job ends the run (`AbortJob`).  `Faults` says which kinds a run may meet.

`UPDATE` writes what was read earlier, whatever the row has become.
`DeleteIsRefused` is PostgreSQL's answer to a scalar subquery that yields two
rows (`ReportDocumentDataRepository.cs:32`).

### KahinPipeline

* `eventHost`: whether EventHost is up.  Whatever ends it (`EventHostStops`) leaves
  it down: `Post`, the answers of calls and the handlers wait for `StartEventHost`,
  which is somebody at a terminal (`scripts/run_all.sh:13` starts the process once
  and nothing watches it), and may never come.  What was in the queue then waits in
  RabbitMQ, neither failed nor published.
* `driver[r]`, `attempt[r]`: NewReportRequest and its resilience pipeline;
  `gateway[c]`: the handler in Kahin's gateway of call c.  A call that is made
  again is a new call, with a verdict and a document of its own, while the earlier
  one may still be running; `Call` therefore also names documents.
* `stream`, `lastId`: the Redis stream; `worker`: the Worker with its local
  variables.  `ReadEntry` and `DeleteEntry` are the two commands of `Pop`.
* `published`: the events Home's gateway ever published; `queue`: those not yet
  handled; `handled`: those whose driver succeeded.  `copy` numbers the events of
  one document and `attempt` is the attempt of the Worker's pipeline behind it.
  `admitted`, `published`, `handled` record history for the properties.

A failed attempt may fail before or after Home published (`refusal`, `answer`).
An exception may end the attempts after any of them, because `HttpClient.Timeout`
covers all; it leaves `ExecuteAsync` and stops the host (`SendThrows`).

### Notifications

* `login[l]` is a handler of `/api/login` between its awaits: `LoginVerify`,
  `LoginSign` (expireTime is computed), `Upsert`, `SignIn` (the web application
  puts the answer into the session) or `LoginFails`, at any point.
* `stored[e]` is the row of `employee_tokens`; a token is the tick it expires at.
* `push[p]` is `PushToUserAsync`: read the token, connect, invoke.  The hub's
  verdict (`HubAccepts`) is JwtBearer's: lifetime plus clock skew.  A refusal or
  any other exception ends EventHost and with it all pushes.
* `LoginTime` is the longest time between a token's expireTime and its UPSERT, and
  `Tick` does not let a signed token wait longer.  That it is at most the clock
  skew (five minutes by default) is an assumption about the environment: the
  command and the connection time out after seconds, but the secret store
  `UpsertAsync` asks for its connection string is tried again by its client, and
  could take longer when it hangs.  Without the assumption `HoldersCanBeTold` does
  not hold; nothing in the code compares the two tokens.

### Resistance

* `call[c]` is a request in the middleware, one access to a shared field per
  step.  The two plain writes that begin an outage may be seen in either order
  (`SetFlag`, `SetEnd`).  `permits` is the count of the semaphore.
* Time is the second of the day modulo `Frequency`.  No tick falls between a
  request's look at the clock and its two writes; everything else may take as long
  as it likes.  `Switch` is a change of appsettings.json, which
  `IOptionsMonitor` sees at once.
* HAL references release 1.0.3 of the package, the source is that of 1.0.7: the
  module models the source.

### WebClient

* A login is its number in this browser; it stands for its token and its employee.
  `session` and `cookie` are the two places the server keeps it in: the session and
  the TempData cookie, which `Home/Index` reads and `Reports/Index` only keeps.  An
  answer sets the cookie again, or deletes it when nothing is left, wherever TempData
  was read or the request redirected.  `stored[t]` is the sessionStorage of tab t.
* `trip[t]` is the page load under way, as request or as answer, `doc[t]` the page
  that is shown.  `Load` is both DOMContentLoaded listeners in the order they are
  registered in: `signalr-notify.js`, which `_Layout` includes first, reads the
  login before the script of `Home/Index` stores the one it brings.
* A list of reports is the number of changes of its employee's reports it shows.
  `ChangeReports` is a driver's statement that changes the list; the notice about it is
  `owed` until `Push`, two seconds (`DeleteReport.cs:44`) or one more event
  (`UsePreparedReport.cs:41`) later, or lost with the driver or EventHost
  (`NoticesAreLost`).  `ArchiveExpired` is `ReportArchiver.cs:30`, of which nobody is
  told.  `told[e]` records the last change e was notified of, for the properties.
  Whoever is connected at the moment of `Push` gets the notice into `inbox`.  `ReadNotification` shows
  the popup and leaves one more handler of `hidden.bs.toast`; `HidePopup` runs them
  all, each starts a refresh.  Refreshes are served and answered in any order.
* `excuse` and `missed` are history variables: what has happened to the page that
  lets its list lack a change its employee was told of.
* `LoginId` are the logins that have taken place, so that a type says what the code
  relies on: a tab, a cookie or a session only ever holds a login that was made.
  `MaxChanges` and `MaxLogins` bound the runs of TLC; no other guard depends on them.

### FormValidation

* `Rules` is what `parseElement` makes of the data-val attributes of a field,
  `MinMax` is `addMinMax`, the methods of the validator are `Passes`, and
  `RemoteRules` with `DataOf` the adapter `remote`, whose data are functions that
  read the fields when the server is asked.
* `validator` is the validator object with what the unobtrusive callbacks keep in
  the page: `mark` (`onError`, `onSuccess`) and `summary` (`onErrors`).  `Form`,
  `Element`, `Submitted`, `StopRequest` are functions from a validator to the next
  one, named for the code's, and what follows a check is `Checked`, `FormChecked`,
  `ElementChecked`, `Decided`, `Resumed`; an action composes those its handler calls.
* `request[f]` is the call under way for field f; a newer one of the same field
  aborts it.  `Answer` may come at any time, `AnswerFails` is the missing error
  handler.  `detached` says that a reset has removed what the element remembered.
* `Adapter` holds only adapters whose rules have a method in `jquery.validate.js`
  1.19.5, which is all `_ValidationScriptsPartial` would load.  It has no method for
  the rules of `creditcard`, `extension`, `fileextensions` and `nonalphamin` (they are
  in additional-methods.js): `check` throws at such a rule (lines 798 and 825), the
  submit handler ends before it prevents anything, and the form goes out unchecked.
  Nothing is said of forms with such an attribute.
* The two files are library code the repository carries.  No page includes
  `_ValidationScriptsPartial`, so no page loads them today: the forms of the web
  application are validated by the browser (`signalr-notify.js:68`, `WebClient`)
  and by the server.

### Variants

Definitions marked `Variant` are not part of the models.  They are plausible
mistakes in the code, one per property, and TLC finds the property violated when
such a variant takes the place of the definition below it (`PROJECT.json`,
`mutants`).

## 3. What is checked

`CHECK_DEADLOCK FALSE` in the lifecycle, the pipeline and the web client: there the
system may stop, when every request has been served and no run has work, or when
the bounds on logins, changes and acts are used up and the user does nothing.

| run | instance | properties | result |
|---|---|---|---|
| `drivers` | 1 document, 2 drivers, 1 run of each job, every failure, fair | `TypeOK`, `DeletedHasNoContent`, `DeletedIsToldOnce`, `NoticesStayTrue`, `Inductive`, `ArchivedStays`, `ContentIsKept`, `OverdueIsErased`, `KeepsPromise` (implements `ReportPromise`) | hold |
| `duplicates` | 1 document stored twice, 2 drivers, eraser, crashes | `DeletedIsToldOnce`, `ContentIsKept` still hold when two rows carry one document_id | hold |
| `archived_ftp` | 1 document, failing uploads | `ArchivedLivesOnFtp` | violated |
| `deleted_ftp` | 1 document, no failure, fair | `OverdueIsOutOfFtp` | violated |
| `duplicate_rows` | 1 document stored twice, no failure, fair | `OverdueIsErased` | violated |
| `pipeline_faults` | 1 request with 2 attempts (2 documents), all ten kinds of failure | `TypeOK`, `OneCopy`, `FirstComeFirstServed`, `CopiesAreRetries`, `PipelineInductive`, `KeepsProgress` (implements `DocumentProgress`) | hold |
| `pipeline_outcomes` | 2 requests, 3 attempts, every call to Kahin answered, EventHost ends and may stay down, fair | `OneOutcome`, `OutcomeInductive`, `RequestsAreReported`, `RecordedIsReported` | hold |
| `notification_tokens` | 2 employees, 2 logins at a time, 2 sessions, 1 driver; lifetime, skew and `LoginTime` of 1 tick, 3 ticks | `HoldersCanBeTold`, `TokensInductive` (its first part is `TypeOK`), `LoginsCostLittle`, `RefusedWithReason` | hold |
| `resistance_limits` | 3 requests, 2 permits, both flags switchable, windows of 2 ticks in 5 | `TypeOK`, `PermitsAreReturned`, `OutagesKeepTheirSeason` | hold |
| `web_popup` | 1 tab and every failure with 2 logins and 2 changes, or 2 tabs of 2 employees with one session, 2 logins and 1 change; fair | `WebInductive` (its first part is `TypeOK`), `ListIsCurrent`, `ConnectedWhereRemembered`, `NoticesAreTrue`, `NoticesAreHeeded` | hold |
| `form_remote` | 2 fields, both validated remotely and one together with the other, 3 values | `ValidatorInductive` (with `TypeOK`), `MarksMatchErrors`, `SubmitsOnlyValid` | hold |
| `outage_cut_short` | the same middleware, 2 requests | `OutageLasts` | violated |

What the properties say is stated with each of them in the modules.  In short:

* *`DeletedHasNoContent`, `ArchivedStays`, `NoticesStayTrue`*: the lost-update
  hazards.  Whole-row write-backs are harmless here only because everyone who
  writes sets `archived` first and deletes content before setting `deleted`; the
  inductive invariant spells that out.
* *`DeletedIsToldOnce`*: of any number of drivers deleting one report only the one
  that removed the document row goes on.
* *`ContentIsKept`*: the eraser's list may be old when a document's turn comes.
* *`OverdueIsErased`*: the jobs end what they exist for.
* *`OneCopy`, `CopiesAreRetries`, `KeepsProgress`*: a document is in one place, is
  reported again only by a retry of the same send, and a lost one stays lost.
* *`FirstComeFirstServed`*: prepared reports go behind later requests in the same
  stream and still come out in order.
* *`OneOutcome`*: one request, one outcome, provided calls to Kahin are answered.
  Where they are not (a broken connection) it does not hold, by the retry at
  `EventHost/Program.cs:46`; no document of the repository promises that it does.
* *`HoldersCanBeTold`, `LoginsCostLittle`, `RefusedWithReason`*: logins that
  overlap may leave the older of two tokens in the row; what an employee loses by
  that is within the hub's clock skew.
* *`PermitsAreReturned`, `OutagesKeepTheirSeason`*: the middleware neither loses a
  permit nor refuses anybody outside the season of a window (twice its duration,
  as an outage may begin at the window's end).
* *`RequestsAreReported`, `RecordedIsReported`*: a request either fails where EventHost
  knows of it, or gets its outcome, although HAL fails, unless EventHost has ended and
  nobody starts it again: then it waits in the queue for as long as that lasts.  What
  Kahin has recorded is reported whether or not EventHost is up.
* *`ListIsCurrent`, `NoticesAreHeeded`*: of what an employee was told, a list lacks
  something only in the five ways of `ExcuseOf`, `Disconnect`, `RefreshFails` and
  `NotifyEmployee`, and no interleaving of changes, notices, page loads, popups and
  refreshes is another.  Of changes nobody was told of (`ArchiveExpired`,
  `NoticesAreLost`, and drivers that have yet to notify) a list may know or not.
  `NoticesAreHeeded` holds as long as the page stays with the list of the employee the
  notice is for: two tabs share one session, and a tab connected as one employee that
  is reloaded after the other tab's login shows another employee's list.
* *`ConnectedWhereRemembered`*: a tab is connected from the second page of a login
  on; not on the first, by the order of two listeners.
* *`NoticesAreTrue`*: a page is told nothing the reports do not bear out, with
  PirateClient at the hub's door.
* *`ValidatorInductive`, `MarksMatchErrors`, `SubmitsOnlyValid`*: late, lost and
  aborted answers, resets and edits neither confuse the validator's counter, nor
  leave a mark on a corrected field, nor let an invalid form out.

### Why the bounds are enough

One document suffices for the properties of one report: documents meet only in
the list of a job and in the store, and rows of different documents are
independent there.  Lists of two rows occur in `duplicates`.  Two drivers are
needed for every pair of owners' operations to race, and the two jobs race with
both.  Two overlapping runs of one job were checked while the models were
written; the theorems cover any number.  `RowId` bounds the INSERTs of a run.

`MaxAttempts` is 2 or 3 where the code makes 6 attempts: one attempt, one that is
neither first nor last, and the last.  Two calls of one request are two documents
with entries in the same stream, so order and expiry between documents are met
with one request already; `pipeline_outcomes` has two requests.  It leaves out
the failures that end a Worker, with which nothing is promised to be reported;
that requests have one outcome with them too is the theorem `OneOutcomeHolds`.

In `notification_tokens` three ticks are enough for two overlapping logins to
sign in different ticks and store in the opposite order, for the older token to
expire while the newer is valid, and for both to be refused.  In `Resistance` a
third request finds the two permits taken, and two requests race for the fields
while a third is refused; `ResistanceAssumption` (twice the duration is at most the
frequency) holds for the periods the repository uses.

Two tabs with every failure are beyond a run of minutes, so `MCWebClient` checks two
scenes.  In the first one tab of one employee meets every order of page load, login,
logout, expiry, change, notice and refresh with every failure, in up to five acts of the
user and failures: two to log in and go to the list, and three more.  Two changes are
enough for a second handler, for two refreshes that overtake each other, for a notice
while a popup is up or before the page is loaded, and for notices that come in another
order than their changes.  In the second scene two tabs, which begin with the login
page, share session and cookie; two employees log in, in either tab, up to four acts of
users happen and nothing fails: enough for a list to be told of its change, the other
tab to log in, and the first to be reloaded.  That the first login is that of a given
employee in a given tab takes nothing away, since they differ only in name.  For any
number of tabs, acts and changes the theorems of `WebClientProofs` say the same of every
safety property.

In `form_remote` the remote rule of one field is about
both, so that a change of one field makes an answer about the other late; three
values are empty, too short and fit.  The title is made empty by a reset only, which
saves more than half of the states.

Symmetry is used only where no liveness property is checked.

### Fairness

*Lifecycle*: clocks run; Hangfire starts every job again and again, so that a
statement which a job attempts for ever succeeds at some time (strong fairness of
the reads, the write-backs and the deletion of a document).  Nothing is assumed of
users, of EventHost, or of the FTP server.
*Pipeline*: every process that can take a step takes one (the drivers are tasks,
the gateway serves requests, the Worker loops), while it is up.  Nothing makes a user
submit, and nobody is assumed to start a Worker or an EventHost again.  EventHost does
end in `pipeline_outcomes`, and may stay down; `pipeline_outcomes` has no failures that
end the Worker.  With them nothing is promised, as an entry is deleted before it is sent.
*Web client*: a browser handles what has arrived, a Toast closes by itself after
five seconds, the server answers refreshes, and answers arrive unless they fail.
Nothing is assumed of users, and no connection is ever assumed to be made.

### Disagreements with the documentation

1. `archived_ftp`: the repository's README (line 567) says that a report the job
   archives lives on the FTP server for some more time.  `ReportArchiver.cs:30`
   marks the row first; a failed upload is only logged and never tried again.
2. `deleted_ftp`: README line 563 says that archived and expired reports are
   deleted from the database and the FTP server.  A report its owner archives and
   then deletes is `deleted`, so that `selectExpiredReport` never returns it: its
   file stays, with no failure at all.
3. `duplicate_rows`: the eraser deletes overdue reports
   (`JobHost/appsettings.json:6`).  After a retry made Home publish one
   ReportReadyEvent twice, two rows carry the document_id, the DELETE is refused
   and every run ends at that document.  The pipeline produces such events:
   `CopiesAreRetries` says when.

More statements are at odds with the code and have no run. README line 555 has a report deleted from the database when its owner
archives it (`ArchiveReport.cs` deletes nothing), and line 567 has the eraser
delete the file for good (`ReportEraser.cs:34` marks the row first, and a failed
deletion of the file is only logged).  A report that `ReportArchiver` takes off its
owner's list stays in every page that is open, as no notice goes with it
(`ReportArchiver.cs:30`).

*Web application.*  `RequestConfirmed.cshtml:5` says that the employee will be informed as
soon as possible: the page is connected, but has no popup, so that a notice which
reaches it ends in an exception (`signalr-notify.js:20`) and nothing shows it later.
`Features.md:157` has notices for employees who are signed in: the connection lives on with
the login the tab remembers after logout, while a tab opened or reopened later in
the same session remembers none and is never connected; a page can list one
employee's reports and get the notices of another, when two logins follow each other.

*Form validation.*  An answer that fails leaves its field pending (no error handler at
`jquery.validate.js:1581`), so that the form cannot be submitted before the value
changes.  `stopRequest` leaves `formSubmitted` set when the check it repeats
fails, and `resetForm` never clears it: a later answer may submit a form nobody
submitted again.  What goes out then is valid all the same (`SubmitsOnlyValid`).
`parse` of a form that has its validator changes options the validator no longer
reads, as it has copied them (`jquery.validate.unobtrusive.js:249`).

## 4. What is proved

TLAPS proves, for all values of the constants (any numbers of documents, rows,
drivers, overlapping runs, requests and attempts; any set of failures):

| theorem | statement |
|---|---|
| `ReportLifecycleProofs!TypeCorrect` | `Spec => []TypeOK` |
| `ReportSafetyProofs!InductiveHolds` | `DuplicateReady = FALSE => (Spec => []Inductive)` |
| `...!DeletedHasNoContentHolds`, `NoticesStayTrueHolds` | the invariants, under the same assumption |
| `...!ArchivedStaysHolds` | the action property, under the same assumption |
| `...!DuplicateInvHolds`, `DeletedIsToldOnceHolds`, `ContentIsKeptHolds` | `Spec => [](TypeInv /\ DuplicateInv)` and what follows from it, duplicates included |
| `...!KeepsPromiseHolds` | `Spec => KeepsPromise`: the store implements `ReportPromise`, under the same assumption |
| `KahinPipelineProofs!TypeCorrect`, `OneCopyHolds`, `CopiesAreRetriesHolds`, `FirstComeFirstServedHolds` | the invariants of the pipeline, without further assumptions |
| `KahinProgressProofs!ImplementsProgress` | `Spec => KeepsProgress`: the pipeline implements `DocumentProgress` |
| `KahinProgressProofs!PublishedOnceHolds` | `"answer" \notin Faults => (Spec => []PublishedOnce)`: no document's event is published twice while no answer of Home's gateway is lost |
| `KahinProgressProofs!OneOutcomeHolds` | `EveryCallIsAnswered => (Spec => []OneOutcome)` |
| `KahinPipelineProofs!PipelineInductiveHolds`, `KahinProgressProofs!OutcomeInductiveHolds` | the inductive invariants these rest on, the second under `EveryCallIsAnswered` |
| `NotificationsProofs!TokensInductiveHolds`, `HoldersCanBeToldHolds`, `LoginsCostLittleHolds`, `RefusedWithReasonHolds` | the properties of tokens and pushes, for any lifetimes with `LoginTime <= ClockSkew` |
| `ResistanceProofs!ResistanceTypeCorrect`, `PermitsAreReturnedHolds`, `OutagesKeepTheirSeasonHolds` | the properties of the middleware, for any number of requests, limit and periods with `2 * Duration <= Frequency` |
| `FormValidationProofs!ValidatorInductiveHolds`, `MarksMatchErrorsHold`, `SubmitsOnlyValidHolds` | the properties of the form, for any finite set of fields, any attributes of `Adapter` (see section 2), any values and server |
| `WebClientProofs!WebInductiveHolds`, `ListIsCurrentHolds`, `ConnectedWhereRememberedHolds`, `NoticesAreTrueHolds` | the invariants of the web client, for any employees, tabs and failures, any number of logins and changes, and notices that come late or never |

**Assumptions on constants.**  `NoneIsNoValue` and `NoneIsNoEntry` (`None` is a
value of its own), `LifecycleAssumption` (drivers and runs are different things),
`PipelineAssumption` (`MaxAttempts` is positive), `NotificationsAssumption` and
`ResistanceAssumption` (see section 2), `FormAssumption` (the fields of a form are
finitely many, and `None` is no data), `WebAssumption` and `NoneIsNoList` (`None` is
neither a login nor a list).  `DuplicateReady = FALSE` is
stated in the theorems: it is what the pipeline guarantees while no answer of
Home's gateway is lost, whatever else fails (`PublishedOnceHolds`).  `EveryCallIsAnswered` says that
`Faults` contains neither `request` nor `redis` nor `answer`: whoever calls learns
whether the call had its effect.

**The inductive invariant of the lifecycle.**  `TypeOK` is not inductive: that a
write-back stores a row needs to know what each process holds where, so `TypeInv`
adds `HoldsDocument`, `HoldsReport`, `HoldsRow` and `HoldsList`.  None of the
safety properties is inductive either.  The argument is in `SafeInv`:

* `CopyOK`: a copy that waits to be written back is of the row it will overwrite,
  is archived, and is marked deleted only if the content is gone for good.  So a
  stale write can neither revive a report nor lie about its content.  For the
  eraser this rests on `ListOK` (its list holds only archived, overdue rows) and
  on rows staying archived.
* `Gone` is stable: content disappears once, because only the driver that
  inserted the row adds its content (`SaverOK`, `SaversDiffer`).
* `ReachedOK`: past its DELETE a process knows the content is gone, past its
  UPDATE that the row is archived.  `NoticesOK` and `DeletedIsToldOnce` follow.

`OneRowPerDocument` is where `DuplicateReady = FALSE` enters.

**What holds with duplicates.**  When a document has two rows, a driver or a job may
read the one and mark it for the other, and `SafeInv` fails.  `DuplicateInv` keeps what
is left: the database refuses every deletion of such a document, for ever, since rows
stay.  So a row that a process relies on is archived, or a deletion of its document
cannot succeed (`Held`), and the deletion that does succeed is one of a document with
one row, the archived and overdue one of the eraser's list: `ContentIsKept`.  A
document that someone is deleting has a row that is gone (`CondemnedIsGone`); another
deletion would have to find content, in a second row, and be refused:
`DeletedIsToldOnce`.

The proofs have one lemma per kind of process (`HandlerStepSafe`,
`ArchiverStepSafe`, `EraserStepSafe`, `CrashSafe`), each with one step per action.
`ProcessStep` carries the frame: when one process moves and the store changes only
as `KeepsRows` and its companions allow, every other process keeps its `TaskOK`.

**The refinement of `ReportPromise`.**  Every step has one of six effects on what
users see (`Unseen`, `Lists`, `Fills`, `Loses`, `Deletes`, `Unlists`), and each
effect is a step of `ReportPromise` or changes nothing users see
(`EffectKeepsPromise`).  That a report is never hidden while its content is arriving
needs an invariant of its own, `SettledInv`: whoever is about to take a row off the
list found the document when its insert was complete, since it had content, had
aged, or was gone.  With duplicates the refinement fails: a driver that deletes
the first row of a document may mark the second, whose content is still to come.

**The pipeline.**  `TypeInv` adds to `TypeOK` what the Worker holds in each of its
states.  `OnePlace` says where a document can be (`Placed`): in one entry of the
stream, in the hands of the Worker, or published; `InTurn` that entries, the
Worker's entry and what was published are in the order of admission.  The proofs do
not go through the thirty actions for each conjunct: a step has one of six effects
(`Sheds`, `Records`, `ReadEntry`, `DeleteEntry`, `Prepares`, `Tries`), one lemma
shows this, and each conjunct is shown for the six.  `ImplementsProgress` maps each
effect to a step of `DocumentProgress` or a stutter.  `OneOutcomeHolds` needs, on
top, that a driver calls again only after the call before it has failed without a
trace (`AttemptsInTurn`, `FailedIsUnseen`).

**Tokens.**  `TokensInductive`: no token expires later than one signed now would
(`TokensAreFresh`), and whoever was given a token finds one stored that lasts as
long, but for `LoginTime` (`GivenIsBacked`).

**Resistance.**  The end of an outage never lies beyond the season (`EndsInSeason`),
because only a request that has just seen the window sets it (`BeginsInWindow`).

**Form validation.**  The invariant is about a validator, not about the state, so
that it can be carried through the functions an action is composed of: each of
`Check`, `ShowErrors`, `Form`, `Element`, `StopRequest`, `Answered`, `ResetForm` has
a lemma that says what it keeps.  `PendingIsCounted` is what makes the counter zero
exactly when no answer is awaited; `PreviousIsTrue` and `RequestIsRemembered` make a
remembered verdict that of the server although answers come late;
`LastCheckIsKept` is needed for the marks, because a refusal is shown with what the
last check left in its lists.  `SubmitsOnlyValid` follows from the check that precedes
every submission: a form with no error and nothing pending meets its attributes.

**Web client.**  `ListIsCurrent` speaks of a page with nothing under way, and is
therefore far from inductive.  `ListOK` says what is under way while the list of a page
lacks a change its employee was told of (`~IsUpToDate`) and the page has no excuse
(`IsComing`): a notice in its inbox; then the popup,
which only `HidePopup` takes away, and which always has a handler left to ask for the
list (`shown => handlers > 0`, the reason why reading and hiding cannot cancel out);
then a refresh that `Mends`, because the server has not answered it yet, or has
answered it with a list that has all that was told, or with what gives the page an
excuse.  A later notice may find such an answer without its change; then it also finds
the page behind, which comes with an excuse or into the inbox (`MendsStill`,
`PageNoticed`).  An old answer that arrives either replaces a list that another
refresh was to mend, which is still under way, or is older than what is shown, an
excuse (`RefreshArrivesStep`).  That nobody is told of what has not happened
(`ChangesToldOK`) is why a list fresh from the server is up to date, whatever has
changed in silence.  `IsOfThePast` adds that no list is ahead of the reports.  `TripOK` says the same of the answer that is to
become a page; `ConnectionOK` ties notices to a connection and a connection to a login,
and `RemembersOK` is kept because only `Load` and `Close` write a tab's
sessionStorage, and both replace its page as well.  A step moves one tab (`OneTabMoves`), changes
reports (`ChangeStep`) or tells all tabs of a change (`PushStep`); each is shown for a page or a trip as a
value, and what other tabs keep follows from `GoodPageStays` and `GoodTripStays`.

**Only model-checked.**  Liveness (`OverdueIsErased`, `RequestsAreReported`,
`RecordedIsReported`, `NoticesAreHeeded`), since TLAPS proves nothing about fairness or ENABLED;
the four violations.  Every invariant and every action property of a passing run is a theorem.

## 5. Not modelled

* Passwords: a login's is right or wrong.  `Notifications` has no connections of
  browsers, `WebClient` no pushes that throw: the two meet in `NotifyEmployee`.
* Downloads of the web application and its requests to delete and archive, which
  call the Messenger service and redirect; the methods of the hub (`StatusHub.cs:10-18`), which any client with a token could
  call, where only EventHost calls one of them; the notice of InvalidExpression
  (`InvalidExpression.cs:23`), which starts a refresh without any change of the list; the browser's own check of forms (`checkValidity`).
* Of the form validation: checkboxes, radio buttons and groups of fields, the
  adapters equalto, range, minlength and maxlength (the adapter length makes the same
  rules), and those whose method is not loaded: accept, creditcard, extension,
  fileextensions, password with nonalphamin (section 2), what messages say, where they are put, and
  the focus.
* In `ReportLifecycle` a push that throws is a crash of EventHost, which may come
  any time; `Notifications` says when it does.
* The Resistance middleware inside the pipeline: the pipeline sees its effects
  (error answers, garbled answers, no answer); its state is the module `Resistance`.
  NetworkFailure and Latency have none, DataInconsistency is not installed.
* Reads for pages, logging, health checks, service discovery, the Judge
  middleware, Heimdall and Loki: no state the reports depend on.
* `Kahin` `/getReport` serves a sample file and changes nothing; the text of
  expressions; the format of document identifiers.
* The case of `EventConsumer` for ReportProcessCompletedEvent: nothing publishes
  it.
* Failures of RabbitMQ itself.  Order of delivery is not modelled, since drivers
  run concurrently and the order of their effects is free anyway.

## 6. Plan

Done, in this order: the store and its processes, the pipeline, the middleware in
front of HAL, the tokens behind the notifications and the form validation, each
checked and proved; the refinement of `ReportPromise`; what holds when
documents are reported twice, proved; the web client, checked and proved.  Left:

1. Composition of pipeline and lifecycle: the `queue` of the pipeline feeding
   `SaveReport`, with `DuplicateReady` derived from the failures of the pipeline
   instead of assumed.
2. Composition of `Notifications` and `ReportLifecycle`: the pushes of the drivers,
   so that their crashes are those of refused tokens.
3. Document identifiers: `Parse` against `ToString`, as operators.
