----------------------------- MODULE WebClient -----------------------------
(***************************************************************************)
(* The web application in a browser: its pages, what a tab remembers of    *)
(* the employee who logged in, the connection signalr-notify.js opens with *)
(* it to StatusHub, the popup of a notice and the refresh of the report    *)
(* list that follows it.                                                   *)
(*                                                                         *)
(* Server, tabs and hub act on their own: an answer may be late, a second  *)
(* tab may have signed in meanwhile, a notice may come before the page is  *)
(* connected or when no element of the page can show it.                   *)
(*                                                                         *)
(* A login stands for its token and its employee, and is the number of the *)
(* login in this browser.  A list of reports stands for the number of      *)
(* changes its employee's reports have seen.  A driver of EventHost makes a *)
(* change first and tells of it later, if at all; ReportArchiver tells     *)
(* nobody.  What a popup says is what the last notice says (lines 20-36 of *)
(* signalr-notify.js), so it is not kept apart.                            *)
(***************************************************************************)
EXTENDS Naturals, Sequences, Bags, Functions

CONSTANTS
    Employee,
    Tab,
    None,        \* no list, no cookie
    MaxLogins,   \* bound: logins of a run
    MaxChanges,  \* bound: changes of reports in a run
    Faults       \* the kinds of failure a run of the model may meet

FaultKinds ==
    {"lost",    \* an answer of the server does not arrive
     "idle",    \* the session times out
     "hub",     \* a connection cannot be made, or breaks
     "ajax",    \* a refresh fails
     "driver"}  \* EventHost, or a driver of it, ends before it notifies

ASSUME WebAssumption ==
    /\ MaxLogins \in Nat /\ MaxChanges \in Nat
    /\ Faults \subseteq FaultKinds

List == [employee : Employee, version : Nat]

ASSUME NoneIsNoList == None \notin Nat \cup List

VARIABLES
    logins,   \* logins[k]: the employee of login k
    expired,  \* the logins whose token the hub accepts no more
    session,  \* the login in the server's session of this browser
    cookie,   \* the login in the browser's TempData cookie
    reports,  \* reports[e]: how often the list of e has changed
    owed,     \* the changes of which EventHost has yet to notify the owner
    told,     \* told[e]: the last change e was notified of; history only
    trip,     \* trip[t]: the request of tab t for its next page
    stored,   \* stored[t]: the login in the sessionStorage of tab t
    doc       \* doc[t]: the page in tab t, lost when the next one loads

serverVars == <<logins, expired, session>>
reportVars == <<reports, owed, told>>
vars == <<serverVars, cookie, reportVars, trip, stored, doc>>

LoginId == 0 .. Len(logins)   \* those that have taken place; 0: nobody
NoLogin == 0
Page == {"blank", "login", "home", "reports", "confirmed", "failed"}
Excuse == {"missed", "offline", "failed", "session", "overtaken"}

\* What is under way: a request with the TempData cookie it carries, or its
\* answer with the cookie it sets, if any.  missed: a notice came too late for
\* the list in the answer and too early for its page; history only.
NoTrip == [stage |-> "none"]
Sent(target, temp) == [stage |-> "sent", target |-> target, temp |-> temp]
Answered(page, bag, list, setCookie) ==
    [stage |-> "answered", page |-> page, bag |-> bag, list |-> list,
     setCookie |-> setCookie, missed |-> FALSE]

Trip ==
    {NoTrip}
    \cup [stage : {"sent"}, target : {"login", "home", "reports"}, temp : LoginId]
    \cup [stage : {"answered"}, page : Page, bag : LoginId, list : List \cup {None},
          setCookie : LoginId \cup {None}, missed : BOOLEAN]

\* A refresh: with the cookie it carries, then with its answer.
Refresh ==
    [answered : BOOLEAN, list : List \cup {None}, setCookie : LoginId \cup {None}]
Asked(temp) == [answered |-> FALSE, list |-> None, setCookie |-> temp]

\* bag: the login rendered into the page; link, online: its connection and the
\* login it was made with; checked: forms are validated; inbox: notices to
\* handle; shown, handlers: the popup and the handlers of its hidden.bs.toast;
\* refreshes: those under way; excuse: why the list may be behind, history only.
Document(page, bag, list, login, excuse) ==
    [page |-> page, bag |-> bag, list |-> list,
     link |-> login, online |-> IF login = NoLogin THEN "no" ELSE "starting",
     checked |-> login # NoLogin, inbox |-> <<>>,
     shown |-> FALSE, handlers |-> 0, refreshes |-> EmptyBag, excuse |-> excuse]
Blank == Document("blank", NoLogin, None, NoLogin, {})
LoginPage == Document("login", NoLogin, None, NoLogin, {})

Refreshes == {doc[t].refreshes : t \in Tab}   \* the bags there are

TabState ==
    [page : Page, bag : LoginId, list : List \cup {None},
     link : LoginId, online : {"no", "starting", "yes"},
     checked : BOOLEAN, inbox : Seq(List),
     shown : BOOLEAN, handlers : Nat, refreshes : Refreshes,
     excuse : SUBSET Excuse]

TypeOK ==
    /\ logins \in Seq(Employee) /\ Len(logins) <= MaxLogins
    /\ expired \subseteq DOMAIN logins
    /\ session \in LoginId /\ cookie \in LoginId
    /\ reports \in [Employee -> Nat]
    /\ owed \subseteq List
    /\ told \in [Employee -> Nat]
    /\ trip \in [Tab -> Trip]
    /\ stored \in [Tab -> LoginId]
    /\ doc \in [Tab -> TabState]
    /\ \A bag \in Refreshes : IsABag(bag) /\ BagToSet(bag) \subseteq Refresh
    /\ \A t \in Tab : (doc[t].page = "reports") = (doc[t].list # None)

Init ==
    /\ logins = <<>> /\ expired = {}
    /\ session = NoLogin /\ cookie = NoLogin
    /\ reports = [e \in Employee |-> 0]
    /\ owed = {}
    /\ told = [e \in Employee |-> 0]
    /\ trip = [t \in Tab |-> NoTrip]
    /\ stored = [t \in Tab |-> NoLogin]
    /\ doc \in [Tab -> {Blank, LoginPage}]

-----------------------------------------------------------------------------
(* The pages of the server *)

\* The list Reports/Index renders for the employee of the session.
CurrentList ==
    LET e == logins[session] IN [employee |-> e, version |-> reports[e]]

\* Who reads TempData, or redirects, sets its cookie again with what is left in
\* it, or deletes the cookie when that is nothing.  Home/Index reads the login,
\* which takes it out, and a redirection keeps it.
HomePage(temp) ==
    IF session = NoLogin
    THEN Answered("login", NoLogin, None, temp)
    ELSE Answered("home", temp, None, NoLogin)

\* Reports/Index only looks for a message of its own.
ReportsPage(temp) ==
    IF session = NoLogin
    THEN Answered("login", NoLogin, None, temp)
    ELSE Answered("reports", NoLogin, CurrentList, temp)

Visit(t, target) ==
    /\ trip[t] = NoTrip
    /\ trip' = [trip EXCEPT ![t] = Sent(target, cookie)]
    /\ UNCHANGED <<serverVars, cookie, reportVars, stored, doc>>

Serve(t) ==
    /\ trip[t].stage = "sent"
    /\ trip' = [trip EXCEPT ![t] =
        CASE trip[t].target = "home"    -> HomePage(trip[t].temp)
          [] trip[t].target = "reports" -> ReportsPage(trip[t].temp)
          [] trip[t].target = "login"   -> Answered("login", NoLogin, None, None)]
    /\ UNCHANGED <<serverVars, cookie, reportVars, stored, doc>>

\* The identity service has signed a token: it goes into the session and, by
\* way of the redirection to Home/Index, into TempData.
Login(t, e) ==
    /\ trip[t] = NoTrip /\ doc[t].page = "login"
    /\ Len(logins) < MaxLogins
    /\ logins' = Append(logins, e)
    /\ session' = Len(logins')
    /\ \/ /\ cookie' = session'
          /\ trip' = [trip EXCEPT ![t] = Sent("home", cookie')]
       \/ "lost" \in Faults /\ UNCHANGED <<cookie, trip>>
    /\ UNCHANGED <<expired, reportVars, stored, doc>>

Logout(t) ==
    /\ trip[t] = NoTrip /\ doc[t].page # "blank" /\ session # NoLogin
    /\ session' = NoLogin
    /\ trip' = [trip EXCEPT ![t] = Answered("login", NoLogin, None, cookie)]
    /\ UNCHANGED <<logins, expired, cookie, reportVars, stored, doc>>

SessionEnds ==
    /\ "idle" \in Faults /\ session # NoLogin
    /\ session' = NoLogin
    /\ UNCHANGED <<logins, expired, cookie, reportVars, trip, stored, doc>>

\* Tokens live equally long.
TokenExpires ==
    /\ \E k \in DOMAIN logins \ expired :
        /\ \A j \in 1 .. k - 1 : j \in expired
        /\ expired' = expired \cup {k}
    /\ UNCHANGED <<logins, session, cookie, reportVars, trip, stored, doc>>

\* SubmitReport: the Messenger service has accepted the request, which ends in a
\* redirection, or refused it.
SubmitReport(t) ==
    /\ trip[t] = NoTrip /\ doc[t].page = "home"
    /\ \E answer \in {Answered("confirmed", NoLogin, None, cookie),
                      Answered("failed", NoLogin, None, None)} :
        trip' = [trip EXCEPT ![t] = answer]
    /\ UNCHANGED <<serverVars, cookie, reportVars, stored, doc>>

\* A form that is not filled in goes to the server, which sends it back, only
\* where signalr-notify.js has not come to attach its validation.
SubmitUnchecked(t) ==
    /\ trip[t] = NoTrip /\ doc[t].page \in {"home", "login"}
    /\ ~doc[t].checked
    /\ trip' = [trip EXCEPT ![t] = Answered(doc[t].page, NoLogin, None, None)]
    /\ UNCHANGED <<serverVars, cookie, reportVars, stored, doc>>

-----------------------------------------------------------------------------
(* A tab *)

\* The user stops it, or the answer does not arrive.
Abandon(t) ==
    /\ trip[t] # NoTrip
    /\ trip' = [trip EXCEPT ![t] = NoTrip]
    /\ UNCHANGED <<serverVars, cookie, reportVars, stored, doc>>

\* The page with its sessionStorage, which a tab does not outlive.
Close(t) ==
    /\ doc[t] # Blank
    /\ trip' = [trip EXCEPT ![t] = NoTrip]
    /\ stored' = [stored EXCEPT ![t] = NoLogin]
    /\ doc' = [doc EXCEPT ![t] = Blank]
    /\ UNCHANGED <<serverVars, cookie, reportVars>>

\* Variant: the script does without a connection where there is no popup.
ConnectsWithPopup(page, login) ==
    IF page \in {"home", "reports"} THEN login ELSE NoLogin

\* The login the page's connection is made with, if any: what the tab remembers
\* when the page is loaded, on whatever page.
Connects(page, login) == login

CookieAfter(setCookie) == IF setCookie = None THEN cookie ELSE setCookie

\* DOMContentLoaded: signalr-notify.js is included first, so it reads what the
\* tab remembers before the script of Home/Index stores the login it was given.
Load(t) ==
    LET a == trip[t] IN
    /\ a.stage = "answered"
    /\ doc' = [doc EXCEPT ![t] =
        Document(a.page, a.bag, a.list, Connects(a.page, stored[t]),
                 IF a.missed THEN {"missed"} ELSE {})]
    /\ stored' = [stored EXCEPT ![t] = IF a.bag # NoLogin THEN a.bag ELSE @]
    /\ cookie' = CookieAfter(a.setCookie)
    /\ trip' = [trip EXCEPT ![t] = NoTrip]
    /\ UNCHANGED <<serverVars, reportVars>>

-----------------------------------------------------------------------------
(* The hub *)

\* Variant: StatusHub without [Authorize].
AnyoneIsAccepted(login) == login \notin expired

\* [Authorize] on StatusHub; who has no login has no token either.
HubAccepts(login) == login # NoLogin /\ login \notin expired

Connect(t) ==
    /\ doc[t].online = "starting" /\ HubAccepts(doc[t].link)
    /\ doc' = [doc EXCEPT ![t].online = "yes"]
    /\ UNCHANGED <<serverVars, cookie, reportVars, trip, stored>>

\* start() fails, which is only logged, or the connection breaks with what was
\* on its way.  Nothing connects again before the next page.
Disconnect(t) ==
    /\ \/ doc[t].online = "starting" /\ ~HubAccepts(doc[t].link)
       \/ doc[t].online # "no" /\ "hub" \in Faults
    /\ doc' = [doc EXCEPT
        ![t].online = "no",
        ![t].inbox = <<>>,
        ![t].excuse = @ \cup {"offline"}]
    /\ UNCHANGED <<serverVars, cookie, reportVars, trip, stored>>

\* Clients.User(e): the connections e has at this moment.
IsReached(t, e) ==
    doc[t].online = "yes" /\ logins[doc[t].link] = e

IsListOf(list, e) == list # None /\ list.employee = e

\* The list of e was rendered before the change the notice is about.
IsBehind(list, notice) ==
    IsListOf(list, notice.employee) /\ list.version < notice.version

\* NotifyEmployee.  Who has no connection yet, or none any more, misses it.
NotifyEmployee(notice) ==
    /\ doc' = [t \in Tab |->
        IF IsReached(t, notice.employee)
        THEN [doc[t] EXCEPT !.inbox = Append(@, notice)]
        ELSE IF IsBehind(doc[t].list, notice)
        THEN [doc[t] EXCEPT !.excuse = @ \cup {"missed"}]
        ELSE doc[t]]
    /\ trip' = [t \in Tab |->
        IF trip[t].stage = "answered" /\ IsBehind(trip[t].list, notice)
        THEN [trip[t] EXCEPT !.missed = TRUE]
        ELSE trip[t]]

-----------------------------------------------------------------------------
(* The reports of an employee *)

ChangesMade == FoldFunction(+, 0, reports)

Changed(e) ==
    /\ ChangesMade < MaxChanges
    /\ reports' = [reports EXCEPT ![e] = @ + 1]

\* A driver of EventHost stores, archives or deletes a report of e; the notice
\* comes later: after a delay, or after one more event.
ChangeReports(e) ==
    /\ Changed(e)
    /\ owed' = owed \cup {[employee |-> e, version |-> reports'[e]]}
    /\ UNCHANGED <<serverVars, cookie, told, trip, stored, doc>>

\* ReportArchiver takes an expired report off the list and tells nobody.
ArchiveExpired(e) ==
    /\ Changed(e)
    /\ UNCHANGED <<serverVars, cookie, owed, told, trip, stored, doc>>

Later(v, w) == IF v < w THEN w ELSE v

\* PushToUserAsync: a driver notifies the owner of its change.
Push ==
    /\ \E notice \in owed :
        /\ owed' = owed \ {notice}
        /\ told' = [told EXCEPT ![notice.employee] = Later(@, notice.version)]
        /\ NotifyEmployee(notice)
    /\ UNCHANGED <<serverVars, cookie, reports, stored>>

\* A driver fails between its change and its notice, or EventHost ends with the
\* drivers in flight.
NoticesAreLost ==
    /\ "driver" \in Faults
    /\ owed' \in SUBSET owed
    /\ UNCHANGED <<serverVars, cookie, reports, told, trip, stored, doc>>

\* aps.js: a connection without a token, and a notice of which nothing is true.
\* Refused, it ends with start(), and has changed nothing.
SendNotification ==
    /\ IF HubAccepts(NoLogin)
       THEN \E e \in Employee : NotifyEmployee([employee |-> e, version |-> 0])
       ELSE UNCHANGED <<doc, trip>>
    /\ UNCHANGED <<serverVars, cookie, reportVars, stored>>

-----------------------------------------------------------------------------
(* A notice in a page *)

HasPopup(page) == page \in {"home", "reports"}

Copies(r, n) == IF n = 0 THEN EmptyBag ELSE [asked \in {r} |-> n]

\* Variant: the list is asked for when the popup comes up, and not when it goes.
RefreshWhenShown(d) ==
    IF d.shown THEN d
    ELSE [d EXCEPT !.shown = TRUE, !.refreshes = @ (+) Copies(Asked(cookie), 1)]

\* showPopup: every notice adds one more handler.
ShowPopup(d) == [d EXCEPT !.shown = TRUE, !.handlers = @ + 1]

\* Where the page has no popup the handler throws at its first element.
ReadNotification(t) ==
    /\ doc[t].inbox # <<>>
    /\ LET read == [doc[t] EXCEPT !.inbox = Tail(@)] IN
        doc' = [doc EXCEPT ![t] =
            IF HasPopup(read.page) THEN ShowPopup(read) ELSE read]
    /\ UNCHANGED <<serverVars, cookie, reportVars, trip, stored>>

\* Closed by its button or after five seconds: every handler asks for the list.
HidePopup(t) ==
    /\ doc[t].shown
    /\ doc' = [doc EXCEPT
        ![t].shown = FALSE,
        ![t].refreshes = @ (+) Copies(Asked(cookie), doc[t].handlers)]
    /\ UNCHANGED <<serverVars, cookie, reportVars, trip, stored>>

\* Reports/Index, which is all the refresh asks for.
ServeRefresh(t) ==
    /\ \E r \in BagToSet(doc[t].refreshes) :
        /\ ~r.answered
        /\ LET a == ReportsPage(r.setCookie)
               answer == [answered |-> TRUE, list |-> a.list, setCookie |-> a.setCookie]
           IN  doc' = [doc EXCEPT
                ![t].refreshes = (@ (-) Copies(r, 1)) (+) Copies(answer, 1)]
    /\ UNCHANGED <<serverVars, cookie, reportVars, trip, stored>>

\* What keeps the answer from bringing the list up to date.
ExcuseOf(list, answer) ==
    IF answer = None \/ answer.employee # list.employee THEN {"session"}
    ELSE IF answer.version < list.version THEN {"overtaken"}
    ELSE {}

\* Variant: the list is emptied first.
ListReplaced(list, answer) == answer

\* html(undefined), when the answer is the login page, and html(...) where this
\* page has no divReports change nothing.
ListAfter(list, answer) == IF list = None \/ answer = None THEN list ELSE answer

\* success.
RefreshArrives(t) ==
    /\ \E r \in BagToSet(doc[t].refreshes) :
        /\ r.answered
        /\ doc' = [doc EXCEPT
            ![t].refreshes = @ (-) Copies(r, 1),
            ![t].list = ListAfter(@, r.list),
            ![t].excuse = IF doc[t].list = None THEN @
                          ELSE @ \cup ExcuseOf(doc[t].list, r.list)]
        /\ cookie' = CookieAfter(r.setCookie)
    /\ UNCHANGED <<serverVars, reportVars, trip, stored>>

\* error: only logged.
RefreshFails(t) ==
    /\ "ajax" \in Faults
    /\ \E r \in BagToSet(doc[t].refreshes) :
        doc' = [doc EXCEPT
            ![t].refreshes = @ (-) Copies(r, 1),
            ![t].excuse = @ \cup {"failed"}]
    /\ UNCHANGED <<serverVars, cookie, reportVars, trip, stored>>

-----------------------------------------------------------------------------

\* What users do.
UserStep(t) ==
    \/ \E target \in {"login", "home", "reports"} : Visit(t, target)
    \/ Abandon(t) \/ Close(t)
    \/ \E e \in Employee : Login(t, e)
    \/ Logout(t) \/ SubmitReport(t) \/ SubmitUnchecked(t)

\* What goes wrong or runs out.
Failure ==
    \/ \E t \in Tab : Disconnect(t) \/ RefreshFails(t)
    \/ SessionEnds \/ TokenExpires \/ NoticesAreLost

\* What happens by itself in a tab.
BrowserStep(t) ==
    \/ Serve(t) \/ Load(t) \/ Connect(t)
    \/ ReadNotification(t) \/ HidePopup(t)
    \/ ServeRefresh(t) \/ RefreshArrives(t)

ServerStep ==
    \/ \E e \in Employee : ChangeReports(e) \/ ArchiveExpired(e)
    \/ Push \/ SendNotification

Next ==
    \/ \E t \in Tab : UserStep(t) \/ BrowserStep(t)
    \/ ServerStep
    \/ Failure

Spec == Init /\ [][Next]_vars

\* The browser handles what has arrived, a popup closes by itself, the server
\* answers refreshes and their answers arrive or fail.
Fairness ==
    \A t \in Tab :
        /\ WF_vars(ReadNotification(t)) /\ WF_vars(HidePopup(t))
        /\ WF_vars(ServeRefresh(t)) /\ WF_vars(RefreshArrives(t))

FairSpec == Spec /\ Fairness

-----------------------------------------------------------------------------
(* Properties *)

\* A page of reports with nothing under way shows every change its employee was
\* notified of, unless it missed a notice, was offline, or a refresh failed, found
\* no session of this employee, or was overtaken by a later one.  (Nobody is told
\* of what ReportArchiver does, or of a change whose driver did not live to tell.)
ListIsCurrent ==
    \A t \in Tab :
        /\ doc[t].page = "reports" /\ doc[t].excuse = {}
        /\ doc[t].inbox = <<>> /\ ~doc[t].shown /\ doc[t].refreshes = EmptyBag
        => doc[t].list.version >= told[doc[t].list.employee]

\* From the page after the one a login has landed on, every page of the tab is
\* connected with the login the tab remembers, while its token is accepted.
ConnectedWhereRemembered ==
    \A t \in Tab :
        /\ doc[t].page # "blank" /\ doc[t].bag = NoLogin
        /\ stored[t] # NoLogin /\ stored[t] \notin expired
        => doc[t].link = stored[t] /\ (doc[t].online # "no" \/ "offline" \in doc[t].excuse)

\* Whatever a page is told is true: its employee's list has changed that often.
NoticesAreTrue ==
    \A t \in Tab : \A i \in DOMAIN doc[t].inbox :
        LET n == doc[t].inbox[i] IN
        /\ n.employee = logins[doc[t].link]
        /\ n.version \in 1 .. reports[n.employee]

\* A notice that reaches a page with its employee's list brings its change into
\* the list, as long as the tab stays with that list.  (The page may have another
\* employee's from the beginning, or come to have it: it is connected with the
\* login the tab remembers, and lists the reports of the session, which another
\* tab may have taken over.)
IsTold(t, e, v) ==
    /\ IsListOf(doc[t].list, e)
    /\ [employee |-> e, version |-> v] \in Range(doc[t].inbox)
NoticesAreHeeded ==
    \A t \in Tab, e \in Employee, v \in 1 .. MaxChanges :
        IsTold(t, e, v) ~>
            \/ ~IsListOf(doc[t].list, e) \/ doc[t].excuse # {}
            \/ doc[t].list.version >= v

=============================================================================
