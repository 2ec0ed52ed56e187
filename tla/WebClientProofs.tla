--------------------------- MODULE WebClientProofs ---------------------------
(***************************************************************************)
(* What WebClient promises, for any employees and tabs, and any number of  *)
(* logins and changes: the list of a page lacks what its employee was told *)
(* of only in the ways the model names, pages are connected with the login *)
(* their tab remembers, and what a page is told is true.                   *)
(*                                                                         *)
(* A step moves one tab, changes the reports of one employee, or tells all *)
(* tabs of such a change.  For each it is shown that the pages and trips   *)
(* it makes are good ones: GoodPage and GoodTrip are the inductive         *)
(* invariant, tab by tab.                                                  *)
(***************************************************************************)
EXTENDS WebClientInvariant, TLAPS

-----------------------------------------------------------------------------
(* Bags of refreshes *)

\* The union of bags is a bag of what is in either.
LEMMA BagUnited ==
  ASSUME NEW B, NEW C, IsABag(B), IsABag(C)
  PROVE  IsABag(B (+) C) /\ BagToSet(B (+) C) = BagToSet(B) \cup BagToSet(C)
  <1>1. DOMAIN (B (+) C) = DOMAIN B \cup DOMAIN C
    BY DEF (+)
  <1>2. \A e \in DOMAIN B \cup DOMAIN C : (B (+) C)[e] \in {n \in Nat : n > 0}
    BY DEF (+), IsABag
  <1>3. B (+) C = [e \in DOMAIN (B (+) C) |-> (B (+) C)[e]]
    BY <1>1 DEF (+)
  <1> QED BY <1>1, <1>2, <1>3 DEF IsABag, BagToSet

\* Copies of one refresh.
LEMMA BagOfCopies ==
  ASSUME NEW r, NEW n \in Nat
  PROVE  /\ IsABag(Copies(r, n)) /\ BagToSet(Copies(r, n)) \subseteq {r}
         /\ n > 0 => BagToSet(Copies(r, n)) = {r}
  BY DEF Copies, IsABag, BagToSet, EmptyBag, SetToBag

\* One copy is taken out; the others stay.
LEMMA BagWithout ==
  ASSUME NEW B, IsABag(B), NEW r
  PROVE  /\ IsABag(B (-) Copies(r, 1)) /\ BagToSet(B (-) Copies(r, 1)) \subseteq BagToSet(B)
         /\ \A s \in BagToSet(B) : s # r => s \in BagToSet(B (-) Copies(r, 1))
  <1> DEFINE D == [e \in DOMAIN B |->
                    IF e \in DOMAIN Copies(r, 1) THEN B[e] - Copies(r, 1)[e] ELSE B[e]]
             S == {e \in DOMAIN D : D[e] > 0}
  <1>1. B (-) Copies(r, 1) = [e \in S |-> D[e]]
    BY DEF (-)
  <1>2. Copies(r, 1) = [asked \in {r} |-> 1]
    BY DEF Copies
  <1>3. \A e \in DOMAIN B : B[e] \in Nat /\ B[e] > 0
    BY DEF IsABag
  <1>4. \A e \in DOMAIN B : D[e] = IF e = r THEN B[e] - 1 ELSE B[e]
    BY <1>2
  <1> HIDE DEF D
  <1>5. DOMAIN D = DOMAIN B
    BY DEF D
  <1>6. \A e \in S : D[e] \in Nat /\ D[e] > 0
    BY <1>3, <1>4, <1>5
  <1>7. S \subseteq DOMAIN B /\ \A e \in DOMAIN B : e # r => e \in S
    BY <1>3, <1>4, <1>5
  <1> HIDE DEF S
  <1> QED BY <1>1, <1>6, <1>7 DEF IsABag, BagToSet

\* No refresh is under way.
LEMMA NoCopies == IsABag(EmptyBag) /\ BagToSet(EmptyBag) = {}
  BY DEF IsABag, BagToSet, EmptyBag, SetToBag

-----------------------------------------------------------------------------
(* Types *)

\* Value d may be the page of a tab.
IsTab(d) ==
    /\ d \in [page : Page, bag : LoginId, list : List \cup {None},
              link : LoginId, online : {"no", "starting", "yes"},
              checked : BOOLEAN, inbox : Seq(List),
              shown : BOOLEAN, handlers : Nat, refreshes : {d.refreshes},
              excuse : SUBSET Excuse]
    /\ IsABag(d.refreshes) /\ BagToSet(d.refreshes) \subseteq Refresh
    /\ (d.page = "reports") = (d.list # None)

\* A function on tabs.
OnTabs(f) == f = [t \in Tab |-> f[t]]

\* TypeOK, with the pages taken one by one.
Typed ==
    /\ logins \in Seq(Employee) /\ Len(logins) <= MaxLogins
    /\ expired \subseteq DOMAIN logins
    /\ session \in LoginId /\ cookie \in LoginId
    /\ reports \in [Employee -> Nat]
    /\ owed \subseteq List
    /\ told \in [Employee -> Nat]
    /\ OnTabs(trip) /\ \A t \in Tab : trip[t] \in Trip
    /\ OnTabs(stored) /\ \A t \in Tab : stored[t] \in LoginId
    /\ OnTabs(doc) /\ \A t \in Tab : IsTab(doc[t])

\* They say the same.
LEMMA TypedIsTypeOK == TypeOK <=> Typed
  <1>1. trip \in [Tab -> Trip] <=> OnTabs(trip) /\ \A t \in Tab : trip[t] \in Trip
    BY DEF OnTabs
  <1>2. stored \in [Tab -> LoginId] <=> OnTabs(stored) /\ \A t \in Tab : stored[t] \in LoginId
    BY DEF OnTabs
  <1>3. doc \in [Tab -> TabState] <=> OnTabs(doc) /\ \A t \in Tab : doc[t] \in TabState
    BY DEF OnTabs
  <1>4. ASSUME NEW t \in Tab
        PROVE  doc[t] \in TabState <=>
                doc[t] \in [page : Page, bag : LoginId, list : List \cup {None},
                  link : LoginId, online : {"no", "starting", "yes"},
                  checked : BOOLEAN, inbox : Seq(List),
                  shown : BOOLEAN, handlers : Nat, refreshes : {doc[t].refreshes},
                  excuse : SUBSET Excuse]
    <2>1. doc[t].refreshes \in Refreshes
      BY DEF Refreshes
    <2> QED BY <2>1, SMTT(30) DEF TabState
  <1>5. (\A b \in Refreshes : IsABag(b) /\ BagToSet(b) \subseteq Refresh)
        <=> \A t \in Tab : IsABag(doc[t].refreshes) /\ BagToSet(doc[t].refreshes) \subseteq Refresh
    BY DEF Refreshes
  <1>6. ((\A t \in Tab : doc[t] \in TabState)
           /\ (\A b \in Refreshes : IsABag(b) /\ BagToSet(b) \subseteq Refresh)
           /\ (\A t \in Tab : (doc[t].page = "reports") = (doc[t].list # None)))
        <=> \A t \in Tab : IsTab(doc[t])
    BY <1>4, <1>5, Zenon DEF IsTab
  <1> QED BY <1>1, <1>2, <1>3, <1>6 DEF TypeOK, Typed

-----------------------------------------------------------------------------
(* What a step leaves alone *)

\* Logins are added, tokens expire, notices are lost; no list changes and nobody is
\* notified.
ServerGoesOn ==
    /\ logins' \in Seq(Employee) /\ Len(logins') <= MaxLogins
    /\ Len(logins) <= Len(logins')
    /\ \A k \in DOMAIN logins : logins'[k] = logins[k]
    /\ expired \subseteq expired' /\ expired' \subseteq DOMAIN logins'
    /\ session' \in LoginId' /\ cookie' \in LoginId'
    /\ reports' = reports /\ told' = told /\ owed' \subseteq owed

\* Trip p may be that of a tab.
GoodTrip(p) == p \in Trip /\ TripOK(p)

\* Page d may be that of a tab that remembers login.
GoodPage(d, login) == login \in LoginId /\ IsTab(d) /\ PageOK(d, login)

WebParts ==
    /\ logins \in Seq(Employee) /\ Len(logins) <= MaxLogins
    /\ expired \subseteq DOMAIN logins
    /\ session \in LoginId /\ cookie \in LoginId
    /\ reports \in [Employee -> Nat]
    /\ owed \subseteq List
    /\ told \in [Employee -> Nat]
    /\ ChangesToldOK
    /\ OnTabs(trip) /\ OnTabs(stored) /\ OnTabs(doc)
    /\ \A t \in Tab : GoodTrip(trip[t]) /\ GoodPage(doc[t], stored[t])

\* WebInductive, tab by tab.
LEMMA InductiveParts == WebInductive <=> WebParts
  BY TypedIsTypeOK, Zenon DEF WebInductive, WebParts, Typed, GoodTrip, GoodPage

\* Who has logged in stays known.
LEMMA LoginsStay ==
  ASSUME logins \in Seq(Employee), ServerGoesOn
  PROVE  LoginId \subseteq LoginId' /\ DOMAIN logins \subseteq DOMAIN logins'
  BY DEF ServerGoesOn, LoginId

\* A trip that goes on as it was.
LEMMA GoodTripStays ==
  ASSUME logins \in Seq(Employee), ServerGoesOn, NEW p, GoodTrip(p)
  PROVE  GoodTrip(p)'
  <1>1. LoginId \subseteq LoginId' /\ reports' = reports /\ told' = told
    BY LoginsStay DEF ServerGoesOn
  <1>2. p \in Trip'
    BY <1>1 DEF GoodTrip, Trip
  <1> QED BY <1>1, <1>2 DEF GoodTrip, TripOK, IsOfThePast, IsUpToDate

\* A page that stays as it was.
LEMMA GoodPageStays ==
  ASSUME logins \in Seq(Employee), ServerGoesOn, NEW d, NEW login, GoodPage(d, login)
  PROVE  GoodPage(d, login)'
  <1>1. LoginId \subseteq LoginId' /\ DOMAIN logins \subseteq DOMAIN logins'
    BY LoginsStay
  <1>2. Refresh \subseteq Refresh'
    BY <1>1 DEF Refresh
  <1>3. IsTab(d)'
    BY <1>1, <1>2 DEF GoodPage, IsTab
  <1>4. reports' = reports /\ told' = told
    BY DEF ServerGoesOn
  <1>5. ConnectionOK(d)' /\ RefreshesOK(d)' /\ ListOK(d)'
    BY <1>4
    DEF GoodPage, PageOK, ConnectionOK, RefreshesOK, ListOK, IsOfThePast, IsUpToDate,
        IsComing, Mends
  <1>6. NoticesOK(d)'
    <2>1. d.inbox # <<>> => d.link \in DOMAIN logins
      BY DEF GoodPage, PageOK, ConnectionOK, IsTab, LoginId, NoLogin
    <2>2. \A i \in DOMAIN d.inbox : d.inbox # <<>>
      OBVIOUS
    <2> QED BY <1>4, <2>1, <2>2 DEF GoodPage, PageOK, NoticesOK, ServerGoesOn
  <1>7. RemembersOK(d, login)'
    BY DEF GoodPage, PageOK, RemembersOK, ServerGoesOn
  <1> QED BY <1>1, <1>3, <1>5, <1>6, <1>7 DEF GoodPage, PageOK

\* What has to be shown of the tabs after a step.
LEMMA TabsMove ==
  ASSUME WebInductive, ServerGoesOn, OnTabs(trip)', OnTabs(stored)', OnTabs(doc)',
         \A t \in Tab : GoodTrip(trip[t])' /\ GoodPage(doc[t], stored[t])'
  PROVE  WebInductive'
  <1>1. /\ reports' \in [Employee -> Nat] /\ owed' \subseteq List
        /\ told' \in [Employee -> Nat] /\ ChangesToldOK'
    BY InductiveParts DEF WebParts, ServerGoesOn, ChangesToldOK
  <1>2. WebParts'
    BY <1>1 DEF WebParts, ServerGoesOn
  <1>3. WebParts' => WebInductive'
    BY InductiveParts, PTL
  <1> QED BY <1>2, <1>3

\* A tab that a step leaves alone.
LEMMA TabUnmoved ==
  ASSUME WebInductive, ServerGoesOn, NEW t \in Tab
  PROVE  /\ trip'[t] = trip[t] => GoodTrip(trip[t])'
         /\ doc'[t] = doc[t] /\ stored'[t] = stored[t] => GoodPage(doc[t], stored[t])'
  <1>1. PICK p, d, login : p = trip[t] /\ d = doc[t] /\ login = stored[t]
    OBVIOUS
  <1>2. GoodTrip(p) /\ GoodPage(d, login) /\ logins \in Seq(Employee)
    BY <1>1, InductiveParts DEF WebParts
  <1>3. GoodTrip(p)' /\ GoodPage(d, login)'
    BY <1>2, GoodTripStays, GoodPageStays
  <1>4. ASSUME trip'[t] = trip[t] PROVE GoodTrip(trip[t])'
    <2>1. trip'[t] = p
      BY <1>1, <1>4
    <2> QED BY <1>3, <2>1 DEF GoodTrip, TripOK
  <1>5. ASSUME doc'[t] = doc[t], stored'[t] = stored[t] PROVE GoodPage(doc[t], stored[t])'
    <2>1. doc'[t] = d /\ stored'[t] = login
      BY <1>1, <1>5
    <2> QED BY <1>3, <2>1
      DEF GoodPage, IsTab, PageOK, ConnectionOK, NoticesOK, RemembersOK, RefreshesOK,
          ListOK, IsComing
  <1> QED BY <1>4, <1>5

\* A step of one tab, to trip p, page d and login m.
LEMMA OneTabMoves ==
  ASSUME WebInductive, ServerGoesOn, NEW t \in Tab, NEW p, NEW d, NEW m,
         trip' = [trip EXCEPT ![t] = p], GoodTrip(p)',
         doc' = [doc EXCEPT ![t] = d], stored' = [stored EXCEPT ![t] = m], GoodPage(d, m)'
  PROVE  WebInductive'
  <1>1. OnTabs(trip) /\ OnTabs(stored) /\ OnTabs(doc)
    BY InductiveParts DEF WebParts
  <1>2. /\ OnTabs(trip)' /\ OnTabs(stored)' /\ OnTabs(doc)'
        /\ trip'[t] = p /\ stored'[t] = m /\ doc'[t] = d
        /\ \A u \in Tab : u # t =>
            trip'[u] = trip[u] /\ stored'[u] = stored[u] /\ doc'[u] = doc[u]
    BY <1>1 DEF OnTabs
  <1>3. GoodTrip(trip[t])'
    BY <1>2 DEF GoodTrip, TripOK
  <1>4. GoodPage(doc[t], stored[t])'
    BY <1>2
    DEF GoodPage, IsTab, PageOK, ConnectionOK, NoticesOK, RemembersOK, RefreshesOK,
        ListOK, IsComing
  <1>5. \A u \in Tab : GoodTrip(trip[u])' /\ GoodPage(doc[u], stored[u])'
    BY <1>2, <1>3, <1>4, TabUnmoved
  <1> QED BY <1>2, <1>5, TabsMove

\* A step that no tab takes part in.
LEMMA NoTabMoves ==
  ASSUME WebInductive, ServerGoesOn, UNCHANGED <<trip, stored, doc>>
  PROVE  WebInductive'
  <1>1. \A u \in Tab : GoodTrip(trip[u])' /\ GoodPage(doc[u], stored[u])'
    BY TabUnmoved
  <1>2. OnTabs(trip)' /\ OnTabs(stored)' /\ OnTabs(doc)'
    BY InductiveParts DEF WebParts, OnTabs
  <1> QED BY <1>1, <1>2, TabsMove

-----------------------------------------------------------------------------
(* Steps that load a page, or change what is under way to one *)

\* A step that changes at most the trip of tab t.
LEMMA TripMoves ==
  ASSUME WebInductive, ServerGoesOn, UNCHANGED <<stored, doc>>, NEW t \in Tab,
         NEW p, trip' = [trip EXCEPT ![t] = p], GoodTrip(p)'
  PROVE  WebInductive'
  <1>1. OnTabs(trip) /\ OnTabs(stored) /\ OnTabs(doc)
    BY InductiveParts DEF WebParts
  <1>2. /\ OnTabs(trip)' /\ OnTabs(stored)' /\ OnTabs(doc)' /\ trip'[t] = p
        /\ \A u \in Tab : u # t => trip'[u] = trip[u]
    BY <1>1 DEF OnTabs
  <1>3. GoodTrip(trip[t])'
    BY <1>2 DEF GoodTrip, TripOK
  <1>4. \A u \in Tab : GoodTrip(trip[u])' /\ GoodPage(doc[u], stored[u])'
    BY <1>2, <1>3, TabUnmoved
  <1> QED BY <1>2, <1>4, TabsMove

\* A step that leaves the server alone.
LEMMA ServerUnmoved ==
  ASSUME WebInductive, UNCHANGED <<serverVars, reportVars>>, cookie' \in LoginId'
  PROVE  ServerGoesOn /\ LoginId' = LoginId
  BY InductiveParts DEF WebParts, ServerGoesOn, serverVars, reportVars, LoginId

\* No request, a request, and an answer without a list of reports.
LEMMA PlainTrips ==
  ASSUME NEW temp \in LoginId, NEW target \in {"login", "home", "reports"},
         NEW page \in Page, page # "reports",
         NEW setCookie \in LoginId \cup {None}
  PROVE  /\ GoodTrip(NoTrip) /\ GoodTrip(Sent(target, temp))
         /\ GoodTrip(Answered(page, temp, None, setCookie))
  <1>1. GoodTrip(NoTrip)
    BY DEF NoTrip, GoodTrip, TripOK, Trip
  <1>2. GoodTrip(Sent(target, temp))
    BY DEF Sent, GoodTrip, TripOK, Trip
  <1>3. GoodTrip(Answered(page, temp, None, setCookie))
    BY DEF Answered, GoodTrip, TripOK, Trip, IsOfThePast
  <1> QED BY <1>1, <1>2, <1>3

\* The list that is rendered is the current one.
LEMMA ListTyped ==
  ASSUME WebInductive, session # NoLogin
  PROVE  /\ CurrentList \in List /\ CurrentList # None
         /\ IsOfThePast(CurrentList) /\ IsUpToDate(CurrentList)
  <1>1. logins[session] \in Employee
    BY InductiveParts DEF WebParts, LoginId, NoLogin
  <1>2. /\ reports[logins[session]] \in Nat
        /\ told[logins[session]] <= reports[logins[session]]
        /\ told[logins[session]] \in Nat
    BY <1>1, InductiveParts DEF WebParts, ChangesToldOK
  <1> QED BY <1>1, <1>2, NoneIsNoList DEF CurrentList, List, IsOfThePast, IsUpToDate

\* What the pages of the server answer.
LEMMA PagesTyped ==
  ASSUME WebInductive, NEW temp \in LoginId
  PROVE  GoodTrip(HomePage(temp)) /\ GoodTrip(ReportsPage(temp))
  <1>1. NoLogin \in LoginId
    BY InductiveParts DEF WebParts, LoginId, NoLogin
  <1>2. GoodTrip(HomePage(temp))
    BY <1>1, PlainTrips DEF HomePage, Page
  <1>3. CASE session = NoLogin
    BY <1>1, <1>2, <1>3, PlainTrips DEF ReportsPage, Page
  <1>4. CASE session # NoLogin
    <2>1. PICK list : list = CurrentList
      OBVIOUS
    <2>2. list \in List /\ list # None /\ IsOfThePast(list) /\ IsUpToDate(list)
      BY <1>4, <2>1, ListTyped
    <2>3. ReportsPage(temp) = Answered("reports", NoLogin, list, temp)
      BY <1>4, <2>1 DEF ReportsPage
    <2>4. Answered("reports", NoLogin, list, temp) \in Trip
      BY <1>1, <2>2 DEF Answered, Trip, Page
    <2>5. GoodTrip(Answered("reports", NoLogin, list, temp))
      BY <2>2, <2>4 DEF Answered, GoodTrip, TripOK, IsOfThePast, IsUpToDate
    <2> QED BY <1>2, <2>3, <2>5
  <1> QED BY <1>3, <1>4

\* Steps of a tab and of the server that leave the pages alone.
LEMMA TripStep ==
  ASSUME WebInductive, NEW t \in Tab,
         \/ \E target \in {"login", "home", "reports"} : Visit(t, target)
         \/ Serve(t) \/ Abandon(t)
         \/ Logout(t) \/ SubmitReport(t) \/ SubmitUnchecked(t)
  PROVE  WebInductive'
  <1>0. /\ cookie \in LoginId /\ NoLogin \in LoginId /\ logins \in Seq(Employee)
        /\ expired \subseteq DOMAIN logins
        /\ GoodTrip(trip[t])
    BY InductiveParts DEF WebParts, LoginId, NoLogin
  <1>1. /\ UNCHANGED <<stored, doc>> /\ ServerGoesOn
    <2>1. /\ UNCHANGED <<logins, expired, cookie, reports, owed, told, stored, doc>>
          /\ session' = session \/ session' = NoLogin
      BY DEF Visit, Serve, Abandon, Logout, SubmitReport, SubmitUnchecked, serverVars,
             reportVars
    <2> QED BY <1>0, <2>1, InductiveParts DEF WebParts, ServerGoesOn, LoginId
  <1>2. ASSUME NEW p, trip' = [trip EXCEPT ![t] = p], GoodTrip(p)
        PROVE  WebInductive'
    BY <1>0, <1>1, <1>2, GoodTripStays, TripMoves
  <1>3. ASSUME NEW target \in {"login", "home", "reports"}, Visit(t, target)
        PROVE  WebInductive'
    <2>1. GoodTrip(Sent(target, cookie))
      BY <1>0, PlainTrips DEF Page
    <2> QED BY <1>2, <1>3, <2>1 DEF Visit
  <1>4. CASE Serve(t)
    <2>1. PICK temp : temp = trip[t].temp
      OBVIOUS
    <2>2. temp \in LoginId /\ trip[t].target \in {"login", "home", "reports"}
      BY <1>0, <1>4, <2>1 DEF Serve, GoodTrip, Trip, NoTrip
    <2>3. PICK p : /\ p \in {HomePage(temp), ReportsPage(temp),
                             Answered("login", NoLogin, None, None)}
                   /\ trip' = [trip EXCEPT ![t] = p]
      BY <1>4, <2>1, <2>2 DEF Serve
    <2>4. GoodTrip(p)
      BY <1>0, <2>2, <2>3, PagesTyped, PlainTrips DEF Page
    <2> QED BY <1>2, <2>3, <2>4
  <1>5. CASE Abandon(t)
    BY <1>0, <1>2, <1>5, PlainTrips DEF Abandon, Page
  <1>6. CASE Logout(t) \/ SubmitReport(t) \/ SubmitUnchecked(t)
    <2>1. PICK page, k : /\ page \in Page /\ page # "reports"
                         /\ k \in LoginId \cup {None}
                         /\ trip' = [trip EXCEPT ![t] = Answered(page, NoLogin, None, k)]
      BY <1>0, <1>6 DEF Logout, SubmitReport, SubmitUnchecked, Page
    <2> QED BY <1>0, <1>2, <2>1, PlainTrips
  <1> QED BY <1>3, <1>4, <1>5, <1>6

\* A login, whether its answer arrives or not.
LEMMA LoginStep ==
  ASSUME WebInductive, NEW t \in Tab, NEW e \in Employee, Login(t, e)
  PROVE  WebInductive'
  <1>0. /\ cookie \in LoginId /\ logins \in Seq(Employee) /\ expired \subseteq DOMAIN logins
        /\ Len(logins) \in Nat
    BY InductiveParts DEF WebParts
  <1>1. /\ logins' = Append(logins, e) /\ session' = Len(logins') /\ Len(logins) < MaxLogins
        /\ UNCHANGED <<expired, reports, owed, told, stored, doc>>
        /\ \/ cookie' = session' /\ trip' = [trip EXCEPT ![t] = Sent("home", cookie')]
           \/ UNCHANGED <<cookie, trip>>
    BY DEF Login, reportVars
  <1>2. /\ logins' \in Seq(Employee) /\ Len(logins') = Len(logins) + 1
        /\ \A k \in 1 .. Len(logins) : logins'[k] = logins[k]
    BY <1>0, <1>1
  <1>3. ServerGoesOn
    BY <1>0, <1>1, <1>2, WebAssumption DEF ServerGoesOn, LoginId
  <1>4. CASE cookie' = session' /\ trip' = [trip EXCEPT ![t] = Sent("home", cookie')]
    <2>1. PICK temp : temp = cookie'
      OBVIOUS
    <2>2. temp \in LoginId'
      BY <1>0, <1>1, <1>2, <1>4, <2>1 DEF LoginId
    <2>3. GoodTrip(Sent("home", temp))'
      BY <2>2 DEF Sent, GoodTrip, TripOK, Trip
    <2> QED BY <1>1, <1>3, <1>4, <2>1, <2>3, TripMoves
  <1>5. CASE UNCHANGED <<cookie, trip>>
    BY <1>1, <1>3, <1>5, NoTabMoves
  <1> QED BY <1>1, <1>4, <1>5

\* Steps of the server that no tab takes part in, and none at all.
LEMMA QuietStep ==
  ASSUME WebInductive,
         SessionEnds \/ TokenExpires \/ NoticesAreLost \/ UNCHANGED vars
  PROVE  WebInductive'
  <1>1. /\ logins \in Seq(Employee) /\ expired \subseteq DOMAIN logins
        /\ session \in LoginId /\ cookie \in LoginId /\ NoLogin \in LoginId
    BY InductiveParts DEF WebParts, LoginId, NoLogin
  <1>2. /\ UNCHANGED <<logins, cookie, reports, told, trip, stored, doc>>
        /\ owed' \subseteq owed
        /\ session' = session \/ session' = NoLogin
        /\ expired \subseteq expired' /\ expired' \subseteq DOMAIN logins
    BY <1>1 DEF SessionEnds, TokenExpires, NoticesAreLost, vars, serverVars, reportVars
  <1>3. ServerGoesOn
    BY <1>1, <1>2, InductiveParts DEF WebParts, ServerGoesOn, LoginId
  <1> QED BY <1>2, <1>3, NoTabMoves

-----------------------------------------------------------------------------
(* Steps that load a page *)

\* A page as it is loaded.
LEMMA DocumentTyped ==
  ASSUME NEW page \in Page, NEW bag \in LoginId, NEW list \in List \cup {None},
         NEW login \in LoginId, NEW m \in LoginId, NEW x \in {{}, {"missed"}},
         page = "reports" <=> list # None, IsOfThePast(list),
         list # None /\ x = {} => IsUpToDate(list),
         page # "blank" /\ bag = NoLogin => m = login
  PROVE  GoodPage(Document(page, bag, list, login, x), m)
  <1> DEFINE d == Document(page, bag, list, login, x)
  <1>0. PICK on : on = IF login = NoLogin THEN "no" ELSE "starting"
    OBVIOUS
  <1>a. PICK ch \in BOOLEAN : ch = (login # NoLogin)
    OBVIOUS
  <1>1. d = [page |-> page, bag |-> bag, list |-> list,
             link |-> login, online |-> on, checked |-> ch, inbox |-> <<>>,
             shown |-> FALSE, handlers |-> 0, refreshes |-> EmptyBag, excuse |-> x]
    BY <1>0, <1>a, Zenon DEF Document
  <1>b. login # NoLogin => on = "starting"
    BY <1>0
  <1>c. on \in {"no", "starting", "yes"} /\ (on # "no" => login # NoLogin)
    BY <1>0
  <1> HIDE DEF d
  <1>2. IsTab(d)
    <2>1. x \in SUBSET Excuse /\ <<>> \in Seq(List)
      BY DEF Excuse
    <2>2. d.refreshes = EmptyBag /\ d.page = page /\ d.list = list
      BY <1>1
    <2>3. d \in [page : Page, bag : LoginId, list : List \cup {None},
              link : LoginId, online : {"no", "starting", "yes"},
              checked : BOOLEAN, inbox : Seq(List),
              shown : BOOLEAN, handlers : Nat, refreshes : {EmptyBag},
              excuse : SUBSET Excuse]
      BY <1>1, <1>c, <2>1
    <2> QED BY <2>2, <2>3, NoCopies, Zenon DEF IsTab
  <1>3. ConnectionOK(d) /\ NoticesOK(d) /\ RefreshesOK(d)
    BY <1>1, <1>c, NoCopies DEF ConnectionOK, NoticesOK, RefreshesOK
  <1>4. RemembersOK(d, m)
    BY <1>1, <1>b DEF RemembersOK
  <1>5. ListOK(d)
    BY <1>1 DEF ListOK, IsUpToDate
  <1>6. GoodPage(d, m)
    BY <1>2, <1>3, <1>4, <1>5 DEF GoodPage, PageOK
  <1> QED BY <1>6 DEF d

\* A tab with nothing in it, and one with the login page.
LEMMA FirstPagesAreGood ==
  ASSUME logins \in Seq(Employee)
  PROVE  GoodPage(Blank, NoLogin) /\ GoodPage(LoginPage, NoLogin)
  <1>1. NoLogin \in LoginId /\ IsOfThePast(None) /\ "blank" \in Page /\ "login" \in Page
    BY DEF LoginId, NoLogin, IsOfThePast, Page
  <1> QED BY <1>1, DocumentTyped DEF Blank, LoginPage

\* A page is loaded, or the tab closed.
LEMMA LoadStep ==
  ASSUME WebInductive, NEW t \in Tab, Load(t) \/ Close(t)
  PROVE  WebInductive'
  <1>0. /\ GoodTrip(trip[t]) /\ stored[t] \in LoginId
        /\ logins \in Seq(Employee) /\ cookie \in LoginId /\ NoLogin \in LoginId
    BY InductiveParts DEF WebParts, GoodPage, LoginId, NoLogin
  <1>1. GoodTrip(NoTrip)
    BY DEF NoTrip, GoodTrip, TripOK, Trip
  <1>2. ASSUME UNCHANGED <<serverVars, reportVars>>, cookie' \in LoginId,
               NEW d, NEW m, GoodPage(d, m),
               trip' = [trip EXCEPT ![t] = NoTrip],
               doc' = [doc EXCEPT ![t] = d], stored' = [stored EXCEPT ![t] = m]
        PROVE  WebInductive'
    <2>1. ServerGoesOn
      BY <1>2, InductiveParts DEF WebParts, ServerGoesOn, serverVars, reportVars, LoginId
    <2>2. GoodTrip(NoTrip)' /\ GoodPage(d, m)'
      <3>1. PICK p : p = NoTrip
        OBVIOUS
      <3>2. GoodTrip(p)' /\ GoodPage(d, m)'
        BY <1>0, <1>1, <1>2, <2>1, <3>1, GoodTripStays, GoodPageStays
      <3> QED BY <3>1, <3>2 DEF NoTrip
    <2> QED BY <1>2, <2>1, <2>2, OneTabMoves
  <1>3. CASE Load(t)
    <2>1. PICK a : a = trip[t]
      OBVIOUS
    <2>2. /\ a.stage = "answered" /\ a.page \in Page /\ a.bag \in LoginId
          /\ a.list \in List \cup {None} /\ a.setCookie \in LoginId \cup {None}
          /\ a.missed \in BOOLEAN
      BY <1>0, <1>3, <2>1 DEF Load, GoodTrip, Trip, NoTrip
    <2>3. PICK x, m : /\ x = IF a.missed THEN {"missed"} ELSE {}
                      /\ m = IF a.bag # NoLogin THEN a.bag ELSE stored[t]
      OBVIOUS
    <2>4. GoodPage(Document(a.page, a.bag, a.list, stored[t], x), m)
      <3>1. /\ a.page = "reports" <=> a.list # None
            /\ IsOfThePast(a.list)
            /\ a.list # None /\ ~a.missed => IsUpToDate(a.list)
        BY <1>0, <2>1, <2>2 DEF GoodTrip, TripOK
      <3>2. x = {} => ~a.missed
        BY <2>3
      <3>3. a.list # None /\ x = {} => IsUpToDate(a.list)
        BY <3>1, <3>2
      <3>4. x \in {{}, {"missed"}} /\ m \in LoginId /\ (a.bag = NoLogin => m = stored[t])
        BY <1>0, <2>2, <2>3
      <3>5. ASSUME NEW pg \in Page, NEW bag \in LoginId, NEW list \in List \cup {None},
                   NEW login \in LoginId, pg = a.page, bag = a.bag, list = a.list,
                   login = stored[t]
            PROVE  GoodPage(Document(pg, bag, list, login, x), m)
        <4>1. /\ pg = "reports" <=> list # None
              /\ IsOfThePast(list)
              /\ list # None /\ x = {} => IsUpToDate(list)
          BY <3>1, <3>3, <3>5, Zenon
        <4>2. pg # "blank" /\ bag = NoLogin => m = login
          BY <3>4, <3>5
        <4> QED BY <3>4, <4>1, <4>2, DocumentTyped
      <3> QED BY <1>0, <2>2, <3>5
    <2>5. PICK d : d = Document(a.page, a.bag, a.list, stored[t], x)
      OBVIOUS
    <2>6. doc' = [doc EXCEPT ![t] = d]
      BY <1>3, <2>1, <2>3, <2>5 DEF Load, Connects
    <2>7. stored' = [stored EXCEPT ![t] = m]
      BY <1>3, <2>1, <2>3 DEF Load
    <2>8. cookie' \in LoginId
      BY <1>0, <1>3, <2>1, <2>2 DEF Load, CookieAfter
    <2> QED BY <1>2, <1>3, <2>4, <2>5, <2>6, <2>7, <2>8 DEF Load
  <1>4. CASE Close(t)
    BY <1>0, <1>2, <1>4, FirstPagesAreGood DEF Close
  <1> QED BY <1>3, <1>4

-----------------------------------------------------------------------------
(* Steps of a page *)

\* A step of the page of tab t, to page d.
LEMMA PageMoves ==
  ASSUME WebInductive, UNCHANGED <<serverVars, reportVars, trip, stored>>, cookie' \in LoginId,
         NEW t \in Tab, NEW d, doc' = [doc EXCEPT ![t] = d], GoodPage(d, stored[t])
  PROVE  WebInductive'
  <1>1. ServerGoesOn /\ logins \in Seq(Employee)
    BY InductiveParts DEF WebParts, ServerGoesOn, serverVars, reportVars, LoginId
  <1>2. PICK p, m : p = trip[t] /\ m = stored[t]
    OBVIOUS
  <1>3. trip' = [trip EXCEPT ![t] = p] /\ stored' = [stored EXCEPT ![t] = m]
    BY <1>2, InductiveParts DEF WebParts, OnTabs
  <1>4. GoodTrip(p) /\ GoodPage(d, m)
    BY <1>2, InductiveParts DEF WebParts
  <1>5. GoodTrip(p)' /\ GoodPage(d, m)'
    BY <1>1, <1>4, GoodTripStays, GoodPageStays
  <1> QED BY <1>1, <1>3, <1>5, OneTabMoves

\* Connect.
LEMMA ConnectStep ==
  ASSUME WebInductive, NEW t \in Tab, Connect(t)
  PROVE  WebInductive'
  <1>1. PICK e, m : e = doc[t] /\ m = stored[t]
    OBVIOUS
  <1>2. GoodPage(e, m) /\ cookie \in LoginId
    BY <1>1, InductiveParts DEF WebParts
  <1>3. PICK d : d = [e EXCEPT !.online = "yes"]
    OBVIOUS
  <1>4. doc' = [doc EXCEPT ![t] = d] /\ e.link # NoLogin
    BY <1>1, <1>3 DEF Connect, HubAccepts
  <1>5. /\ IsTab(d) /\ d.online = "yes"
        /\ d.page = e.page /\ d.bag = e.bag /\ d.list = e.list /\ d.link = e.link
        /\ d.inbox = e.inbox /\ d.shown = e.shown /\ d.handlers = e.handlers
        /\ d.refreshes = e.refreshes /\ d.excuse = e.excuse
    BY <1>2, <1>3 DEF GoodPage, IsTab
  <1>6. GoodPage(d, m)
    BY <1>2, <1>4, <1>5
    DEF GoodPage, PageOK, ConnectionOK, NoticesOK, RemembersOK, RefreshesOK,
        ListOK, IsComing
  <1> QED BY <1>1, <1>2, <1>4, <1>6, PageMoves DEF Connect

\* Disconnect: what was on its way is lost, and the page knows it.
LEMMA DisconnectStep ==
  ASSUME WebInductive, NEW t \in Tab, Disconnect(t)
  PROVE  WebInductive'
  <1>1. PICK e, m : e = doc[t] /\ m = stored[t]
    OBVIOUS
  <1>2. GoodPage(e, m) /\ cookie \in LoginId
    BY <1>1, InductiveParts DEF WebParts
  <1>3. PICK x : x = e.excuse \cup {"offline"}
    OBVIOUS
  <1>4. PICK d : d = [e EXCEPT !.online = "no", !.inbox = <<>>, !.excuse = x]
    OBVIOUS
  <1>5. doc' = [doc EXCEPT ![t] = d]
    BY <1>1, <1>3, <1>4 DEF Disconnect
  <1>6. x \in SUBSET Excuse /\ "offline" \in x
    BY <1>2, <1>3 DEF GoodPage, IsTab, Excuse
  <1>7. /\ IsTab(d) /\ d.online = "no" /\ d.inbox = <<>> /\ d.excuse = x
        /\ d.page = e.page /\ d.bag = e.bag /\ d.list = e.list /\ d.link = e.link
        /\ d.shown = e.shown /\ d.handlers = e.handlers /\ d.refreshes = e.refreshes
    <2>1. PICK f : f = [e EXCEPT !.online = "no"]
      OBVIOUS
    <2>2. /\ IsTab(f) /\ f.online = "no"
          /\ f.page = e.page /\ f.bag = e.bag /\ f.list = e.list /\ f.link = e.link
          /\ f.shown = e.shown /\ f.handlers = e.handlers /\ f.refreshes = e.refreshes
      BY <1>2, <2>1 DEF GoodPage, IsTab
    <2>a. PICK none : none = <<>>
      OBVIOUS
    <2>b. none \in Seq(List)
      BY <2>a
    <2>3. PICK g : g = [f EXCEPT !.inbox = none]
      OBVIOUS
    <2>4. /\ IsTab(g) /\ g.online = "no" /\ g.inbox = none
          /\ g.page = e.page /\ g.bag = e.bag /\ g.list = e.list /\ g.link = e.link
          /\ g.shown = e.shown /\ g.handlers = e.handlers /\ g.refreshes = e.refreshes
      BY <2>2, <2>b, <2>3 DEF IsTab
    <2>5. d = [g EXCEPT !.excuse = x]
      BY <1>4, <2>1, <2>a, <2>3
    <2> QED BY <1>6, <2>a, <2>4, <2>5 DEF IsTab
  <1>8. GoodPage(d, m)
    BY <1>2, <1>6, <1>7
    DEF GoodPage, PageOK, ConnectionOK, NoticesOK, RemembersOK, RefreshesOK, ListOK
  <1> QED BY <1>1, <1>2, <1>5, <1>8, PageMoves DEF Disconnect

\* ReadNotification: a page with a list of reports has the popup to show it.
LEMMA ReadStep ==
  ASSUME WebInductive, NEW t \in Tab, ReadNotification(t)
  PROVE  WebInductive'
  <1>1. PICK e, m : e = doc[t] /\ m = stored[t]
    OBVIOUS
  <1>2. GoodPage(e, m) /\ cookie \in LoginId
    BY <1>1, InductiveParts DEF WebParts
  <1>3. PICK rest : rest = Tail(e.inbox)
    OBVIOUS
  <1>4. PICK d : d = IF HasPopup(e.page)
                     THEN [e EXCEPT !.inbox = rest, !.shown = TRUE, !.handlers = @ + 1]
                     ELSE [e EXCEPT !.inbox = rest]
    OBVIOUS
  <1>5. doc' = [doc EXCEPT ![t] = d]
    <2>1. PICK read : read = [e EXCEPT !.inbox = rest]
      OBVIOUS
    <2>2. /\ read.page = e.page
          /\ [read EXCEPT !.shown = TRUE, !.handlers = @ + 1]
                = [e EXCEPT !.inbox = rest, !.shown = TRUE, !.handlers = @ + 1]
      BY <1>2, <2>1 DEF GoodPage, IsTab
    <2> QED BY <1>1, <1>3, <1>4, <2>1, <2>2 DEF ReadNotification, ShowPopup
  <1>6. /\ rest \in Seq(List) /\ e.inbox # <<>>
        /\ \A i \in DOMAIN rest : i + 1 \in DOMAIN e.inbox /\ rest[i] = e.inbox[i + 1]
    BY <1>1, <1>2, <1>3 DEF ReadNotification, GoodPage, IsTab
  <1>7. /\ IsTab(d) /\ d.inbox = rest /\ d.online = e.online /\ d.excuse = e.excuse
        /\ d.page = e.page /\ d.bag = e.bag /\ d.list = e.list /\ d.link = e.link
        /\ d.refreshes = e.refreshes
        /\ HasPopup(e.page) => d.shown /\ d.handlers = e.handlers + 1
        /\ ~HasPopup(e.page) => d.shown = e.shown /\ d.handlers = e.handlers
    <2>1. PICK read : read = [e EXCEPT !.inbox = rest]
      OBVIOUS
    <2>2. /\ IsTab(read) /\ read.inbox = rest /\ read.online = e.online
          /\ read.excuse = e.excuse /\ read.page = e.page /\ read.bag = e.bag
          /\ read.list = e.list /\ read.link = e.link /\ read.refreshes = e.refreshes
          /\ read.shown = e.shown /\ read.handlers = e.handlers
      BY <1>2, <1>6, <2>1 DEF GoodPage, IsTab
    <2>3. CASE ~HasPopup(e.page)
      BY <1>4, <2>1, <2>2, <2>3
    <2>4. CASE HasPopup(e.page)
      <3>1. PICK up : up = [read EXCEPT !.shown = TRUE]
        OBVIOUS
      <3>2. /\ IsTab(up) /\ up.inbox = rest /\ up.online = e.online
            /\ up.excuse = e.excuse /\ up.page = e.page /\ up.bag = e.bag
            /\ up.list = e.list /\ up.link = e.link /\ up.refreshes = e.refreshes
            /\ up.shown = TRUE /\ up.handlers = e.handlers
        BY <2>2, <3>1 DEF IsTab
      <3>3. d = [up EXCEPT !.handlers = @ + 1]
        BY <1>4, <2>1, <2>4, <3>1
      <3>4. /\ IsTab(d) /\ d.inbox = rest /\ d.online = e.online
            /\ d.excuse = e.excuse /\ d.page = e.page /\ d.bag = e.bag
            /\ d.list = e.list /\ d.link = e.link /\ d.refreshes = e.refreshes
            /\ d.shown = TRUE /\ d.handlers = e.handlers + 1
        BY <3>2, <3>3 DEF IsTab
      <3> QED BY <2>4, <3>4
    <2> QED BY <2>3, <2>4
  <1>8. NoticesOK(d)
    BY <1>2, <1>6, <1>7 DEF GoodPage, PageOK, NoticesOK
  <1>9. ListOK(d)
    <2>1. e.handlers \in Nat
      BY <1>2 DEF GoodPage, IsTab
    <2>2. d.shown => d.handlers > 0
      <3>1. e.shown => e.handlers > 0
        BY <1>2 DEF GoodPage, PageOK, ListOK
      <3>2. HasPopup(e.page) => d.handlers > 0
        BY <1>7, <2>1
      <3>3. ~HasPopup(e.page) => (d.shown => d.handlers > 0)
        BY <1>7, <3>1, Zenon
      <3> QED BY <3>2, <3>3
    <2>3. d.list # None => d.shown
      BY <1>2, <1>7 DEF GoodPage, IsTab, HasPopup
    <2> QED BY <1>2, <1>7, <2>2, <2>3 DEF GoodPage, PageOK, ListOK, IsComing
  <1>10. GoodPage(d, m)
    BY <1>2, <1>6, <1>7, <1>8, <1>9
    DEF GoodPage, PageOK, ConnectionOK, RemembersOK, RefreshesOK
  <1> QED BY <1>1, <1>2, <1>5, <1>10, PageMoves DEF ReadNotification

-----------------------------------------------------------------------------
(* Refreshes *)

\* A page with other refreshes under way.
LEMMA OtherRefreshes ==
  ASSUME NEW e, IsTab(e), NEW b, IsABag(b), BagToSet(b) \subseteq Refresh,
         NEW d, d = [e EXCEPT !.refreshes = b]
  PROVE  /\ IsTab(d) /\ d.refreshes = b
         /\ d.page = e.page /\ d.bag = e.bag /\ d.list = e.list /\ d.link = e.link
         /\ d.online = e.online /\ d.inbox = e.inbox
         /\ d.shown = e.shown /\ d.handlers = e.handlers /\ d.excuse = e.excuse
  BY DEF IsTab

\* Neither the connection nor what is remembered is about the refreshes.
LEMMA RefreshesApart ==
  ASSUME NEW e, NEW d, NEW m, GoodPage(e, m), IsTab(d), RefreshesOK(d), ListOK(d),
         d.page = e.page, d.bag = e.bag, d.link = e.link,
         d.online = e.online, d.inbox = e.inbox, e.excuse \subseteq d.excuse
  PROVE  GoodPage(d, m)
  BY DEF GoodPage, PageOK, ConnectionOK, NoticesOK, RemembersOK

\* HidePopup: the list is asked for once more.
LEMMA HideStep ==
  ASSUME WebInductive, NEW t \in Tab, HidePopup(t)
  PROVE  WebInductive'
  <1>1. PICK e, m, r : e = doc[t] /\ m = stored[t] /\ r = Asked(cookie)
    OBVIOUS
  <1>2. GoodPage(e, m) /\ IsTab(e) /\ cookie \in LoginId
    BY <1>1, InductiveParts DEF WebParts, GoodPage
  <1>3. e.handlers \in Nat /\ e.handlers > 0 /\ IsABag(e.refreshes)
    <2>1. e.shown
      BY <1>1 DEF HidePopup
    <2>2. e.handlers > 0
      BY <1>2, <2>1 DEF GoodPage, PageOK, ListOK
    <2> QED BY <1>2, <2>2 DEF IsTab
  <1>4. r \in Refresh /\ r.answered = FALSE /\ r.list = None
    BY <1>1, <1>2 DEF Asked, Refresh
  <1>5. PICK c, b : c = Copies(r, e.handlers) /\ b = e.refreshes (+) c
    OBVIOUS
  <1>6. IsABag(b) /\ BagToSet(b) = BagToSet(e.refreshes) \cup {r}
    <2>1. IsABag(c) /\ BagToSet(c) = {r}
      BY <1>3, <1>5, BagOfCopies
    <2> QED BY <1>3, <1>5, <2>1, BagUnited
  <1>7. BagToSet(b) \subseteq Refresh
    BY <1>2, <1>4, <1>6 DEF IsTab
  <1>8. PICK f : f = [e EXCEPT !.refreshes = b]
    OBVIOUS
  <1>9. /\ IsTab(f) /\ f.refreshes = b
        /\ f.page = e.page /\ f.bag = e.bag /\ f.list = e.list /\ f.link = e.link
        /\ f.online = e.online /\ f.inbox = e.inbox /\ f.excuse = e.excuse
    BY <1>2, <1>6, <1>7, <1>8, OtherRefreshes
  <1>10. PICK d : d = [f EXCEPT !.shown = FALSE]
    OBVIOUS
  <1>11. /\ IsTab(d) /\ d.refreshes = b /\ d.shown = FALSE
         /\ d.page = e.page /\ d.bag = e.bag /\ d.list = e.list /\ d.link = e.link
         /\ d.online = e.online /\ d.inbox = e.inbox /\ d.excuse = e.excuse
    BY <1>9, <1>10 DEF IsTab
  <1>12. doc' = [doc EXCEPT ![t] = d]
    BY <1>1, <1>5, <1>8, <1>10 DEF HidePopup
  <1>13. RefreshesOK(d)
    BY <1>2, <1>4, <1>6, <1>11 DEF GoodPage, PageOK, RefreshesOK, IsOfThePast
  <1>14. ListOK(d)
    BY <1>2, <1>4, <1>6, <1>11 DEF GoodPage, PageOK, ListOK, IsComing, Mends
  <1>15. GoodPage(d, m)
    BY <1>2, <1>11, <1>13, <1>14, RefreshesApart
  <1> QED BY <1>1, <1>2, <1>12, <1>15, PageMoves DEF HidePopup

\* ServeRefresh: the answer brings the list as it is, or another's, or none.
LEMMA ServeRefreshStep ==
  ASSUME WebInductive, NEW t \in Tab, ServeRefresh(t)
  PROVE  WebInductive'
  <1>1. PICK e, m : e = doc[t] /\ m = stored[t]
    OBVIOUS
  <1>2. GoodPage(e, m) /\ IsTab(e) /\ cookie \in LoginId
    BY <1>1, InductiveParts DEF WebParts, GoodPage
  <1>3. PICK r \in BagToSet(e.refreshes) :
            /\ ~r.answered
            /\ LET a == ReportsPage(r.setCookie)
                   answer == [answered |-> TRUE, list |-> a.list, setCookie |-> a.setCookie]
               IN  doc' = [doc EXCEPT
                    ![t].refreshes = (@ (-) Copies(r, 1)) (+) Copies(answer, 1)]
    BY <1>1 DEF ServeRefresh
  <1>4. PICK a, s : /\ a = ReportsPage(r.setCookie)
                    /\ s = [answered |-> TRUE, list |-> a.list, setCookie |-> a.setCookie]
    OBVIOUS
  <1>5. PICK rest, c, b : /\ rest = e.refreshes (-) Copies(r, 1)
                          /\ c = Copies(s, 1) /\ b = rest (+) c
    OBVIOUS
  <1>6. PICK d : d = [e EXCEPT !.refreshes = b]
    OBVIOUS
  <1>7. doc' = [doc EXCEPT ![t] = d]
    BY <1>1, <1>3, <1>4, <1>5, <1>6
  <1>8. r.setCookie \in LoginId \cup {None}
    BY <1>2, <1>3 DEF IsTab, Refresh
  <1>9. /\ s \in Refresh /\ IsOfThePast(s.list)
        /\ s.list # None => IsUpToDate(s.list) /\ s.list \in List
    <2>1. CASE session = NoLogin
      <3>1. a.list = None /\ a.setCookie = r.setCookie
        BY <1>4, <2>1 DEF ReportsPage, Answered
      <3> QED BY <1>4, <1>8, <3>1 DEF Refresh, IsOfThePast
    <2>2. CASE session # NoLogin
      <3>1. PICK list, k : list = CurrentList /\ k = r.setCookie
        OBVIOUS
      <3>2. a = Answered("reports", NoLogin, list, k)
        BY <1>4, <2>2, <3>1 DEF ReportsPage
      <3>3. a.list = list /\ a.setCookie = k
        BY <3>2 DEF Answered
      <3>4. list \in List /\ IsOfThePast(list) /\ IsUpToDate(list)
        BY <2>2, <3>1, ListTyped
      <3>5. k \in LoginId \cup {None}
        BY <1>8, <3>1
      <3> QED BY <1>4, <3>3, <3>4, <3>5 DEF Refresh
    <2> QED BY <2>1, <2>2
  <1>10. IsABag(b) /\ BagToSet(b) \subseteq BagToSet(e.refreshes) \cup {s}
         /\ s \in BagToSet(b)
         /\ \A q \in BagToSet(e.refreshes) : q # r => q \in BagToSet(b)
    <2>1. /\ IsABag(rest) /\ BagToSet(rest) \subseteq BagToSet(e.refreshes)
          /\ \A q \in BagToSet(e.refreshes) : q # r => q \in BagToSet(rest)
      BY <1>2, <1>5, BagWithout DEF IsTab
    <2>2. IsABag(c) /\ BagToSet(c) = {s}
      BY <1>5, BagOfCopies
    <2> QED BY <1>5, <2>1, <2>2, BagUnited
  <1>11. /\ IsTab(d) /\ d.refreshes = b
         /\ d.page = e.page /\ d.bag = e.bag /\ d.list = e.list /\ d.link = e.link
         /\ d.online = e.online /\ d.inbox = e.inbox
         /\ d.shown = e.shown /\ d.handlers = e.handlers /\ d.excuse = e.excuse
    <2>1. BagToSet(b) \subseteq Refresh
      BY <1>2, <1>9, <1>10 DEF IsTab
    <2> QED BY <1>2, <1>6, <1>10, <2>1, OtherRefreshes
  <1>12. RefreshesOK(d)
    <2>1. IsOfThePast(s.list) /\ s.answered = TRUE
      BY <1>4, <1>9
    <2> QED BY <1>2, <1>10, <1>11, <2>1 DEF GoodPage, PageOK, RefreshesOK
  <1>13. ListOK(d)
    <2>1. Mends(d.list, s)
      BY <1>9 DEF Mends
    <2>2. IsComing(d)
      BY <1>10, <1>11, <2>1 DEF IsComing
    <2> QED BY <1>2, <1>11, <2>2 DEF GoodPage, PageOK, ListOK
  <1>14. GoodPage(d, m)
    BY <1>2, <1>11, <1>12, <1>13, RefreshesApart
  <1> QED BY <1>1, <1>2, <1>7, <1>14, PageMoves DEF ServeRefresh

\* RefreshArrives: an answer that is not the current list either comes with an
\* excuse or finds another refresh under way that will bring it.
LEMMA RefreshArrivesStep ==
  ASSUME WebInductive, NEW t \in Tab, RefreshArrives(t)
  PROVE  WebInductive'
  <1>1. PICK e, m : e = doc[t] /\ m = stored[t]
    OBVIOUS
  <1>2. /\ GoodPage(e, m) /\ IsTab(e) /\ cookie \in LoginId
        /\ told \in [Employee -> Nat]
    BY <1>1, InductiveParts DEF WebParts, GoodPage
  <1>3. PICK r \in BagToSet(e.refreshes) :
            /\ r.answered
            /\ doc' = [doc EXCEPT
                ![t].refreshes = @ (-) Copies(r, 1),
                ![t].list = ListAfter(@, r.list),
                ![t].excuse = IF e.list = None THEN @
                              ELSE @ \cup ExcuseOf(e.list, r.list)]
            /\ cookie' = CookieAfter(r.setCookie)
    BY <1>1 DEF RefreshArrives
  <1>4. PICK b, list, x : /\ b = e.refreshes (-) Copies(r, 1)
                          /\ list = ListAfter(e.list, r.list)
                          /\ x = IF e.list = None THEN e.excuse
                                 ELSE e.excuse \cup ExcuseOf(e.list, r.list)
    OBVIOUS
  <1>5. PICK f, g, d : /\ f = [e EXCEPT !.refreshes = b]
                       /\ g = [f EXCEPT !.excuse = x]
                       /\ d = [g EXCEPT !.list = list]
    OBVIOUS
  <1>6. doc' = [doc EXCEPT ![t] = d]
    <2>1. d = [e EXCEPT !.refreshes = b, !.list = list, !.excuse = x]
      BY <1>2, <1>5 DEF IsTab
    <2> QED BY <1>1, <1>3, <1>4, <2>1
  <1>7. /\ r \in Refresh /\ r.answered = TRUE /\ r.list \in List \cup {None}
        /\ r.setCookie \in LoginId \cup {None} /\ e.list \in List \cup {None}
    BY <1>2, <1>3 DEF IsTab, Refresh
  <1>8. cookie' \in LoginId
    BY <1>2, <1>3, <1>7 DEF CookieAfter
  <1>9. /\ IsABag(b) /\ BagToSet(b) \subseteq BagToSet(e.refreshes)
        /\ \A q \in BagToSet(e.refreshes) : q # r => q \in BagToSet(b)
    BY <1>2, <1>4, BagWithout DEF IsTab
  <1>10. /\ list \in List \cup {None} /\ (list = None <=> e.list = None)
         /\ list \in {e.list, r.list}
    BY <1>4, <1>7, NoneIsNoList DEF ListAfter
  <1>11. x \in SUBSET Excuse /\ e.excuse \subseteq x
    BY <1>2, <1>4 DEF IsTab, ExcuseOf, Excuse
  <1>12. /\ IsTab(d) /\ d.refreshes = b /\ d.list = list /\ d.excuse = x
         /\ d.page = e.page /\ d.bag = e.bag /\ d.link = e.link
         /\ d.online = e.online /\ d.inbox = e.inbox
         /\ d.shown = e.shown /\ d.handlers = e.handlers
    <2>1. BagToSet(b) \subseteq Refresh
      BY <1>2, <1>9 DEF IsTab
    <2>2. /\ IsTab(f) /\ f.refreshes = b
          /\ f.page = e.page /\ f.bag = e.bag /\ f.list = e.list /\ f.link = e.link
          /\ f.online = e.online /\ f.inbox = e.inbox
          /\ f.shown = e.shown /\ f.handlers = e.handlers
      BY <1>2, <1>5, <1>9, <2>1, OtherRefreshes
    <2>3. /\ IsTab(g) /\ g.refreshes = b /\ g.excuse = x
          /\ g.page = e.page /\ g.bag = e.bag /\ g.list = e.list /\ g.link = e.link
          /\ g.online = e.online /\ g.inbox = e.inbox
          /\ g.shown = e.shown /\ g.handlers = e.handlers
      BY <1>5, <1>11, <2>2 DEF IsTab
    <2> QED BY <1>5, <1>10, <2>3 DEF IsTab
  <1>13. RefreshesOK(d)
    BY <1>2, <1>9, <1>12 DEF GoodPage, PageOK, RefreshesOK
  <1>14. IsOfThePast(e.list) /\ IsOfThePast(r.list)
    BY <1>2, <1>3 DEF GoodPage, PageOK, RefreshesOK, ListOK
  <1>15. ASSUME list # None, x = {}, ~IsUpToDate(list)
         PROVE  IsComing(d)
    <2>1. /\ e.list # None /\ r.list # None /\ r.list.employee = e.list.employee
          /\ ~(r.list.version < e.list.version) /\ list = r.list /\ e.excuse = {}
      BY <1>4, <1>10, <1>15 DEF ExcuseOf, ListAfter
    <2>2. ~Mends(e.list, r)
      BY <1>7, <1>15, <2>1 DEF Mends
    <2>3. ~IsUpToDate(e.list)
      <3>1. PICK k, n, v \in Nat : /\ k = r.list.version /\ n = e.list.version
                                   /\ v = told[e.list.employee]
        BY <1>2, <1>7, <2>1 DEF List
      <3>2. ~(k >= v) /\ ~(k < n)
        BY <1>15, <2>1, <3>1 DEF IsUpToDate
      <3>3. ~(n >= v)
        BY <3>2
      <3> QED BY <3>1, <3>3 DEF IsUpToDate
    <2>4. IsComing(e)
      BY <1>2, <2>1, <2>3 DEF GoodPage, PageOK, ListOK
    <2>5. ASSUME NEW q \in BagToSet(e.refreshes), Mends(e.list, q)
          PROVE  q \in BagToSet(d.refreshes) /\ Mends(d.list, q)
      BY <1>9, <1>12, <2>1, <2>2, <2>5 DEF Mends
    <2> QED BY <1>12, <2>4, <2>5 DEF IsComing
  <1>16. ListOK(d)
    BY <1>2, <1>10, <1>12, <1>14, <1>15 DEF GoodPage, PageOK, ListOK
  <1>17. GoodPage(d, m)
    BY <1>2, <1>11, <1>12, <1>13, <1>16, RefreshesApart
  <1> QED BY <1>1, <1>6, <1>8, <1>17, PageMoves DEF RefreshArrives

\* RefreshFails, which the page knows.
LEMMA RefreshFailsStep ==
  ASSUME WebInductive, NEW t \in Tab, RefreshFails(t)
  PROVE  WebInductive'
  <1>1. PICK e, m : e = doc[t] /\ m = stored[t]
    OBVIOUS
  <1>2. GoodPage(e, m) /\ IsTab(e) /\ cookie \in LoginId
    BY <1>1, InductiveParts DEF WebParts, GoodPage
  <1>3. PICK r \in BagToSet(e.refreshes) :
            doc' = [doc EXCEPT
                ![t].refreshes = @ (-) Copies(r, 1),
                ![t].excuse = @ \cup {"failed"}]
    BY <1>1 DEF RefreshFails
  <1>4. PICK b, x : b = e.refreshes (-) Copies(r, 1) /\ x = e.excuse \cup {"failed"}
    OBVIOUS
  <1>5. PICK f, d : f = [e EXCEPT !.refreshes = b] /\ d = [f EXCEPT !.excuse = x]
    OBVIOUS
  <1>6. x \in SUBSET Excuse /\ x # {} /\ e.excuse \subseteq x
    BY <1>2, <1>4 DEF IsTab, Excuse
  <1>7. IsABag(b) /\ BagToSet(b) \subseteq BagToSet(e.refreshes)
    BY <1>2, <1>4, BagWithout DEF IsTab
  <1>8. /\ IsTab(f) /\ f.refreshes = b
        /\ f.page = e.page /\ f.bag = e.bag /\ f.list = e.list /\ f.link = e.link
        /\ f.online = e.online /\ f.inbox = e.inbox
        /\ f.shown = e.shown /\ f.handlers = e.handlers /\ f.excuse = e.excuse
    <2>1. BagToSet(b) \subseteq Refresh
      BY <1>2, <1>7 DEF IsTab
    <2> QED BY <1>2, <1>5, <1>7, <2>1, OtherRefreshes
  <1>9. /\ IsTab(d) /\ d.refreshes = b /\ d.excuse = x
        /\ d.page = e.page /\ d.bag = e.bag /\ d.list = e.list /\ d.link = e.link
        /\ d.online = e.online /\ d.inbox = e.inbox
        /\ d.shown = e.shown /\ d.handlers = e.handlers
    BY <1>5, <1>6, <1>8 DEF IsTab
  <1>10. doc' = [doc EXCEPT ![t] = d]
    BY <1>1, <1>3, <1>4, <1>5, <1>8
  <1>11. RefreshesOK(d) /\ ListOK(d)
    BY <1>2, <1>6, <1>7, <1>9 DEF GoodPage, PageOK, RefreshesOK, ListOK
  <1>12. GoodPage(d, m)
    BY <1>2, <1>6, <1>9, <1>11, RefreshesApart
  <1> QED BY <1>1, <1>2, <1>10, <1>12, PageMoves DEF RefreshFails

-----------------------------------------------------------------------------
(* Changes of reports *)

\* A change of the reports of e, of which nobody has been told.
LEMMA ListsGrow ==
  ASSUME reports \in [Employee -> Nat], NEW e \in Employee, Changed(e)
  PROVE  /\ reports' \in [Employee -> Nat] /\ reports'[e] = reports[e] + 1
         /\ \A x \in Employee : reports[x] <= reports'[x]
  <1>1. reports' = [reports EXCEPT ![e] = @ + 1]
    BY DEF Changed
  <1> QED BY <1>1

\* What is of the past stays so.
LEMMA PastStays ==
  ASSUME reports \in [Employee -> Nat], NEW e \in Employee, Changed(e),
         NEW list \in List \cup {None}, IsOfThePast(list)
  PROVE  IsOfThePast(list)'
  <1>1. CASE list = None
    BY <1>1 DEF IsOfThePast
  <1>2. CASE list \in List
    <2>1. list.employee \in Employee /\ list.version \in Nat
      BY <1>2 DEF List
    <2>2. /\ reports[list.employee] \in Nat /\ reports'[list.employee] \in Nat
          /\ reports[list.employee] <= reports'[list.employee]
      BY <2>1, ListsGrow
    <2> QED BY <2>1, <2>2 DEF IsOfThePast
  <1> QED BY <1>1, <1>2

\* The next page of a tab, and its page, when reports change.
LEMMA TabUntold ==
  ASSUME reports \in [Employee -> Nat], NEW e \in Employee, Changed(e),
         UNCHANGED <<logins, expired, told>>,
         NEW p, GoodTrip(p), NEW d, NEW m, GoodPage(d, m)
  PROVE  GoodTrip(p)' /\ GoodPage(d, m)'
  <1>1. LoginId' = LoginId /\ Refresh' = Refresh /\ told' = told
    BY DEF LoginId, Refresh
  <1>2. GoodTrip(p)'
    <2>1. p.stage = "answered" => p.list \in List \cup {None}
      BY DEF GoodTrip, Trip, NoTrip
    <2>2. p.stage = "answered" => IsOfThePast(p.list)'
      BY <2>1, PastStays DEF GoodTrip, TripOK
    <2>3. p \in Trip'
      BY <1>1 DEF GoodTrip, Trip
    <2> QED BY <1>1, <2>2, <2>3 DEF GoodTrip, TripOK, IsUpToDate
  <1>3. IsTab(d)'
    BY <1>1 DEF GoodPage, IsTab
  <1>4. ConnectionOK(d)' /\ RemembersOK(d, m)'
    BY DEF GoodPage, PageOK, ConnectionOK, RemembersOK
  <1>5. NoticesOK(d)'
    <2>1. d.inbox \in Seq(List)
      BY DEF GoodPage, IsTab
    <2> SUFFICES ASSUME NEW i \in DOMAIN d.inbox
                 PROVE  /\ d.inbox[i].employee = logins[d.link]
                        /\ 1 <= d.inbox[i].version
                        /\ d.inbox[i].version <= reports'[d.inbox[i].employee]
      BY DEF NoticesOK
    <2>2. PICK n : n = d.inbox[i]
      OBVIOUS
    <2>3. n.employee \in Employee /\ n.version \in Nat
      <3>1. n \in List
        BY <2>1, <2>2
      <3> QED BY <3>1 DEF List
    <2>4. /\ n.employee = logins[d.link]
          /\ 1 <= n.version /\ n.version <= reports[n.employee]
      BY <2>2 DEF GoodPage, PageOK, NoticesOK
    <2>5. n.version <= reports'[n.employee]
      <3>1. /\ reports[n.employee] \in Nat /\ reports'[n.employee] \in Nat
            /\ reports[n.employee] <= reports'[n.employee]
        BY <2>3, ListsGrow
      <3> QED BY <2>3, <2>4, <3>1
    <2> QED BY <2>2, <2>4, <2>5
  <1>6. RefreshesOK(d)'
    <2>1. \A r \in BagToSet(d.refreshes) : r.list \in List \cup {None}
      BY DEF GoodPage, IsTab, Refresh
    <2> QED BY <2>1, PastStays DEF GoodPage, PageOK, RefreshesOK
  <1>7. ListOK(d)'
    <2>1. d.list \in List \cup {None}
      BY DEF GoodPage, IsTab
    <2>2. IsOfThePast(d.list)'
      BY <2>1, PastStays DEF GoodPage, PageOK, ListOK
    <2> QED BY <1>1, <2>2 DEF GoodPage, PageOK, ListOK, IsUpToDate, IsComing, Mends
  <1> QED BY <1>1, <1>2, <1>3, <1>4, <1>5, <1>6, <1>7 DEF GoodPage, PageOK

\* A driver changes a report and owes its notice, or ReportArchiver changes one.
LEMMA ChangeStep ==
  ASSUME WebInductive, NEW e \in Employee, ChangeReports(e) \/ ArchiveExpired(e)
  PROVE  WebInductive'
  <1>1. /\ reports \in [Employee -> Nat] /\ owed \subseteq List
        /\ told \in [Employee -> Nat] /\ ChangesToldOK
        /\ \A t \in Tab : GoodTrip(trip[t]) /\ GoodPage(doc[t], stored[t])
    BY InductiveParts DEF WebParts
  <1>2. /\ Changed(e)
        /\ UNCHANGED <<logins, expired, session, cookie, told, trip, stored, doc>>
        /\ owed' \subseteq owed \cup {[employee |-> e, version |-> reports'[e]]}
    BY DEF ChangeReports, ArchiveExpired, serverVars
  <1>3. /\ reports' \in [Employee -> Nat] /\ reports'[e] = reports[e] + 1
        /\ \A x \in Employee : reports[x] <= reports'[x]
    BY <1>1, <1>2, ListsGrow
  <1>4. owed' \subseteq List
    <2>1. [employee |-> e, version |-> reports'[e]] \in List
      BY <1>3 DEF List
    <2> QED BY <1>1, <1>2, <2>1
  <1>5. ChangesToldOK'
    <2>1. \A x \in Employee : told'[x] <= reports'[x]
      <3> SUFFICES ASSUME NEW x \in Employee PROVE told[x] <= reports'[x]
        BY <1>2
      <3>1. told[x] <= reports[x] /\ reports[x] <= reports'[x]
        BY <1>1, <1>3 DEF ChangesToldOK
      <3>2. told[x] \in Nat /\ reports[x] \in Nat /\ reports'[x] \in Nat
        BY <1>1, <1>3
      <3> QED BY <3>1, <3>2
    <2>2. ASSUME NEW n \in owed'
          PROVE  1 <= n.version /\ n.version <= reports'[n.employee]
      <3>1. n.employee \in Employee /\ n.version \in Nat
        BY <1>4, <2>2 DEF List
      <3>2. CASE n \in owed
        <4>1. 1 <= n.version /\ n.version <= reports[n.employee]
          BY <1>1, <3>2 DEF ChangesToldOK
        <4>2. /\ reports[n.employee] \in Nat /\ reports'[n.employee] \in Nat
              /\ reports[n.employee] <= reports'[n.employee]
          BY <1>1, <1>3, <3>1
        <4> QED BY <3>1, <4>1, <4>2
      <3>3. CASE n = [employee |-> e, version |-> reports'[e]]
        <4>1. n.employee = e /\ n.version = reports'[e] /\ reports[e] \in Nat
          BY <1>1, <3>3
        <4> QED BY <1>3, <4>1
      <3> QED BY <1>2, <2>2, <3>2, <3>3
    <2> QED BY <2>1, <2>2 DEF ChangesToldOK
  <1>6. ASSUME NEW t \in Tab
        PROVE  GoodTrip(trip[t])' /\ GoodPage(doc[t], stored[t])'
    <2>1. PICK p, d, m : p = trip[t] /\ d = doc[t] /\ m = stored[t]
      OBVIOUS
    <2>2. GoodTrip(p)' /\ GoodPage(d, m)'
      BY <1>1, <1>2, <2>1, TabUntold
    <2>3. trip'[t] = p /\ doc'[t] = d /\ stored'[t] = m
      BY <1>2, <2>1
    <2> QED BY <2>2, <2>3
      DEF GoodTrip, TripOK, GoodPage, IsTab, PageOK, ConnectionOK, NoticesOK, RemembersOK,
          RefreshesOK, ListOK, IsComing
  <1>7. WebParts'
    BY <1>2, <1>3, <1>4, <1>5, <1>6, InductiveParts DEF WebParts, LoginId, OnTabs
  <1>8. WebParts' => WebInductive'
    BY InductiveParts, PTL
  <1> QED BY <1>7, <1>8

-----------------------------------------------------------------------------
(* Notices *)

\* The owner of notice n is told; no report changes.
Tells(n) ==
    /\ n \in List /\ 1 <= n.version /\ n.version <= reports[n.employee]
    /\ reports \in [Employee -> Nat] /\ told \in [Employee -> Nat]
    /\ told' = [told EXCEPT ![n.employee] = Later(@, n.version)]
    /\ UNCHANGED <<logins, expired, reports>>

\* What employees were told of grows, up to the notice.
LEMMA ToldGrows ==
  ASSUME NEW n, Tells(n)
  PROVE  /\ told' \in [Employee -> Nat]
         /\ \A x \in Employee : told[x] <= told'[x]
         /\ told'[n.employee] = told[n.employee] \/ told'[n.employee] = n.version
         /\ \A x \in Employee : x # n.employee => told'[x] = told[x]
  <1>1. n.employee \in Employee /\ n.version \in Nat
    BY DEF Tells, List
  <1>2. told[n.employee] \in Nat
    BY <1>1 DEF Tells
  <1>3. /\ Later(told[n.employee], n.version) \in {told[n.employee], n.version}
        /\ told[n.employee] <= Later(told[n.employee], n.version)
    BY <1>1, <1>2 DEF Later
  <1>4. PICK v : v = Later(told[n.employee], n.version)
    OBVIOUS
  <1>5. told' = [told EXCEPT ![n.employee] = v] /\ v \in Nat
    BY <1>1, <1>2, <1>3, <1>4 DEF Tells
  <1> QED BY <1>1, <1>3, <1>4, <1>5 DEF Tells

\* A list that is not behind the notice is as far behind as before.
LEMMA NotBehind ==
  ASSUME NEW n, Tells(n), NEW list \in List, ~IsBehind(list, n)
  PROVE  IsUpToDate(list) <=> IsUpToDate(list)'
  <1>1. /\ list.employee \in Employee /\ list.version \in Nat /\ list # None
        /\ n.version \in Nat
    BY NoneIsNoList DEF List, Tells
  <1>2. told[list.employee] \in Nat /\ told'[list.employee] \in Nat
        /\ told[list.employee] <= told'[list.employee]
    BY <1>1, ToldGrows DEF Tells
  <1>3. CASE list.employee = n.employee
    <2>1. list.version >= n.version
      BY <1>1, <1>3 DEF IsBehind, IsListOf
    <2>2. told'[list.employee] = told[list.employee] \/ told'[list.employee] = n.version
      BY <1>3, ToldGrows
    <2> QED BY <1>1, <1>2, <2>1, <2>2 DEF IsUpToDate
  <1>4. CASE list.employee # n.employee
    BY <1>1, <1>4, ToldGrows DEF IsUpToDate
  <1> QED BY <1>3, <1>4

\* The next page of a tab: an answer with a list that is behind is marked.
LEMMA TripNoticed ==
  ASSUME NEW n, Tells(n), NEW p, GoodTrip(p), NEW q,
         q = IF p.stage = "answered" /\ IsBehind(p.list, n) THEN [p EXCEPT !.missed = TRUE] ELSE p
  PROVE  GoodTrip(q)'
  <1>1. LoginId' = LoginId /\ reports' = reports
    BY DEF LoginId, Tells
  <1>2. p.stage = "answered" => p.list \in List \cup {None}
    BY DEF GoodTrip, Trip, NoTrip
  <1>3. CASE p.stage = "answered" /\ IsBehind(p.list, n)
    <2>1. /\ p \in [stage : {"answered"}, page : Page, bag : LoginId, list : List \cup {None},
                    setCookie : LoginId \cup {None}, missed : BOOLEAN]
      BY <1>3 DEF GoodTrip, Trip, NoTrip
    <2>2. /\ q \in Trip /\ q.stage = "answered" /\ q.page = p.page
          /\ q.list = p.list /\ q.missed = TRUE
      BY <1>3, <2>1 DEF Trip
    <2>3. IsOfThePast(p.list)'
      BY <1>1, <1>3 DEF GoodTrip, TripOK, IsOfThePast
    <2>4. q \in Trip'
      BY <1>1, <2>2 DEF Trip
    <2>5. p.page = "reports" <=> p.list # None
      BY <1>3 DEF GoodTrip, TripOK
    <2> QED BY <2>2, <2>3, <2>4, <2>5 DEF GoodTrip, TripOK, IsOfThePast
  <1>4. CASE ~(p.stage = "answered" /\ IsBehind(p.list, n))
    <2>1. q = p /\ p \in Trip'
      BY <1>1, <1>4 DEF GoodTrip, Trip
    <2>2. p.stage = "answered" => IsOfThePast(p.list)'
      BY <1>1 DEF GoodTrip, TripOK, IsOfThePast
    <2>3. p.stage = "answered" /\ p.list # None /\ ~p.missed => IsUpToDate(p.list)'
      BY <1>2, <1>4, NotBehind DEF GoodTrip, TripOK
    <2>4. p.stage = "answered" => (p.page = "reports" <=> p.list # None)
      BY DEF GoodTrip, TripOK
    <2> QED BY <2>1, <2>2, <2>3, <2>4 DEF GoodTrip, TripOK, IsOfThePast, IsUpToDate
  <1> QED BY <1>3, <1>4

\* What may become of page c when notice n is sent: it is told, or knows that it was
\* not, or is not behind.
Heeds(c, d, n) ==
    /\ IsTab(d)
    /\ d.page = c.page /\ d.bag = c.bag /\ d.list = c.list /\ d.link = c.link
    /\ d.online = c.online /\ d.shown = c.shown /\ d.handlers = c.handlers
    /\ d.refreshes = c.refreshes /\ c.excuse \subseteq d.excuse
    /\ d.inbox # <<>> => d.online = "yes"
    /\ d.inbox # <<>> \/ d.excuse # {} \/ (~IsBehind(c.list, n) /\ d.inbox = c.inbox)

\* What brings a page that is not behind the notice up to date still does: a list
\* with more than this page was told of is not behind either.
LEMMA MendsStill ==
  ASSUME NEW n, Tells(n), NEW list \in List, ~IsBehind(list, n), ~IsUpToDate(list),
         NEW r, r.list \in List \cup {None}, Mends(list, r)
  PROVE  Mends(list, r)'
  <1> SUFFICES ASSUME r.list \in List, r.list # None, r.list.employee = list.employee,
                      IsUpToDate(r.list)
               PROVE  IsUpToDate(r.list)'
    BY DEF Mends
  <1>1. PICK k, v, w : k = r.list /\ v = list.version /\ w = k.version
    OBVIOUS
  <1>2. /\ k \in List /\ v \in Nat /\ w \in Nat /\ n.version \in Nat
        /\ list.employee \in Employee /\ told[list.employee] \in Nat
        /\ list # None
    BY <1>1, NoneIsNoList DEF List, Tells
  <1>3. ~(v >= told[list.employee]) /\ w >= told[list.employee]
    BY <1>1 DEF IsUpToDate
  <1>4. list.employee = n.employee => v >= n.version
    BY <1>1, <1>2 DEF IsBehind, IsListOf
  <1>5. ~IsBehind(k, n)
    BY <1>1, <1>2, <1>3, <1>4 DEF IsBehind, IsListOf
  <1>6. IsUpToDate(k)'
    BY <1>1, <1>2, <1>5, NotBehind
  <1> QED BY <1>1, <1>6 DEF IsUpToDate

\* Such a page is in order.
LEMMA PageNoticed ==
  ASSUME NEW n, Tells(n), NEW c, NEW m, GoodPage(c, m),
         NEW d, Heeds(c, d, n), NoticesOK(d)'
  PROVE  GoodPage(d, m)'
  <1>0. /\ IsTab(d)
        /\ d.page = c.page /\ d.bag = c.bag /\ d.list = c.list /\ d.link = c.link
        /\ d.online = c.online /\ d.shown = c.shown /\ d.handlers = c.handlers
        /\ d.refreshes = c.refreshes /\ c.excuse \subseteq d.excuse
        /\ d.inbox # <<>> => d.online = "yes"
        /\ d.inbox # <<>> \/ d.excuse # {} \/ (~IsBehind(c.list, n) /\ d.inbox = c.inbox)
    BY Zenon DEF Heeds
  <1>1. LoginId' = LoginId /\ Refresh' = Refresh /\ reports' = reports /\ expired' = expired
    BY DEF LoginId, Refresh, Tells
  <1>2. IsTab(d)'
    BY <1>0, <1>1 DEF IsTab
  <1>3. ConnectionOK(d)' /\ RemembersOK(d, m)'
    BY <1>0, <1>1 DEF GoodPage, PageOK, ConnectionOK, RemembersOK
  <1>4. \A r \in BagToSet(d.refreshes) : r.list \in List \cup {None}
    BY <1>0 DEF IsTab, Refresh
  <1>5. RefreshesOK(d)'
    BY <1>0, <1>1 DEF GoodPage, PageOK, RefreshesOK, IsOfThePast
  <1>6. c.list \in List \cup {None} /\ IsOfThePast(d.list)'
    <2>1. c.list \in List \cup {None}
      BY DEF GoodPage, IsTab
    <2> QED BY <1>0, <1>1, <2>1 DEF GoodPage, PageOK, ListOK, IsOfThePast
  <1>7. ASSUME d.list # None, d.excuse = {}, ~IsUpToDate(d.list)', d.inbox = <<>>
        PROVE  IsComing(d)'
    <2>1. ~IsBehind(c.list, n) /\ c.inbox = <<>> /\ c.excuse = {} /\ c.list \in List
      BY <1>0, <1>6, <1>7
    <2>a. ~IsUpToDate(c.list)'
      BY <1>0, <1>7 DEF IsUpToDate
    <2>2. ~IsUpToDate(c.list)
      BY <2>1, <2>a, NotBehind
    <2>3. c.shown \/ \E r \in BagToSet(c.refreshes) : Mends(c.list, r)
      BY <1>0, <1>7, <2>1, <2>2 DEF GoodPage, PageOK, ListOK, IsComing
    <2>4. ASSUME NEW r \in BagToSet(c.refreshes), Mends(c.list, r)
          PROVE  Mends(d.list, r)'
      <3>1. PICK list : list = c.list
        OBVIOUS
      <3>2. Mends(list, r)'
        BY <1>0, <1>4, <2>1, <2>2, <2>4, <3>1, MendsStill
      <3> QED BY <1>0, <3>1, <3>2 DEF Mends
    <2> QED BY <1>0, <2>3, <2>4 DEF IsComing
  <1>8. ListOK(d)'
    BY <1>0, <1>6, <1>7 DEF GoodPage, PageOK, ListOK, IsComing
  <1> QED BY <1>1, <1>2, <1>3, <1>5, <1>8 DEF GoodPage, PageOK

\* A notice joins those a connected page of its owner has to handle.
LEMMA PageReached ==
  ASSUME NEW n, Tells(n), NEW c, NEW m, GoodPage(c, m),
         c.online = "yes", logins[c.link] = n.employee,
         NEW d, d = [c EXCEPT !.inbox = Append(@, n)]
  PROVE  GoodPage(d, m)'
  <1>1. n \in List /\ 1 <= n.version /\ n.version <= reports[n.employee]
    BY DEF Tells
  <1>2. PICK inbox : inbox = Append(c.inbox, n)
    OBVIOUS
  <1>a. c.inbox \in Seq(List)
    BY DEF GoodPage, IsTab
  <1>3. /\ IsTab(d) /\ d.inbox = inbox
        /\ d.page = c.page /\ d.bag = c.bag /\ d.list = c.list /\ d.link = c.link
        /\ d.online = c.online /\ d.shown = c.shown /\ d.handlers = c.handlers
        /\ d.refreshes = c.refreshes /\ d.excuse = c.excuse
    <2>1. inbox \in Seq(List)
      BY <1>1, <1>2, <1>a
    <2>2. d = [c EXCEPT !.inbox = inbox]
      BY <1>2
    <2> QED BY <2>1, <2>2 DEF GoodPage, IsTab
  <1>4. /\ inbox # <<>>
        /\ \A i \in DOMAIN inbox : inbox[i] = n \/ (i \in DOMAIN c.inbox /\ inbox[i] = c.inbox[i])
    BY <1>1, <1>2, <1>a
  <1>5. \A i \in DOMAIN c.inbox :
            /\ c.inbox[i].employee = logins[c.link]
            /\ 1 <= c.inbox[i].version /\ c.inbox[i].version <= reports[c.inbox[i].employee]
    BY DEF GoodPage, PageOK, NoticesOK
  <1>6. \A i \in DOMAIN inbox :
            /\ inbox[i].employee = logins[c.link]
            /\ 1 <= inbox[i].version /\ inbox[i].version <= reports[inbox[i].employee]
    BY <1>1, <1>4, <1>5
  <1>7. NoticesOK(d)'
    BY <1>3, <1>6 DEF NoticesOK, Tells
  <1>8. Heeds(c, d, n)
    BY <1>3, <1>4 DEF Heeds
  <1> QED BY <1>7, <1>8, PageNoticed

\* A page that the notice does not reach.
LEMMA PageNotReached ==
  ASSUME NEW n, Tells(n), NEW c, NEW m, GoodPage(c, m),
         NEW d, d = IF IsBehind(c.list, n) THEN [c EXCEPT !.excuse = @ \cup {"missed"}] ELSE c
  PROVE  GoodPage(d, m)'
  <1>1. PICK x : x = IF IsBehind(c.list, n) THEN c.excuse \cup {"missed"} ELSE c.excuse
    OBVIOUS
  <1>2. x \in SUBSET Excuse /\ c.excuse \subseteq x /\ (IsBehind(c.list, n) => x # {})
    BY <1>1 DEF GoodPage, IsTab, Excuse
  <1>3. /\ IsTab(d) /\ d.excuse = x
        /\ d.page = c.page /\ d.bag = c.bag /\ d.list = c.list /\ d.link = c.link
        /\ d.online = c.online /\ d.shown = c.shown /\ d.handlers = c.handlers
        /\ d.refreshes = c.refreshes /\ d.inbox = c.inbox
    <2>1. CASE IsBehind(c.list, n)
      <3>1. d = [c EXCEPT !.excuse = x]
        BY <1>1, <2>1
      <3> QED BY <1>2, <3>1 DEF GoodPage, IsTab
    <2>2. CASE ~IsBehind(c.list, n)
      BY <1>1, <2>2 DEF GoodPage
    <2> QED BY <2>1, <2>2
  <1>4. NoticesOK(d)'
    BY <1>3 DEF GoodPage, PageOK, NoticesOK, Tells
  <1>5. d.inbox # <<>> => d.online = "yes"
    BY <1>3 DEF GoodPage, PageOK, ConnectionOK
  <1>6. Heeds(c, d, n)
    BY <1>2, <1>3, <1>5 DEF Heeds
  <1> QED BY <1>4, <1>6, PageNoticed

\* Push: each tab is told, or is not.
LEMMA PushStep ==
  ASSUME WebInductive, Push
  PROVE  WebInductive'
  <1>1. /\ reports \in [Employee -> Nat] /\ told \in [Employee -> Nat]
        /\ owed \subseteq List /\ ChangesToldOK
        /\ \A t \in Tab : GoodTrip(trip[t]) /\ GoodPage(doc[t], stored[t])
    BY InductiveParts DEF WebParts
  <1>2. UNCHANGED <<logins, expired, session, cookie, reports, stored>>
    BY DEF Push, serverVars
  <1>3. PICK n \in owed :
            /\ owed' = owed \ {n}
            /\ told' = [told EXCEPT ![n.employee] = Later(@, n.version)]
            /\ NotifyEmployee(n)
    BY DEF Push
  <1>4. Tells(n)
    BY <1>1, <1>2, <1>3 DEF Tells, ChangesToldOK
  <1>5. ASSUME NEW t \in Tab
        PROVE  GoodTrip(trip[t])'
    <2>1. PICK p, q : /\ p = trip[t]
                      /\ q = IF p.stage = "answered" /\ IsBehind(p.list, n)
                             THEN [p EXCEPT !.missed = TRUE] ELSE p
      OBVIOUS
    <2>2. trip'[t] = q
      BY <1>3, <2>1 DEF NotifyEmployee
    <2>3. GoodTrip(q)'
      BY <1>1, <1>4, <2>1, TripNoticed
    <2> QED BY <2>2, <2>3 DEF GoodTrip, TripOK
  <1>6. ASSUME NEW t \in Tab
        PROVE  GoodPage(doc[t], stored[t])'
    <2>1. PICK c, m, d : c = doc[t] /\ m = stored[t] /\ d = doc'[t]
      OBVIOUS
    <2>2. d = IF c.online = "yes" /\ logins[c.link] = n.employee
              THEN [c EXCEPT !.inbox = Append(@, n)]
              ELSE IF IsBehind(c.list, n) THEN [c EXCEPT !.excuse = @ \cup {"missed"}] ELSE c
      BY <1>3, <2>1 DEF NotifyEmployee, IsReached
    <2>3. GoodPage(c, m)
      BY <1>1, <2>1
    <2>4. GoodPage(d, m)'
      BY <1>4, <2>2, <2>3, PageReached, PageNotReached
    <2>5. doc'[t] = d /\ stored'[t] = m
      BY <1>2, <2>1
    <2> QED BY <2>4, <2>5
      DEF GoodPage, IsTab, PageOK, ConnectionOK, NoticesOK, RemembersOK, RefreshesOK,
          ListOK, IsComing
  <1>7. OnTabs(trip)' /\ OnTabs(doc)' /\ OnTabs(stored)'
    BY <1>2, <1>3, InductiveParts DEF WebParts, NotifyEmployee, OnTabs
  <1>8. told' \in [Employee -> Nat] /\ ChangesToldOK'
    <2>1. told' \in [Employee -> Nat]
      BY <1>4, ToldGrows
    <2>2. \A x \in Employee : told'[x] <= reports'[x]
      BY <1>1, <1>2, <1>4, ToldGrows DEF ChangesToldOK, Tells
    <2>3. \A k \in owed' : 1 <= k.version /\ k.version <= reports'[k.employee]
      BY <1>1, <1>2, <1>3 DEF ChangesToldOK
    <2> QED BY <2>1, <2>2, <2>3 DEF ChangesToldOK
  <1>9. WebParts'
    BY <1>1, <1>2, <1>3, <1>5, <1>6, <1>7, <1>8, InductiveParts DEF WebParts, LoginId
  <1>10. WebParts' => WebInductive'
    BY InductiveParts, PTL
  <1> QED BY <1>9, <1>10

\* aps.js: the hub refuses who has no token, so nothing is told.
LEMMA SendStep ==
  ASSUME WebInductive, SendNotification
  PROVE  WebInductive'
  <1>1. UNCHANGED vars
    BY DEF SendNotification, HubAccepts, vars
  <1> QED BY <1>1, QuietStep

-----------------------------------------------------------------------------
(* The theorems *)

\* Initially every tab is blank, or shows the login page.
LEMMA InitHolds ==
  ASSUME Init
  PROVE  WebInductive
  <1>1. logins \in Seq(Employee) /\ Len(logins) = 0 /\ DOMAIN logins = {}
    BY DEF Init
  <1>2. NoLogin \in LoginId
    BY <1>1 DEF LoginId, NoLogin
  <1>3. /\ GoodTrip(NoTrip)
        /\ GoodPage(Blank, NoLogin) /\ GoodPage(LoginPage, NoLogin)
    BY <1>1, <1>2, FirstPagesAreGood DEF NoTrip, GoodTrip, TripOK, Trip
  <1>4. \A t \in Tab : /\ trip[t] = NoTrip /\ stored[t] = NoLogin
                       /\ doc[t] = Blank \/ doc[t] = LoginPage
    BY DEF Init
  <1>5. OnTabs(trip) /\ OnTabs(stored) /\ OnTabs(doc)
    BY DEF Init, OnTabs
  <1>6. /\ reports \in [Employee -> Nat] /\ told \in [Employee -> Nat]
        /\ owed \subseteq List /\ ChangesToldOK /\ expired = {}
    BY DEF Init, ChangesToldOK
  <1>7. session \in LoginId /\ cookie \in LoginId
    BY <1>2 DEF Init
  <1> QED BY <1>1, <1>3, <1>4, <1>5, <1>6, <1>7, InductiveParts, WebAssumption DEF WebParts

\* What users do.
LEMMA UserStepKeeps ==
  ASSUME WebInductive, NEW t \in Tab, UserStep(t)
  PROVE  WebInductive'
  BY TripStep, LoginStep, LoadStep, Zenon DEF UserStep

\* What happens in a tab.
LEMMA BrowserStepKeeps ==
  ASSUME WebInductive, NEW t \in Tab, BrowserStep(t)
  PROVE  WebInductive'
  BY TripStep, LoadStep, ConnectStep, ReadStep, HideStep, ServeRefreshStep,
     RefreshArrivesStep, Zenon DEF BrowserStep

\* What goes wrong.
LEMMA FailureKeeps ==
  ASSUME WebInductive, Failure
  PROVE  WebInductive'
  BY DisconnectStep, RefreshFailsStep, QuietStep, Zenon DEF Failure

\* What happens at the server.
LEMMA ServerStepKeeps ==
  ASSUME WebInductive, ServerStep
  PROVE  WebInductive'
  BY ChangeStep, PushStep, SendStep, Zenon DEF ServerStep

\* In every reachable state the inductive invariant holds: every list is an old or
\* the current one of its employee, and a page whose list lacks a change its employee
\* was notified of has an excuse or that change on its way.  Reports change before
\* their owners are told, and may change without a word.
THEOREM WebInductiveHolds == Spec => []WebInductive
  <1>1. Init => WebInductive
    BY InitHolds
  <1>2. WebInductive /\ [Next]_vars => WebInductive'
    <2> SUFFICES ASSUME WebInductive, [Next]_vars PROVE WebInductive'
      OBVIOUS
    <2>1. CASE Next
      BY <2>1, UserStepKeeps, BrowserStepKeeps, ServerStepKeeps, FailureKeeps, Zenon
         DEF Next
    <2>2. CASE UNCHANGED vars
      BY <2>2, QuietStep
    <2> QED BY <2>1, <2>2
  <1> QED BY <1>1, <1>2, PTL DEF Spec

\* Nothing is on its way, so the list has all that was told or there is an excuse.
LEMMA ListIsCurrentFollows == WebInductive => ListIsCurrent
  <1> SUFFICES ASSUME WebInductive, NEW t \in Tab,
                      doc[t].page = "reports", doc[t].excuse = {}, doc[t].inbox = <<>>,
                      ~doc[t].shown, doc[t].refreshes = EmptyBag
               PROVE  IsUpToDate(doc[t].list)
    BY DEF ListIsCurrent, IsUpToDate
  <1>1. ListOK(doc[t]) /\ doc[t].list # None
    BY DEF WebInductive, PageOK, TypeOK
  <1>2. ~IsComing(doc[t])
    BY NoCopies DEF IsComing
  <1> QED BY <1>1, <1>2 DEF ListOK

\* A page of reports with nothing under way shows every change its employee was ever
\* notified of, unless the page missed a notice, was offline, or a refresh failed,
\* found no session of this employee or was overtaken: the refresh hidden.bs.toast
\* asks for in signalr-notify.js is enough for what is told.
THEOREM ListIsCurrentHolds == Spec => []ListIsCurrent
  BY WebInductiveHolds, ListIsCurrentFollows, PTL

\* RemembersOK says it of every tab.
LEMMA ConnectedFollows == WebInductive => ConnectedWhereRemembered
  BY DEF WebInductive, PageOK, RemembersOK, ConnectedWhereRemembered

\* From the page after the one a login has landed on, every page of a tab is connected
\* with the login the tab's sessionStorage keeps, while its token is accepted.
THEOREM ConnectedWhereRememberedHolds == Spec => []ConnectedWhereRemembered
  BY WebInductiveHolds, ConnectedFollows, PTL

\* NoticesOK, with the numbers of the changes typed.
LEMMA NoticesFollow == WebInductive => NoticesAreTrue
  <1> SUFFICES ASSUME WebInductive, NEW t \in Tab, NEW i \in DOMAIN doc[t].inbox
               PROVE  /\ doc[t].inbox[i].employee = logins[doc[t].link]
                      /\ doc[t].inbox[i].version \in 1 .. reports[doc[t].inbox[i].employee]
    BY DEF NoticesAreTrue
  <1>1. NoticesOK(doc[t])
    BY DEF WebInductive, PageOK
  <1>2. PICK n : n = doc[t].inbox[i]
    OBVIOUS
  <1>3. n \in List /\ reports \in [Employee -> Nat]
    BY <1>2, InductiveParts DEF WebParts, GoodPage, IsTab
  <1>4. /\ n.employee = logins[doc[t].link]
        /\ 1 <= n.version /\ n.version <= reports[n.employee]
    BY <1>1, <1>2 DEF NoticesOK
  <1>5. n.version \in Nat /\ reports[n.employee] \in Nat
    BY <1>3 DEF List
  <1> QED BY <1>2, <1>4, <1>5

\* Whatever a page is told is true: it is about the employee whose login the page is
\* connected with, and the list has changed that often.  aps.js can tell nothing.
THEOREM NoticesAreTrueHolds == Spec => []NoticesAreTrue
  BY WebInductiveHolds, NoticesFollow, PTL

=============================================================================
