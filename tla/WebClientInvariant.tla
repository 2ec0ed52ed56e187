------------------------- MODULE WebClientInvariant -------------------------
(***************************************************************************)
(* The inductive invariant behind the theorems of WebClientProofs.  It is  *)
(* kept apart from the proofs so that TLC can check it too.                *)
(***************************************************************************)
EXTENDS WebClient

-----------------------------------------------------------------------------
(* What employees are told, and the lists under way in a tab *)

\* Notices are about changes that were made.
ChangesToldOK ==
    /\ \A e \in Employee : told[e] <= reports[e]
    /\ \A n \in owed : 1 <= n.version /\ n.version <= reports[n.employee]

\* A list, if it is one, was its employee's once.
IsOfThePast(list) == list # None => list.version <= reports[list.employee]

\* It has all the changes its employee was notified of.
IsUpToDate(list) == list.version >= told[list.employee]

\* An answer whose list was rendered before a change its employee was notified of
\* is marked so.
TripOK(p) ==
    p.stage = "answered" =>
        /\ p.page = "reports" <=> p.list # None
        /\ IsOfThePast(p.list)
        /\ p.list # None /\ ~p.missed => IsUpToDate(p.list)

-----------------------------------------------------------------------------
(* The connection of page d and what came over it *)

ConnectionOK(d) ==
    /\ d.online # "no" => d.link # NoLogin
    /\ d.inbox # <<>> => d.online = "yes"

NoticesOK(d) ==
    \A i \in DOMAIN d.inbox :
        LET n == d.inbox[i] IN
        /\ n.employee = logins[d.link]
        /\ 1 <= n.version /\ n.version <= reports[n.employee]

\* login: what the tab remembers.
RemembersOK(d, login) ==
    /\ d.page # "blank" /\ d.bag = NoLogin
    /\ login # NoLogin /\ login \notin expired
    => d.link = login /\ (d.online # "no" \/ "offline" \in d.excuse)

-----------------------------------------------------------------------------
(* The list page d shows *)

RefreshesOK(d) ==
    \A r \in BagToSet(d.refreshes) :
        IsOfThePast(r.list) /\ (~r.answered => r.list = None)

\* What arrives with refresh r leaves no list behind without an excuse.
Mends(list, r) ==
    \/ ~r.answered
    \/ r.list = None
    \/ r.list.employee # list.employee
    \/ IsUpToDate(r.list)

\* A notice waits, or is shown, or a refresh is under way that was not answered
\* before the last change that was told.
IsComing(d) ==
    \/ d.inbox # <<>>
    \/ d.shown
    \/ \E r \in BagToSet(d.refreshes) : Mends(d.list, r)

ListOK(d) ==
    /\ IsOfThePast(d.list)
    /\ d.shown => d.handlers > 0
    /\ d.list # None /\ d.excuse = {} /\ ~IsUpToDate(d.list) => IsComing(d)

-----------------------------------------------------------------------------

PageOK(d, login) ==
    /\ ConnectionOK(d) /\ NoticesOK(d) /\ RemembersOK(d, login)
    /\ RefreshesOK(d) /\ ListOK(d)

\* In every reachable state what employees were told and will be told has happened,
\* each list, in a page, in an answer or in a refresh, is an old or the current one
\* of its employee, and a page whose list lacks a change its employee was told of
\* either knows why or has that change on its way: as a notice, as a popup, or as a
\* refresh that the server has not answered too early.
WebInductive ==
    /\ TypeOK
    /\ ChangesToldOK
    /\ \A t \in Tab : TripOK(trip[t]) /\ PageOK(doc[t], stored[t])

=============================================================================
