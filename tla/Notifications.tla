---------------------------- MODULE Notifications ----------------------------
(***************************************************************************)
(* How EventHost comes to speak to the hub of the web application in the   *)
(* name of an employee.  The identity service stores the token of a login, *)
(* one per employee; SignalrNotificationService, in another process and at *)
(* another time, reads the stored token and connects with it.  A push the  *)
(* hub refuses throws, and with it ends EventHost.                         *)
(*                                                                         *)
(* A token stands for the time it expires at: nothing else of it differs   *)
(* between two logins of an employee.  Keys, issuer and audience of the    *)
(* two services are the same (scripts/add_secrets.sh).                     *)
(***************************************************************************)
EXTENDS Naturals

CONSTANTS
    Employee,
    Login,      \* logins in flight at a time
    Browser,    \* sessions of the web application
    Push,       \* drivers of EventHost that notify, at a time
    None,       \* no token
    Lifetime,   \* JwtExpiryMinutes, in ticks
    ClockSkew,  \* how long the hub accepts an expired token, in ticks
    LoginTime,  \* longest time from a token's expireTime to its UPSERT
    Horizon     \* bound: the last tick of a run

\* JwtBearer's skew is five minutes.  That UpsertAsync takes no longer, with its
\* secret and its connection, is assumed and not enforced by the code.
ASSUME NotificationsAssumption ==
    /\ Lifetime \in Nat /\ ClockSkew \in Nat /\ LoginTime \in Nat
    /\ LoginTime <= ClockSkew
    /\ Horizon \in Nat
    /\ None \notin Nat

VARIABLES
    now,
    registered,  \* employees with a row in the table employee
    login,       \* login[l]: the login handler l, with its local variables
    stored,      \* stored[e]: the token of e's row in employee_tokens
    session,     \* session[b]: whose session it is, and the token it was given
    push         \* push[p]: PushToUserAsync of driver p, with its local variables

vars == <<now, registered, login, stored, session, push>>

Token == Nat
NoToken == None

LoginPC == {"idle", "verified", "signed", "upserted"}
PushPC == {"idle", "reading", "connecting", "invoking"}

TypeOK ==
    /\ now \in Nat
    /\ registered \subseteq Employee
    /\ login \in [Login ->
        [pc : LoginPC, employee : Employee \cup {None}, token : Token \cup {NoToken}]]
    /\ stored \in [Employee -> Token \cup {NoToken}]
    /\ session \in [Browser ->
        [employee : Employee \cup {None}, token : Token \cup {NoToken}]]
    /\ push \in [Push ->
        [pc : PushPC, employee : Employee \cup {None}, token : Token \cup {NoToken}]]

Idle == [pc |-> "idle", employee |-> None, token |-> NoToken]
LoggedOut == [employee |-> None, token |-> NoToken]

Init ==
    /\ now = 0
    /\ registered = {}
    /\ login = [l \in Login |-> Idle]
    /\ stored = [e \in Employee |-> NoToken]
    /\ session = [b \in Browser |-> LoggedOut]
    /\ push = [p \in Push |-> Idle]

-----------------------------------------------------------------------------
(* The identity service *)

Register(e) ==
    /\ registered' = registered \cup {e}
    /\ UNCHANGED <<now, login, stored, session, push>>

\* Get and Verify.  An unknown employee or a wrong password changes nothing,
\* and neither does an exception.
LoginVerify(l, e) ==
    /\ login[l].pc = "idle"
    /\ e \in registered
    /\ login' = [login EXCEPT ![l] = [Idle EXCEPT !.pc = "verified", !.employee = e]]
    /\ UNCHANGED <<now, registered, stored, session, push>>

\* The secrets are there: expireTime is computed and the token signed.
LoginSign(l) ==
    /\ login[l].pc = "verified"
    /\ login' = [login EXCEPT ![l].pc = "signed", ![l].token = now + Lifetime]
    /\ UNCHANGED <<now, registered, stored, session, push>>

\* Variant: ON CONFLICT (registration_id) DO NOTHING.
UpsertKeepsOld(l) ==
    /\ login[l].pc = "signed"
    /\ stored' = [stored EXCEPT ![login[l].employee] =
        IF @ = NoToken THEN login[l].token ELSE @]
    /\ login' = [login EXCEPT ![l].pc = "upserted"]
    /\ UNCHANGED <<now, registered, session, push>>

\* UpsertAsync overwrites whatever token the row has, a later one too.
Upsert(l) ==
    /\ login[l].pc = "signed"
    /\ stored' = [stored EXCEPT ![login[l].employee] = login[l].token]
    /\ login' = [login EXCEPT ![l].pc = "upserted"]
    /\ UNCHANGED <<now, registered, session, push>>

\* A secret or the UPSERT throws, or the answer is lost on its way:
\* AccountController shows the form again.
LoginFails(l) ==
    /\ login[l].pc # "idle"
    /\ login' = [login EXCEPT ![l] = Idle]
    /\ UNCHANGED <<now, registered, stored, session, push>>

-----------------------------------------------------------------------------
(* The web application *)

\* AccountController.Login puts the token into the session.
SignIn(l, b) ==
    /\ login[l].pc = "upserted"
    /\ session' = [session EXCEPT ![b] =
        [employee |-> login[l].employee, token |-> login[l].token]]
    /\ login' = [login EXCEPT ![l] = Idle]
    /\ UNCHANGED <<now, registered, stored, push>>

\* Variant: logging out deletes the stored token as well.
SignOutForgets(b) ==
    /\ session[b] # LoggedOut
    /\ session' = [session EXCEPT ![b] = LoggedOut]
    /\ stored' = [stored EXCEPT ![session[b].employee] = NoToken]
    /\ UNCHANGED <<now, registered, login, push>>

\* Logout, or the idle timeout of the session.
SignOut(b) ==
    /\ session[b] # LoggedOut
    /\ session' = [session EXCEPT ![b] = LoggedOut]
    /\ UNCHANGED <<now, registered, login, stored, push>>

\* Variant: ClockSkew = TimeSpan.Zero.
AcceptsUnexpired(token) == token # NoToken /\ now <= token

\* [Authorize] on StatusHub and the validation of the lifetime.
HubAccepts(token) == token # NoToken /\ now <= token + ClockSkew

-----------------------------------------------------------------------------
(* SignalrNotificationService in EventHost *)

PushToUser(p, e) ==
    /\ push[p].pc = "idle"
    /\ e \in registered
    /\ push' = [push EXCEPT ![p] = [Idle EXCEPT !.pc = "reading", !.employee = e]]
    /\ UNCHANGED <<now, registered, login, stored, session>>

\* ReadToken answers the empty string when there is no row.
ReadToken(p) ==
    /\ push[p].pc = "reading"
    /\ push' = [push EXCEPT ![p].pc = "connecting", ![p].token = stored[push[p].employee]]
    /\ UNCHANGED <<now, registered, login, stored, session>>

Start(p) ==
    /\ push[p].pc = "connecting"
    /\ HubAccepts(push[p].token)
    /\ push' = [push EXCEPT ![p].pc = "invoking"]
    /\ UNCHANGED <<now, registered, login, stored, session>>

\* StartAsync or InvokeAsync throws, and with it ends the process.
EventHostEnds ==
    /\ push' = [p \in Push |-> Idle]
    /\ UNCHANGED <<now, registered, login, stored, session>>

StartRefused(p) ==
    /\ push[p].pc = "connecting"
    /\ ~HubAccepts(push[p].token)
    /\ EventHostEnds

\* The web application is down, or EventHost ends for another reason.
PushThrows(p) ==
    /\ push[p].pc # "idle"
    /\ EventHostEnds

Invoke(p) ==
    /\ push[p].pc = "invoking"
    /\ push' = [push EXCEPT ![p] = Idle]
    /\ UNCHANGED <<now, registered, login, stored, session>>

-----------------------------------------------------------------------------

\* A signed token is stored within LoginTime, or its login has failed.
Tick ==
    /\ now < Horizon
    /\ \A l \in Login :
        login[l].pc = "signed" => now + Lifetime < login[l].token + LoginTime
    /\ now' = now + 1
    /\ UNCHANGED <<registered, login, stored, session, push>>

LoginStep(l) ==
    \/ \E e \in Employee : LoginVerify(l, e)
    \/ LoginSign(l) \/ Upsert(l) \/ LoginFails(l)
    \/ \E b \in Browser : SignIn(l, b)

PushStep(p) ==
    \/ \E e \in Employee : PushToUser(p, e)
    \/ ReadToken(p) \/ Start(p) \/ StartRefused(p) \/ PushThrows(p) \/ Invoke(p)

Next ==
    \/ \E e \in Employee : Register(e)
    \/ \E l \in Login : LoginStep(l)
    \/ \E b \in Browser : SignOut(b)
    \/ \E p \in Push : PushStep(p)
    \/ Tick

Spec == Init /\ [][Next]_vars

-----------------------------------------------------------------------------
(* Properties *)

\* b is a session of e whose token has not expired.
IsValidSession(b, e) ==
    /\ session[b].employee = e
    /\ session[b].token # NoToken
    /\ now <= session[b].token

\* Whoever has a session with a token that has not expired can be notified:
\* the hub accepts the token stored for that employee.  Logins that overlap may
\* leave the older of two tokens in the row; what the employee loses by that,
\* the hub's clock skew makes up for.
HoldersCanBeTold ==
    \A b \in Browser, e \in Employee :
        IsValidSession(b, e) => HubAccepts(stored[e])

\* However logins overlap and fail, one of them takes LoginTime at most from
\* the life of the token that is stored, and none takes the token away.
LoginsCostLittle ==
    [][\A e \in Employee : stored[e] # NoToken =>
        /\ stored'[e] # NoToken
        /\ stored[e] <= stored'[e] + LoginTime]_vars

\* A refused push ends EventHost.  It happens to an employee with a valid
\* session only when a login has replaced the token the push had read.
RefusedWithReason ==
    [][\A p \in Push, e \in Employee, b \in Browser :
        StartRefused(p) /\ push[p].employee = e /\ IsValidSession(b, e)
            => stored[e] # push[p].token]_vars

-----------------------------------------------------------------------------
(* The inductive invariant *)

\* No token outlives a login that were to sign one now, and a signed one is
\* not older than LoginTime when it is stored.
TokensAreFresh ==
    /\ \A l \in Login :
        /\ login[l].pc # "idle" => login[l].employee \in Employee
        /\ login[l].pc \in {"signed", "upserted"} =>
            login[l].token # NoToken /\ login[l].token <= now + Lifetime
        /\ login[l].pc = "signed" => now + Lifetime <= login[l].token + LoginTime
    /\ \A e \in Employee : stored[e] # NoToken => stored[e] <= now + Lifetime
    /\ \A b \in Browser :
        session[b].token # NoToken => session[b].token <= now + Lifetime

\* e was given token: the one stored for e lasts as long, but for LoginTime.
Backed(e, token) == stored[e] # NoToken /\ token <= stored[e] + LoginTime

GivenIsBacked ==
    /\ \A l \in Login :
        login[l].pc = "upserted" => Backed(login[l].employee, login[l].token)
    /\ \A b \in Browser :
        session[b].token # NoToken =>
            /\ session[b].employee \in Employee
            /\ Backed(session[b].employee, session[b].token)

PushesHaveOwners ==
    \A p \in Push : push[p].pc # "idle" => push[p].employee \in Employee

TokensInductive == TypeOK /\ TokensAreFresh /\ GivenIsBacked /\ PushesHaveOwners

=============================================================================
