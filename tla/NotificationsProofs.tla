------------------------- MODULE NotificationsProofs -------------------------
(***************************************************************************)
(* The tokens behind the notifications, for any numbers of employees,      *)
(* overlapping logins, sessions and drivers, and for any lifetimes.        *)
(***************************************************************************)
EXTENDS Notifications, TLAPS

\* The state before anybody has registered.
LEMMA InitTokens == Init => TokensInductive
  <1> USE NotificationsAssumption DEF NotificationsAssumption
  <1> QED
    BY DEF Init, TokensInductive, TypeOK, TokensAreFresh, GivenIsBacked,
        PushesHaveOwners, Idle,
        LoggedOut, LoginPC, PushPC, Token, NoToken

\* One login moves: a new token expires later than any other, and an old one
\* that is stored is older by LoginTime at most.
LEMMA LoginStepTokens ==
  ASSUME TokensInductive, NEW l \in Login, LoginStep(l)
  PROVE  TokensInductive'
  <1> USE NotificationsAssumption
      DEF NotificationsAssumption, Idle, Token, NoToken, LoginPC
  <1>1. TypeOK /\ TokensAreFresh /\ GivenIsBacked /\ PushesHaveOwners
    BY DEF TokensInductive
  <1>2. ASSUME NEW e \in Employee, LoginVerify(l, e)
        PROVE  TokensInductive'
    BY <1>1, <1>2
    DEF LoginVerify, TokensInductive, TypeOK, TokensAreFresh, GivenIsBacked, Backed,
        PushesHaveOwners
  <1>3. CASE LoginSign(l)
    <2>1. now \in Nat /\ now + Lifetime \in Nat
      BY <1>1 DEF TypeOK
    <2>2. /\ login[l].pc = "verified"
          /\ login' = [login EXCEPT ![l] = [@ EXCEPT !.pc = "signed", !.token = now + Lifetime]]
          /\ UNCHANGED <<now, registered, stored, session, push>>
      BY <1>1, <1>3 DEF LoginSign, TypeOK
    <2>3. /\ login'[l].pc = "signed"
          /\ login'[l].employee = login[l].employee
          /\ login'[l].token = now + Lifetime
          /\ \A m \in Login \ {l} : login'[m] = login[m]
          /\ TypeOK'
      BY <1>1, <2>1, <2>2 DEF TypeOK
    <2>4. TokensAreFresh'
      BY <1>1, <2>1, <2>2, <2>3 DEF TypeOK, TokensAreFresh
    <2>5. GivenIsBacked'
      BY <1>1, <2>2, <2>3 DEF TypeOK, GivenIsBacked, Backed
    <2> QED
      BY <1>1, <2>2, <2>3, <2>4, <2>5 DEF TokensInductive, PushesHaveOwners
  <1>4. CASE Upsert(l)
    <2> DEFINE owner == login[l].employee
               token == login[l].token
    <2>1. /\ owner \in Employee
          /\ token \in Nat
          /\ token <= now + Lifetime
          /\ now + Lifetime <= token + LoginTime
          /\ now \in Nat
      BY <1>1, <1>4 DEF Upsert, TypeOK, TokensAreFresh
    <2>2. /\ stored' = [stored EXCEPT ![owner] = token]
          /\ login' = [login EXCEPT ![l].pc = "upserted"]
          /\ UNCHANGED <<now, registered, session, push>>
      BY <1>4 DEF Upsert
    <2>3. TypeOK'
      BY <1>1, <2>1, <2>2 DEF TypeOK
    <2>4. /\ stored'[owner] = token
          /\ \A e \in Employee \ {owner} : stored'[e] = stored[e]
          /\ \A m \in Login : /\ login'[m].employee = login[m].employee
                              /\ login'[m].token = login[m].token
                              /\ m # l => login'[m].pc = login[m].pc
          /\ login'[l].pc = "upserted"
      BY <1>1, <2>1, <2>2 DEF TypeOK
    <2>5. TokensAreFresh'
      BY <1>1, <1>4, <2>1, <2>2, <2>4 DEF TypeOK, TokensAreFresh, Upsert
    <2> DEFINE StillBacked(e, t) == stored'[e] # None /\ t <= stored'[e] + LoginTime
    <2>6. ASSUME NEW e \in Employee, NEW t \in Nat, t <= now + Lifetime,
                 Backed(e, t) \/ (e = owner /\ t = token)
          PROVE  StillBacked(e, t)
      <3>1. CASE e = owner
        BY <2>1, <2>4, <2>6, <3>1
      <3>2. CASE e # owner
        BY <2>4, <2>6, <3>2 DEF Backed
      <3> QED BY <3>1, <3>2
    <2>7. ASSUME NEW m \in Login, login'[m].pc = "upserted"
          PROVE  StillBacked(login[m].employee, login[m].token)
      <3>1. CASE m = l
        BY <2>1, <2>6, <3>1
      <3>2. CASE m # l
        <4>1. /\ login[m].pc = "upserted" /\ login[m].employee \in Employee
              /\ login[m].token \in Nat /\ login[m].token <= now + Lifetime
          BY <1>1, <2>4, <2>7, <3>2 DEF TypeOK, TokensAreFresh
        <4>2. Backed(login[m].employee, login[m].token)
          BY <1>1, <4>1 DEF GivenIsBacked
        <4> QED BY <2>6, <4>1, <4>2
      <3> QED BY <3>1, <3>2
    <2>8. ASSUME NEW b \in Browser, session[b].token # NoToken
          PROVE  /\ session[b].employee \in Employee
                 /\ StillBacked(session[b].employee, session[b].token)
      <3>1. /\ session[b].employee \in Employee
            /\ session[b].token \in Nat /\ session[b].token <= now + Lifetime
            /\ Backed(session[b].employee, session[b].token)
        BY <1>1, <2>8 DEF TypeOK, TokensAreFresh, GivenIsBacked
      <3> QED BY <2>6, <3>1
    <2>9. GivenIsBacked'
      BY <2>2, <2>4, <2>7, <2>8 DEF GivenIsBacked, Backed
    <2> QED
      BY <1>1, <2>2, <2>3, <2>5, <2>9 DEF TokensInductive, PushesHaveOwners
  <1>5. CASE LoginFails(l)
    BY <1>1, <1>5
    DEF LoginFails, TokensInductive, TypeOK, TokensAreFresh, GivenIsBacked, Backed,
        PushesHaveOwners
  <1>6. ASSUME NEW b \in Browser, SignIn(l, b)
        PROVE  TokensInductive'
    BY <1>1, <1>6
    DEF SignIn, TokensInductive, TypeOK, TokensAreFresh, GivenIsBacked, Backed,
        PushesHaveOwners
  <1> QED
    BY <1>2, <1>3, <1>4, <1>5, <1>6 DEF LoginStep

\* A driver that pushes reads tokens and changes none.
LEMMA PushStepTokens ==
  ASSUME TokensInductive, NEW p \in Push, PushStep(p)
  PROVE  TokensInductive'
  <1> USE DEF Idle, Token, NoToken, PushPC
  <1>1. TypeOK /\ TokensAreFresh /\ GivenIsBacked /\ PushesHaveOwners
    BY DEF TokensInductive
  <1>2. UNCHANGED <<now, registered, login, stored, session>>
    BY DEF PushStep, PushToUser, ReadToken, Start, StartRefused, PushThrows,
        Invoke, EventHostEnds
  <1>3. push' \in [Push ->
          [pc : PushPC, employee : Employee \cup {None}, token : Token \cup {NoToken}]]
    <2>1. ASSUME NEW e \in Employee, PushToUser(p, e)
          PROVE  TypeOK'
      BY <1>1, <1>2, <2>1 DEF TypeOK, PushToUser
    <2>2. CASE ReadToken(p)
      <3>1. push[p].employee \in Employee
        BY <1>1, <2>2 DEF ReadToken, PushesHaveOwners
      <3>2. stored[push[p].employee] \in Token \cup {NoToken}
        BY <1>1, <3>1 DEF TypeOK
      <3> QED BY <1>1, <2>2, <3>2 DEF TypeOK, ReadToken
    <2>3. CASE Start(p) \/ Invoke(p)
      BY <1>1, <2>3 DEF TypeOK, Start, Invoke
    <2>4. CASE StartRefused(p) \/ PushThrows(p)
      BY <2>4 DEF StartRefused, PushThrows, EventHostEnds
    <2> QED
      BY <2>1, <2>2, <2>3, <2>4 DEF PushStep, TypeOK
  <1>4. TokensAreFresh' /\ GivenIsBacked'
    BY <1>1, <1>2 DEF TokensAreFresh, GivenIsBacked, Backed
  <1>5. PushesHaveOwners'
    <2>1. ASSUME NEW e \in Employee, PushToUser(p, e)
          PROVE  PushesHaveOwners'
      BY <1>1, <2>1 DEF TypeOK, PushToUser, PushesHaveOwners
    <2>2. CASE ReadToken(p) \/ Start(p)
      BY <1>1, <2>2 DEF TypeOK, ReadToken, Start, PushesHaveOwners
    <2>3. CASE Invoke(p)
      BY <1>1, <2>3 DEF TypeOK, Invoke, PushesHaveOwners
    <2>4. CASE StartRefused(p) \/ PushThrows(p)
      BY <2>4 DEF StartRefused, PushThrows, EventHostEnds, PushesHaveOwners
    <2> QED
      BY <2>1, <2>2, <2>3, <2>4 DEF PushStep
  <1> QED
    BY <1>1, <1>2, <1>3, <1>4, <1>5 DEF TokensInductive, TypeOK

\* Time passes, and no signed token waits beyond LoginTime.
LEMMA TickTokens ==
  ASSUME TokensInductive, Tick
  PROVE  TokensInductive'
  <1> USE NotificationsAssumption DEF NotificationsAssumption, Token, NoToken
  <1>1. TypeOK /\ TokensAreFresh /\ GivenIsBacked /\ PushesHaveOwners
    BY DEF TokensInductive
  <1>2. /\ now \in Nat /\ now' = now + 1
        /\ UNCHANGED <<registered, login, stored, session, push>>
        /\ \A l \in Login :
            login[l].pc = "signed" => now + Lifetime < login[l].token + LoginTime
    BY <1>1 DEF Tick, TypeOK
  <1>3. TokensAreFresh'
    BY <1>1, <1>2 DEF TypeOK, TokensAreFresh
  <1>4. TypeOK' /\ GivenIsBacked' /\ PushesHaveOwners'
    BY <1>1, <1>2 DEF TypeOK, GivenIsBacked, Backed, PushesHaveOwners
  <1> QED BY <1>3, <1>4 DEF TokensInductive

\* Registering and logging out touch no token that is stored or in flight.
LEMMA OtherStepTokens ==
  ASSUME TokensInductive,
         (\E e \in Employee : Register(e)) \/ (\E b \in Browser : SignOut(b))
  PROVE  TokensInductive'
  <1> USE DEF LoggedOut, Token, NoToken
  <1>1. TypeOK /\ TokensAreFresh /\ GivenIsBacked /\ PushesHaveOwners
    BY DEF TokensInductive
  <1>2. ASSUME NEW e \in Employee, Register(e)
        PROVE  TokensInductive'
    BY <1>1, <1>2
    DEF Register, TokensInductive, TypeOK, TokensAreFresh, GivenIsBacked, Backed,
        PushesHaveOwners
  <1>3. ASSUME NEW b \in Browser, SignOut(b)
        PROVE  TokensInductive'
    BY <1>1, <1>3
    DEF SignOut, TokensInductive, TypeOK, TokensAreFresh, GivenIsBacked, Backed,
        PushesHaveOwners
  <1> QED BY <1>2, <1>3

\* What is known of the tokens in every reachable state.
THEOREM TokensInductiveHolds == Spec => []TokensInductive
  <1>1. TokensInductive /\ [Next]_vars => TokensInductive'
    <2> SUFFICES ASSUME TokensInductive, [Next]_vars
                 PROVE  TokensInductive'
      OBVIOUS
    <2>1. CASE Next
      BY <2>1, LoginStepTokens, PushStepTokens, TickTokens, OtherStepTokens DEF Next
    <2>2. CASE UNCHANGED vars
      BY <2>2
      DEF vars, TokensInductive, TypeOK, TokensAreFresh, GivenIsBacked, Backed,
          PushesHaveOwners
    <2> QED BY <2>1, <2>2
  <1> QED BY <1>1, InitTokens, PTL DEF Spec

\* An employee whose session is valid can be notified: LoginTime, the most that
\* overlapping logins may cost, is within the clock skew of the hub.
LEMMA HoldersCanBeToldLemma == TokensInductive => HoldersCanBeTold
  <1> USE NotificationsAssumption DEF NotificationsAssumption, NoToken, Token
  <1> SUFFICES ASSUME TokensInductive,
                      NEW b \in Browser, NEW e \in Employee, IsValidSession(b, e)
               PROVE  HubAccepts(stored[e])
    BY DEF HoldersCanBeTold
  <1>1. /\ now \in Nat /\ session[b].token \in Nat /\ now <= session[b].token
        /\ Backed(e, session[b].token)
    BY DEF TokensInductive, TypeOK, GivenIsBacked, IsValidSession
  <1>2. stored[e] \in Nat
    BY <1>1 DEF TokensInductive, TypeOK, Backed
  <1> QED BY <1>1, <1>2 DEF Backed, HubAccepts

THEOREM HoldersCanBeToldHolds == Spec => []HoldersCanBeTold
  BY TokensInductiveHolds, HoldersCanBeToldLemma, PTL

\* A login takes LoginTime at most from the life of the stored token.
THEOREM LoginsCostLittleHolds == Spec => LoginsCostLittle
  <1> DEFINE Costs ==
        \A e \in Employee : stored[e] # NoToken =>
          /\ stored'[e] # NoToken
          /\ stored[e] <= stored'[e] + LoginTime
  <1>1. TokensInductive /\ [Next]_vars => Costs \/ UNCHANGED vars
    <2> USE NotificationsAssumption DEF NotificationsAssumption, NoToken, Token
    <2> SUFFICES ASSUME TokensInductive, Next, NEW e \in Employee, stored[e] # NoToken
                 PROVE  /\ stored'[e] # NoToken
                        /\ stored[e] <= stored'[e] + LoginTime
      OBVIOUS
    <2>1. stored[e] \in Nat /\ stored[e] <= now + Lifetime /\ now \in Nat
      BY DEF TokensInductive, TypeOK, TokensAreFresh
    <2>2. CASE UNCHANGED stored
      BY <2>1, <2>2
    <2>3. ASSUME NEW l \in Login, Upsert(l)
          PROVE  /\ stored'[e] # NoToken
                 /\ stored[e] <= stored'[e] + LoginTime
      <3>1. /\ login[l].token \in Nat
            /\ now + Lifetime <= login[l].token + LoginTime
            /\ stored' = [stored EXCEPT ![login[l].employee] = login[l].token]
        BY <2>3 DEF Upsert, TokensInductive, TypeOK, TokensAreFresh
      <3>2. stored'[e] = IF e = login[l].employee THEN login[l].token ELSE stored[e]
        BY <3>1 DEF TokensInductive, TypeOK
      <3> QED BY <2>1, <3>1, <3>2
    <2>4. \/ UNCHANGED stored
          \/ \E l \in Login : Upsert(l)
      BY DEF Next, LoginStep, PushStep, Register, LoginVerify, LoginSign, LoginFails,
          SignIn, SignOut, PushToUser, ReadToken, Start, StartRefused, PushThrows,
          EventHostEnds, Invoke, Tick
    <2> QED BY <2>2, <2>3, <2>4
  <1> QED
    BY <1>1, TokensInductiveHolds, PTL DEF Spec, LoginsCostLittle

\* EventHost ends by a refused push of an employee with a valid session only
\* after a login has come between the reading of the token and the connection.
THEOREM RefusedWithReasonHolds == Spec => RefusedWithReason
  <1> DEFINE Reason ==
        \A p \in Push, e \in Employee, b \in Browser :
          StartRefused(p) /\ push[p].employee = e /\ IsValidSession(b, e)
            => stored[e] # push[p].token
  <1>1. TokensInductive /\ [Next]_vars => Reason
    BY HoldersCanBeToldLemma DEF HoldersCanBeTold, StartRefused
  <1> QED
    BY <1>1, TokensInductiveHolds, PTL DEF Spec, RefusedWithReason

=============================================================================
