--------------------------- MODULE ResistanceProofs ---------------------------
(***************************************************************************)
(* The limit of ResourceRaceBehavior and the season of OutageBehavior, for *)
(* any number of concurrent requests, any limit and any outage period.     *)
(***************************************************************************)
EXTENDS Resistance, FiniteSetTheorems, TLAPS

\* What the safety of the two middlewares rests on: the end of an outage never
\* lies beyond the season, because only a request that has just seen the window
\* may set it.
EndsInSeason == remaining > 0 => phase + remaining < 2 * Duration

BeginsInWindow == \A c \in Call : call[c] \in BeginningPC => phase < Duration

Inv == TypeOK /\ PermitsAreReturned /\ EndsInSeason /\ BeginsInWindow

\* Requests are finitely many, and so are those inside the semaphore.
LEMMA HoldingIsFinite ==
  ASSUME TypeOK
  PROVE  IsFiniteSet(holding) /\ Cardinality(holding) \in Nat
  <1>1. IsFiniteSet(holding)
    BY FS_Subset, ResistanceAssumption DEF TypeOK, ResistanceAssumption
  <1> QED BY <1>1, FS_CardinalityType

\* The state the static fields are created with.
LEMMA InitInv == Init => Inv
  <1> SUFFICES ASSUME Init PROVE Inv
    OBVIOUS
  <1>1. TypeOK
    <2>1. call \in [Call -> CallPC]
      BY DEF Init, CallPC
    <2>2. active \subseteq Flag
      BY Zenon DEF Init
    <2>3. /\ holding = {} /\ permits = UpperLimit /\ serviceOutage = FALSE
          /\ remaining = 0 /\ phase \in 0 .. Frequency - 1
      BY DEF Init
    <2>4. permits \in 0 .. UpperLimit /\ remaining \in 0 .. Duration
      <3>1. UpperLimit \in 0 .. UpperLimit /\ 0 \in 0 .. Duration
        BY ResistanceAssumption DEF ResistanceAssumption
      <3> QED BY <2>3, <3>1
    <2>5. serviceOutage \in BOOLEAN /\ holding \subseteq Call
      BY <2>3
    <2> QED
      BY <2>1, <2>2, <2>3, <2>4, <2>5 DEF TypeOK
  <1>2. PermitsAreReturned
    BY FS_EmptySet, ResistanceAssumption
    DEF ResistanceAssumption, Init, PermitsAreReturned
  <1>3. EndsInSeason /\ BeginsInWindow
    BY DEF Init, EndsInSeason, BeginsInWindow, BeginningPC
  <1> QED BY <1>1, <1>2, <1>3 DEF Inv

\* A step of one request in ResourceRaceBehavior takes or gives back a permit
\* together with its place among those inside, or touches neither.
LEMMA RaceStepInv ==
  ASSUME Inv, NEW c \in Call, Arrive(c) \/ RaceStep(c)
  PROVE  Inv'
  <1> USE ResistanceAssumption DEF ResistanceAssumption, IsAt, GoTo
  <1>1. TypeOK /\ PermitsAreReturned /\ EndsInSeason /\ BeginsInWindow
    BY DEF Inv
  <1>2. IsFiniteSet(holding) /\ Cardinality(holding) \in Nat
    BY <1>1, HoldingIsFinite
  <1>3. /\ IsFiniteSet(holding \cup {c}) /\ IsFiniteSet(holding \ {c})
        /\ Cardinality(holding \cup {c}) =
            IF c \in holding THEN Cardinality(holding) ELSE Cardinality(holding) + 1
        /\ Cardinality(holding \ {c}) =
            IF c \in holding THEN Cardinality(holding) - 1 ELSE Cardinality(holding)
        /\ Cardinality(holding \ {c}) \in Nat
    BY <1>2, FS_AddElement, FS_RemoveElement, FS_CardinalityType
  <1>4. UNCHANGED <<outageVars, phase, active>>
    BY DEF Arrive, RaceStep, PassUncounted, Enter, TooMany, Leave
  <1>5. /\ call' \in [Call -> CallPC]
        /\ \A d \in Call \ {c} : call'[d] = call[d]
        /\ call'[c] \notin BeginningPC
    BY <1>1
    DEF Arrive, RaceStep, PassUncounted, Enter, TooMany, Leave, TypeOK, CallPC, BeginningPC
  <1>6. EndsInSeason' /\ BeginsInWindow'
    BY <1>1, <1>4, <1>5 DEF outageVars, EndsInSeason, BeginsInWindow
  <1>7. TypeOK' /\ PermitsAreReturned'
    <2>1. CASE Arrive(c) \/ PassUncounted(c) \/ TooMany(c)
      <3>1. UNCHANGED raceVars /\ c \notin holding
        BY <1>1, <2>1
        DEF Arrive, PassUncounted, TooMany, raceVars, PermitsAreReturned, TypeOK
      <3> QED
        BY <1>1, <1>4, <1>5, <3>1
        DEF TypeOK, PermitsAreReturned, raceVars, outageVars
    <2>2. CASE Enter(c)
      <3>1. c \notin holding /\ holding' = holding \cup {c} /\ permits' = permits - 1
            /\ permits > 0 /\ call'[c] = "outage"
        BY <1>1, <2>2 DEF Enter, PermitsAreReturned, TypeOK
      <3>2. permits' + Cardinality(holding') = UpperLimit
        BY <1>1, <1>2, <1>3, <3>1 DEF TypeOK, PermitsAreReturned
      <3> QED
        BY <1>1, <1>4, <1>5, <3>1, <3>2 DEF TypeOK, PermitsAreReturned, outageVars
    <2>3. CASE Leave(c)
      <3>1. /\ holding' = holding \ {c}
            /\ permits' = IF c \in holding THEN permits + 1 ELSE permits
        BY <2>3 DEF Leave
      <3>2. permits' + Cardinality(holding') = UpperLimit
        BY <1>1, <1>2, <1>3, <3>1 DEF TypeOK, PermitsAreReturned
      <3>3. permits' \in 0 .. UpperLimit
        BY <1>1, <1>3, <3>1, <3>2 DEF TypeOK
      <3> QED
        BY <1>1, <1>4, <1>5, <3>1, <3>2, <3>3 DEF TypeOK, PermitsAreReturned, outageVars
    <2> QED BY <2>1, <2>2, <2>3 DEF RaceStep
  <1> QED BY <1>6, <1>7 DEF Inv

\* A step in OutageBehavior sets the end of the outage only where the window has
\* been seen, and takes no permit.
LEMMA OutageStepInv ==
  ASSUME Inv, NEW c \in Call, OutageStep(c)
  PROVE  Inv'
  <1> USE ResistanceAssumption DEF ResistanceAssumption, IsAt, GoTo
  <1>1. TypeOK /\ PermitsAreReturned /\ EndsInSeason /\ BeginsInWindow
    BY DEF Inv
  <1>2. /\ UNCHANGED <<raceVars, phase, active>>
        /\ serviceOutage' \in BOOLEAN
        /\ \A d \in Call \ {c} : call'[d] = call[d]
        /\ call' \in [Call -> CallPC]
        /\ call'[c] \notin {"idle", "race"}
    <2>1. /\ UNCHANGED <<raceVars, phase, active>>
          /\ serviceOutage' \in BOOLEAN
      BY <1>1
      DEF OutageStep, NoOutages, ReadOutage, ReadEnd, ReadAgain, CheckWindow,
          SetFlag, SetEnd, Clear, TypeOK, outageVars
    <2>2. \E pc \in CallPC \ {"idle", "race"} : call' = [call EXCEPT ![c] = pc]
      BY <1>1
      DEF OutageStep, NoOutages, ReadOutage, ReadEnd, ReadAgain, CheckWindow,
          SetFlag, SetEnd, Clear, CallPC
    <2> QED BY <1>1, <2>1, <2>2 DEF TypeOK
  <1>3. \/ remaining' = remaining
        \/ remaining' = Duration /\ call[c] \in BeginningPC
    BY DEF OutageStep, NoOutages, ReadOutage, ReadEnd, ReadAgain, CheckWindow,
        SetFlag, SetEnd, Clear, outageVars, BeginningPC
  <1>4. call'[c] \in BeginningPC => phase < Duration
    BY <1>1
    DEF OutageStep, NoOutages, ReadOutage, ReadEnd, ReadAgain, CheckWindow,
        SetFlag, SetEnd, Clear, BeginsInWindow, BeginningPC, TypeOK
  <1>5. TypeOK'
    BY <1>1, <1>2, <1>3 DEF TypeOK, raceVars
  <1>6. PermitsAreReturned'
    BY <1>1, <1>2 DEF PermitsAreReturned, raceVars, TypeOK
  <1>7. EndsInSeason'
    BY <1>1, <1>2, <1>3 DEF EndsInSeason, BeginsInWindow, TypeOK
  <1>8. BeginsInWindow'
    BY <1>1, <1>2, <1>4 DEF BeginsInWindow
  <1> QED BY <1>5, <1>6, <1>7, <1>8 DEF Inv

\* A tick leaves an outage in its season: what remains of it shrinks as the phase
\* grows, and nothing remains when the next window opens.
LEMMA TickInv == ASSUME Inv, Tick PROVE Inv'
  <1> USE ResistanceAssumption DEF ResistanceAssumption
  <1>1. TypeOK'
    BY DEF Inv, Tick, TypeOK, raceVars
  <1>2. PermitsAreReturned'
    BY DEF Inv, Tick, PermitsAreReturned, raceVars
  <1>3. EndsInSeason'
    BY DEF Inv, Tick, EndsInSeason, TypeOK
  <1>4. BeginsInWindow'
    BY DEF Inv, Tick, BeginsInWindow
  <1> QED BY <1>1, <1>2, <1>3, <1>4 DEF Inv

\* Every step preserves the invariant.
LEMMA StepInv == Inv /\ [Next]_vars => Inv'
  <1> SUFFICES ASSUME Inv, [Next]_vars PROVE Inv'
    OBVIOUS
  <1>1. CASE UNCHANGED vars
    BY <1>1
    DEF vars, raceVars, outageVars, Inv, TypeOK, PermitsAreReturned, EndsInSeason,
        BeginsInWindow
  <1>2. ASSUME NEW c \in Call, Arrive(c) \/ RaceStep(c) PROVE Inv'
    BY <1>2, RaceStepInv
  <1>3. ASSUME NEW c \in Call, OutageStep(c) PROVE Inv'
    BY <1>3, OutageStepInv
  <1>4. ASSUME NEW flag \in Switchable, Switch(flag) PROVE Inv'
    BY <1>4, ResistanceAssumption
    DEF ResistanceAssumption, Switch, raceVars, outageVars, Inv, TypeOK,
        PermitsAreReturned, EndsInSeason, BeginsInWindow
  <1>5. CASE Tick
    BY <1>5, TickInv
  <1> QED BY <1>1, <1>2, <1>3, <1>4, <1>5 DEF Next

LEMMA InvHolds == Spec => []Inv
  BY InitInv, StepInv, PTL DEF Spec

\* Type correctness of the middlewares' shared fields: in particular the count of
\* the semaphore stays between zero and its limit.
THEOREM ResistanceTypeCorrect == Spec => []TypeOK
  <1>1. Inv => TypeOK
    BY DEF Inv
  <1> QED BY <1>1, InvHolds, PTL

\* No permit is lost or given twice, whatever way requests leave and whenever the
\* flag is switched.
THEOREM PermitsAreReturnedHolds == Spec => []PermitsAreReturned
  <1>1. Inv => PermitsAreReturned
    BY DEF Inv
  <1> QED BY <1>1, InvHolds, PTL

\* No interleaving of requests has one refused outside the season of a window.
THEOREM OutagesKeepTheirSeasonHolds == Spec => OutagesKeepTheirSeason
  <1>1. ASSUME Inv, [Next]_vars, NEW c \in Call,
               ~IsAt(c, "refused"), IsAt(c, "refused")'
        PROVE  phase + 1 < 2 * Duration
    <2>1. ReadEnd(c)
      BY <1>1
      DEF Inv, TypeOK, Next, vars, Arrive, RaceStep, OutageStep, PassUncounted, Enter,
          TooMany, Leave, NoOutages, ReadOutage, ReadEnd, ReadAgain, CheckWindow,
          SetFlag, SetEnd, Clear, Tick, Switch, IsAt, GoTo
    <2>2. remaining > 0
      BY <1>1, <2>1 DEF ReadEnd, GoTo, IsAt, Inv, TypeOK
    <2> QED
      BY <1>1, <2>2, ResistanceAssumption
      DEF ResistanceAssumption, Inv, TypeOK, EndsInSeason
  <1>2. Inv /\ [Next]_vars =>
            [\A c \in Call :
              ~IsAt(c, "refused") /\ IsAt(c, "refused")' => phase + 1 < 2 * Duration]_vars
    BY <1>1
  <1> QED BY <1>2, InvHolds, PTL DEF Spec, OutagesKeepTheirSeason

=============================================================================
