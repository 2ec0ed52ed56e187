----------------------------- MODULE Resistance -----------------------------
(***************************************************************************)
(* The middleware of the Resistance package, which stands in front of      *)
(* HAL's audit endpoint and makes it fail on purpose.  The pipeline is     *)
(* NetworkFailure, Latency, ResourceRace, Outage, endpoint.  Any number of *)
(* requests run through it at a time and share the static fields of        *)
(* ResourceRaceBehavior and OutageBehavior without a lock; a step is one   *)
(* access to a shared field.                                               *)
(*                                                                         *)
(* NetworkFailureBehavior draws lots and LatencyBehavior waits: neither    *)
(* has state, so a request appears when it has passed them.                *)
(* DataInconsistencyBehavior is not part of UseResistance.                 *)
(***************************************************************************)
EXTENDS Naturals, FiniteSets

CONSTANTS
    Call,        \* requests in flight at a time
    UpperLimit,  \* ResourceRaceUpperLimit
    Frequency,   \* OutagePeriod.Frequency, in ticks
    Duration,    \* OutagePeriod.Duration, in ticks
    Switchable   \* flags somebody switches in appsettings.json at run time

Flag == {"ResourceRaceIsActive", "OutageIsActive"}

\* The season of an outage, twice its duration, ends before the next begins:
\* 10 seconds of 60 or 120, 30 seconds of 300.
ASSUME ResistanceAssumption ==
    /\ UpperLimit \in Nat
    /\ Duration \in Nat \ {0}
    /\ Frequency \in Nat
    /\ 2 * Duration <= Frequency
    /\ Switchable \subseteq Flag
    /\ IsFiniteSet(Call)

VARIABLES
    call,           \* call[c]: where request c is
    holding,        \* requests that have entered the semaphore
    permits,        \* the count of _semaphore
    serviceOutage,  \* _serviceOutage
    remaining,      \* ticks until _outageEndTime; 0 when it has passed
    phase,          \* seconds of the day modulo Frequency
    active          \* the flags that are set

raceVars == <<holding, permits>>
outageVars == <<serviceOutage, remaining>>
vars == <<call, raceVars, outageVars, phase, active>>

CallPC ==
    {"idle", "race", "outage", "readEnd", "readAgain", "checkWindow",
     "begin", "setFlag", "setEnd", "clear", "endpoint", "refused"}

TypeOK ==
    /\ call \in [Call -> CallPC]
    /\ holding \subseteq Call
    /\ permits \in 0 .. UpperLimit
    /\ serviceOutage \in BOOLEAN
    /\ remaining \in 0 .. Duration
    /\ phase \in 0 .. Frequency - 1
    /\ active \subseteq Flag

Init ==
    /\ call = [c \in Call |-> "idle"]
    /\ holding = {}
    /\ permits = UpperLimit
    /\ serviceOutage = FALSE
    /\ remaining = 0
    /\ phase \in 0 .. Frequency - 1
    /\ active \in SUBSET Flag

IsAt(c, pc) == call[c] = pc

GoTo(c, pc) == call' = [call EXCEPT ![c] = pc]

Arrive(c) ==
    /\ IsAt(c, "idle")
    /\ GoTo(c, "race")
    /\ UNCHANGED <<raceVars, outageVars, phase, active>>

-----------------------------------------------------------------------------
(* ResourceRaceBehavior *)

PassUncounted(c) ==
    /\ IsAt(c, "race")
    /\ "ResourceRaceIsActive" \notin active
    /\ GoTo(c, "outage")
    /\ UNCHANGED <<raceVars, outageVars, phase, active>>

\* WaitAsync(0) succeeds.
Enter(c) ==
    /\ IsAt(c, "race")
    /\ "ResourceRaceIsActive" \in active
    /\ permits > 0
    /\ permits' = permits - 1
    /\ holding' = holding \cup {c}
    /\ GoTo(c, "outage")
    /\ UNCHANGED <<outageVars, phase, active>>

\* 429 Too Many Requests, before the try block.
TooMany(c) ==
    /\ IsAt(c, "race")
    /\ "ResourceRaceIsActive" \in active
    /\ permits = 0
    /\ GoTo(c, "idle")
    /\ UNCHANGED <<raceVars, outageVars, phase, active>>

\* Variant: whether to release is decided by the flag, not by what was entered.
LeaveByFlag(c) ==
    /\ call[c] \in {"endpoint", "refused"}
    /\ permits' = IF "ResourceRaceIsActive" \in active THEN permits + 1 ELSE permits
    /\ holding' = holding \ {c}
    /\ GoTo(c, "idle")
    /\ UNCHANGED <<outageVars, phase, active>>

\* The request is over, with an answer of the endpoint, an exception of it or a
\* 503: the finally block releases what the request has entered.
Leave(c) ==
    /\ call[c] \in {"endpoint", "refused"}
    /\ permits' = IF c \in holding THEN permits + 1 ELSE permits
    /\ holding' = holding \ {c}
    /\ GoTo(c, "idle")
    /\ UNCHANGED <<outageVars, phase, active>>

-----------------------------------------------------------------------------
(* OutageBehavior *)

NoOutages(c) ==
    /\ IsAt(c, "outage")
    /\ "OutageIsActive" \notin active
    /\ GoTo(c, "endpoint")
    /\ UNCHANGED <<raceVars, outageVars, phase, active>>

\* _serviceOutage && DateTime.Now < _outageEndTime: the first operand.
ReadOutage(c) ==
    /\ IsAt(c, "outage")
    /\ "OutageIsActive" \in active
    /\ GoTo(c, IF serviceOutage THEN "readEnd" ELSE "readAgain")
    /\ UNCHANGED <<raceVars, outageVars, phase, active>>

ReadEnd(c) ==
    /\ IsAt(c, "readEnd")
    /\ GoTo(c, IF remaining > 0 THEN "refused" ELSE "readAgain")
    /\ UNCHANGED <<raceVars, outageVars, phase, active>>

ReadAgain(c) ==
    /\ IsAt(c, "readAgain")
    /\ GoTo(c, IF serviceOutage THEN "clear" ELSE "checkWindow")
    /\ UNCHANGED <<raceVars, outageVars, phase, active>>

\* Variant: the last moment of the window counts twice.
CheckWindowLate(c) ==
    /\ IsAt(c, "checkWindow")
    /\ GoTo(c, IF phase <= Duration THEN "begin" ELSE "clear")
    /\ UNCHANGED <<raceVars, outageVars, phase, active>>

CheckWindow(c) ==
    /\ IsAt(c, "checkWindow")
    /\ GoTo(c, IF phase < Duration THEN "begin" ELSE "clear")
    /\ UNCHANGED <<raceVars, outageVars, phase, active>>

\* Two plain writes, which other threads may see in either order.
SetFlag(c) ==
    /\ call[c] \in {"begin", "setFlag"}
    /\ serviceOutage' = TRUE
    /\ GoTo(c, IF IsAt(c, "begin") THEN "setEnd" ELSE "endpoint")
    /\ UNCHANGED <<raceVars, remaining, phase, active>>

SetEnd(c) ==
    /\ call[c] \in {"begin", "setEnd"}
    /\ remaining' = Duration
    /\ GoTo(c, IF IsAt(c, "begin") THEN "setFlag" ELSE "endpoint")
    /\ UNCHANGED <<raceVars, serviceOutage, phase, active>>

Clear(c) ==
    /\ IsAt(c, "clear")
    /\ serviceOutage' = FALSE
    /\ GoTo(c, "endpoint")
    /\ UNCHANGED <<raceVars, remaining, phase, active>>

-----------------------------------------------------------------------------
(* Time and configuration *)

\* No tick falls between the look at the clock and the writes that follow it.
\* Any other step may take as long as it likes.
BeginningPC == {"begin", "setFlag", "setEnd"}

Tick ==
    /\ \A c \in Call : call[c] \notin BeginningPC
    /\ phase' = IF phase + 1 = Frequency THEN 0 ELSE phase + 1
    /\ remaining' = IF remaining > 0 THEN remaining - 1 ELSE 0
    /\ UNCHANGED <<call, raceVars, serviceOutage, active>>

\* IOptionsMonitor sees a changed file at once.
Switch(flag) ==
    /\ flag \in Switchable
    /\ active' = IF flag \in active THEN active \ {flag} ELSE active \cup {flag}
    /\ UNCHANGED <<call, raceVars, outageVars, phase>>

-----------------------------------------------------------------------------

RaceStep(c) == PassUncounted(c) \/ Enter(c) \/ TooMany(c) \/ Leave(c)

OutageStep(c) ==
    \/ NoOutages(c) \/ ReadOutage(c) \/ ReadEnd(c) \/ ReadAgain(c)
    \/ CheckWindow(c) \/ SetFlag(c) \/ SetEnd(c) \/ Clear(c)

Next ==
    \/ \E c \in Call : Arrive(c) \/ RaceStep(c) \/ OutageStep(c)
    \/ \E flag \in Switchable : Switch(flag)
    \/ Tick

Spec == Init /\ [][Next]_vars

-----------------------------------------------------------------------------
(* Properties *)

\* Every request gives back what it has taken and nothing else, whatever way it
\* leaves and however often the flag is switched while it is inside: the limit
\* never drifts.
PermitsAreReturned ==
    /\ permits + Cardinality(holding) = UpperLimit
    /\ \A c \in holding : call[c] \notin {"idle", "race"}

\* However requests race for the two fields, and although an outage may be begun
\* several times in one window, nobody is refused outside the season of the
\* window: an outage begins in the first Duration ticks of every Frequency and
\* the last one is over Duration ticks later.
OutagesKeepTheirSeason ==
    [][\A c \in Call :
        ~IsAt(c, "refused") /\ IsAt(c, "refused")' => phase + 1 < 2 * Duration]_vars

\* "Produce HTTP 503 Service Unavailable 10 seconds per minute"
\* (src/SystemSergeant/Resistance/README.md:58): an outage that has begun is not
\* called off before its end.  A request that reads _serviceOutage before and
\* after another one has set it, or before its end time is set, calls it off.
OutageLasts ==
    [][serviceOutage /\ remaining > 0 => serviceOutage']_vars

=============================================================================
