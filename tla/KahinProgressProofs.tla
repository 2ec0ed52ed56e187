------------------------- MODULE KahinProgressProofs -------------------------
(***************************************************************************)
(* What the pipeline promises of a document and of a request.              *)
(*                                                                         *)
(* KahinPipeline implements DocumentProgress: what happens to the stream,  *)
(* the Worker and the retries is, seen from a document, one step forward,  *)
(* a loss, or nothing.                                                     *)
(*                                                                         *)
(* A request has one outcome at most, as long as every call that reaches   *)
(* Kahin and Home is answered with what became of it.  Crashes of          *)
(* EventHost and of the Worker, errors of HAL, an expired stream, failed   *)
(* handlers and calls to Home that fail before anything is published may   *)
(* all happen.                                                             *)
(***************************************************************************)
EXTENDS KahinPipelineProofs

-----------------------------------------------------------------------------
(* Progress of a document *)

\* The refinement mapping.
Stages == [c \in Call |-> StageOf(c)]

\* The stage of a document from its four marks.
LEMMA StageCases ==
  ASSUME NEW c
  PROVE  /\ PublishedFor(c) # {} => StageOf(c) = "reported"
         /\ PublishedFor(c) = {} /\ Waiting(c) => StageOf(c) = "waiting"
         /\ PublishedFor(c) = {} /\ Live(c) # {} /\ ~Waiting(c) => StageOf(c) = "outcome"
         /\ PublishedFor(c) = {} /\ Live(c) = {} /\ admitted[c] # 0 => StageOf(c) = "lost"
         /\ PublishedFor(c) = {} /\ Live(c) = {} /\ admitted[c] = 0 => StageOf(c) = "absent"
  <1>1. Waiting(c) => Live(c) # {}
    BY DEF Waiting
  <1> QED BY <1>1 DEF StageOf

\* The same after a step.
LEMMA StageCasesNext ==
  ASSUME NEW c
  PROVE  /\ PublishedFor(c)' # {} => StageOf(c)' = "reported"
         /\ PublishedFor(c)' = {} /\ Waiting(c)' => StageOf(c)' = "waiting"
         /\ PublishedFor(c)' = {} /\ Live(c)' # {} /\ ~Waiting(c)' => StageOf(c)' = "outcome"
         /\ PublishedFor(c)' = {} /\ Live(c)' = {} /\ admitted'[c] # 0 => StageOf(c)' = "lost"
         /\ PublishedFor(c)' = {} /\ Live(c)' = {} /\ admitted'[c] = 0 => StageOf(c)' = "absent"
  <1>1. Waiting(c)' => Live(c)' # {}
    BY DEF Waiting
  <1> QED BY <1>1 DEF StageOf

\* A document whose marks stay keeps its stage.
LEMMA StageKept ==
  ASSUME NEW c, Live(c)' = Live(c), admitted'[c] = admitted[c],
         (PublishedFor(c) = {}) <=> (PublishedFor(c)' = {})
  PROVE  StageOf(c)' = StageOf(c)
  <1>1. Waiting(c)' = Waiting(c)
    BY DEF Waiting
  <1>2. Waiting(c) => Live(c) # {}
    BY DEF Waiting
  <1> QED BY <1>1, <1>2, StageCases, StageCasesNext

\* All that is on its way of one document is one entry.
LEMMA LiveIsOne ==
  ASSUME TypeInv, OnePlace, NEW c \in Call, NEW e \in Live(c), NEW f \in Live(c)
  PROVE  e = f
  <1>1. worker.entry # None => worker.pc \in HoldingPC
    BY DEF TypeInv, WorkerOK
  <1>2. \A g \in stream : worker.entry # None /\ g.call = worker.entry.call => g = worker.entry
    BY <1>1 DEF OnePlace, Placed, HandOK
  <1> QED BY <1>2 DEF Live, OnePlace, Placed, OneEntry

\* A document that disappears is lost, unless its outcome was published before.
LEMMA Disappears ==
  ASSUME TypeInv, OnePlace, InTurn, NEW c \in Call,
         Live(c)' \subseteq Live(c), admitted'[c] = admitted[c],
         PublishedFor(c)' = PublishedFor(c)
  PROVE  \/ StageOf(c)' = StageOf(c)
         \/ StageOf(c) \in {"waiting", "outcome"} /\ StageOf(c)' = "lost"
  <1>1. CASE Live(c)' = Live(c)
    BY <1>1, StageKept
  <1>2. CASE Live(c)' # Live(c)
    <2>1. PICK e \in Live(c) : e \notin Live(c)'
      BY <1>2
    <2>2. Live(c)' = {}
      BY <2>1, LiveIsOne
    <2>3. admitted[c] # 0
      BY <2>1, AliveType DEF InTurn, EntriesAreAdmitted
    <2> QED BY <2>1, <2>2, <2>3, StageCases, StageCasesNext
  <1> QED BY <1>1, <1>2

\* Several documents may disappear in one step.
LEMMA LosesProgress ==
  ASSUME \A c \in Call :
            \/ StageOf(c)' = StageOf(c)
            \/ StageOf(c) \in {"waiting", "outcome"} /\ StageOf(c)' = "lost"
  PROVE  Progress!Next
  <1> DEFINE lost == {c \in Call : StageOf(c)' # StageOf(c)}
  <1>1. lost \in SUBSET Call
    OBVIOUS
  <1>2. \A c \in lost : Stages[c] \in {"waiting", "outcome"}
    BY DEF Stages
  <1>3. Stages' = [c \in Call |-> IF c \in lost THEN "lost" ELSE Stages[c]]
    BY DEF Stages
  <1>4. Progress!Lose(lost)
    BY <1>2, <1>3, Zenon DEF Progress!Lose, Stages
  <1> QED BY <1>1, <1>4 DEF Progress!Next

\* One document moves and the others stay.
LEMMA MovesProgress ==
  ASSUME NEW c \in Call, NEW from, NEW to, StageOf(c) = from, StageOf(c)' = to,
         \A d \in Call : d # c => StageOf(d)' = StageOf(d)
  PROVE  Progress!Moves(c, from, to)
  <1>1. Stages[c] = from /\ Stages' = [Stages EXCEPT ![c] = to]
    BY DEF Stages
  <1> QED BY <1>1, Zenon DEF Progress!Moves, Stages

\* The first entry of a document: from "absent" to "waiting" or "outcome".
LEMMA RecordsProgress ==
  ASSUME TypeInv, OnePlace, InTurn, NEW c \in Call, Records(c)
  PROVE  Progress!Next
  <1>1. PICK n \in Entry : /\ n.call = c /\ stream' = stream \cup {n}
                           /\ n.id = lastId + 1 /\ lastId' = lastId + 1
                           /\ n.type \in {"ReportRequested", "AuditFail"}
    BY NewEntry DEF Records, TypeInv, TypeOK, EntryType
  <1>2. Unseen(c)
    BY DEF Records, OnePlace, UnrecordedIsUnseen
  <1>3. UNCHANGED <<worker, published>>
        /\ \A d \in Call : d # c => admitted'[d] = admitted[d]
    BY DEF Records, TypeInv, TypeOK
  <1>4. \A d \in Call : d # c => Live(d)' = Live(d)
    BY <1>1, <1>3 DEF Live
  <1>5. \A d \in Call : PublishedFor(d)' = PublishedFor(d)
    BY <1>3 DEF PublishedFor
  <1>6. \A d \in Call : d # c => StageOf(d)' = StageOf(d)
    BY <1>3, <1>4, <1>5, StageKept
  <1>7. StageOf(c) = "absent"
    BY <1>2, StageCases DEF Unseen
  <1>8. Live(c)' = {n}
    BY <1>1, <1>2, <1>3, NoneIsNoEntry DEF Unseen, Live
  <1>9. StageOf(c)' \in {"waiting", "outcome"}
    BY <1>2, <1>5, <1>8, StageCasesNext DEF Unseen
  <1>10. Progress!Moves(c, "absent", StageOf(c)')
    BY <1>6, <1>7, MovesProgress
  <1> QED BY <1>9, <1>10, Zenon DEF Progress!Record, Progress!Next

\* The prepared report: from "waiting" to "outcome".
LEMMA PreparesProgress ==
  ASSUME TypeInv, OnePlace, InTurn, Prepares
  PROVE  Progress!Next
  <1>1. PICK w \in Entry : /\ w = worker.entry /\ w.type = "ReportRequested"
                           /\ w.call \in Call /\ w # None
    BY NoneIsNoEntry DEF Prepares, TypeInv, WorkerOK, HoldingPC, Entry
  <1>2. PICK n \in Entry : /\ n.call = w.call /\ n.type = "ReportReady"
                           /\ stream' = stream \cup {n}
    BY <1>1, NewEntry DEF Prepares, TypeInv, TypeOK, EntryType
  <1>3. worker'.entry = None /\ UNCHANGED <<admitted, published>>
    BY RestType DEF Prepares
  <1>4. \A e \in stream : e.call # w.call
    BY <1>1 DEF Prepares, OnePlace, Placed, HandOK, HoldingPC
  <1>5. \A d \in Call : d # w.call => Live(d)' = Live(d)
    BY <1>1, <1>2, <1>3 DEF Live
  <1>6. Live(w.call)' = {n}
    BY <1>2, <1>3, <1>4, NoneIsNoEntry DEF Live
  <1>7. \A d \in Call : PublishedFor(d)' = PublishedFor(d)
    BY <1>3 DEF PublishedFor
  <1>8. PublishedFor(w.call) = {}
    BY <1>1 DEF Prepares, OnePlace, Placed, LiveIsUnpublished
  <1>9. \A d \in Call : d # w.call => StageOf(d)' = StageOf(d)
    BY <1>3, <1>5, <1>7, StageKept
  <1>10. Waiting(w.call) /\ ~Waiting(w.call)'
    BY <1>1, <1>2, <1>6, LiveMember DEF Waiting
  <1>11. StageOf(w.call) = "waiting" /\ StageOf(w.call)' = "outcome"
    BY <1>1, <1>6, <1>7, <1>8, <1>10, StageCases, StageCasesNext
  <1>12. Progress!Moves(w.call, "waiting", "outcome")
    BY <1>1, <1>9, <1>11, MovesProgress
  <1> QED BY <1>1, <1>12, Zenon DEF Progress!Prepare, Progress!Next

\* An attempt to send: from "outcome" to "reported" when it makes Home publish
\* for the first time; a later copy changes nothing, and a document that is
\* given up without any is lost.
LEMMA TriesProgress ==
  ASSUME TypeInv, OnePlace, InTurn, Tries
  PROVE  Progress!Next \/ UNCHANGED Stages
  <1>1. PICK w \in Entry : /\ w = worker.entry /\ w.type # "ReportRequested"
                           /\ w.call \in Call /\ w # None
    BY NoneIsNoEntry DEF Tries, TypeInv, WorkerOK, HoldingPC, Entry
  <1>2. UNCHANGED <<stream, admitted>> /\ worker'.entry \in {w, None}
    BY <1>1, RestType DEF Tries, TypeInv, TypeOK, WorkerState
  <1>3. \A c \in Call : Live(c)' \subseteq Live(c)
    BY <1>1, <1>2 DEF Live
  <1>4. CASE published' = published
    <2>1. \A c \in Call : PublishedFor(c)' = PublishedFor(c)
      BY <1>4 DEF PublishedFor
    <2> QED BY <1>2, <1>3, <2>1, Disappears, LosesProgress
  <1>5. CASE published' = published \cup {Outcome}
    <2>1. Outcome.call = w.call
      BY <1>1, OutcomeType DEF Tries
    <2>2. \A c \in Call : c # w.call => PublishedFor(c)' = PublishedFor(c)
      BY <1>5, <2>1 DEF PublishedFor
    <2>3. \A c \in Call : c # w.call => Live(c)' = Live(c)
      BY <1>1, <1>2 DEF Live
    <2>4. \A c \in Call : c # w.call => StageOf(c)' = StageOf(c)
      BY <1>2, <2>2, <2>3, StageKept
    <2>5. PublishedFor(w.call)' # {}
      BY <1>5, <2>1 DEF PublishedFor
    <2>6. StageOf(w.call)' = "reported"
      BY <2>5, StageCasesNext
    <2>7. CASE PublishedFor(w.call) # {}
      <3>1. \A c \in Call : StageOf(c)' = StageOf(c)
        BY <2>4, <2>6, <2>7, StageCases
      <3> QED BY <3>1 DEF Stages
    <2>8. CASE PublishedFor(w.call) = {}
      <3>1. w \in Live(w.call)
        BY <1>1, LiveMember
      <3>2. ~Waiting(w.call)
        BY <1>1, <3>1, LiveIsOne DEF Waiting
      <3>3. StageOf(w.call) = "outcome"
        BY <2>8, <3>1, <3>2, StageCases
      <3>4. Progress!Moves(w.call, "outcome", "reported")
        BY <1>1, <2>4, <2>6, <3>3, MovesProgress
      <3> QED BY <1>1, <3>4, Zenon DEF Progress!Report, Progress!Next
    <2> QED BY <2>7, <2>8
  <1> QED BY <1>4, <1>5 DEF Tries

\* Every step of the pipeline is a step of DocumentProgress, or none.
LEMMA StepProgress ==
  PipelineInductive /\ [Next]_vars => Progress!Next \/ UNCHANGED Stages
  <1> SUFFICES ASSUME PipelineInductive, [Next]_vars
               PROVE  Progress!Next \/ UNCHANGED Stages
    OBVIOUS
  <1> USE DEF PipelineInductive
  <1>1. CASE Sheds
    <2>1. \A c \in Call : Live(c)' \subseteq Live(c) /\ PublishedFor(c)' = PublishedFor(c)
      BY <1>1, RestType DEF Sheds, Live, PublishedFor
    <2>2. \A c \in Call : admitted'[c] = admitted[c]
      BY <1>1 DEF Sheds
    <2> QED BY <2>1, <2>2, Disappears, LosesProgress
  <1>2. CASE ReadEntry \/ DeleteEntry
    <2>1. \A c \in Call : Live(c)' = Live(c)
      BY <1>2, ReadEntryType, DeleteEntryType DEF Live
    <2>2. UNCHANGED <<admitted, published>>
      BY <1>2, ReadEntryType, DeleteEntryType
    <2>3. \A c \in Call : PublishedFor(c)' = PublishedFor(c)
      BY <2>2 DEF PublishedFor
    <2>4. \A c \in Call : StageOf(c)' = StageOf(c)
      BY <2>1, <2>2, <2>3, StageKept
    <2> QED BY <2>4 DEF Stages
  <1>3. ASSUME NEW c \in Call, Records(c) PROVE Progress!Next
    BY <1>3, RecordsProgress
  <1>4. CASE Prepares
    BY <1>4, PreparesProgress
  <1>5. CASE Tries
    BY <1>5, TriesProgress
  <1> QED BY <1>1, <1>2, <1>3, <1>4, <1>5, StepEffect DEF Effect

\* At first every document is absent.
LEMMA InitProgress == Init => Progress!Init
  <1> SUFFICES ASSUME Init PROVE Progress!Init
    OBVIOUS
  <1>1. \A c \in Call : StageOf(c) = "absent"
    <2> SUFFICES ASSUME NEW c \in Call PROVE StageOf(c) = "absent"
      OBVIOUS
    <2>1. Live(c) = {} /\ PublishedFor(c) = {} /\ admitted[c] = 0
      BY RestType DEF Init, Live, PublishedFor
    <2> QED BY <2>1, StageCases
  <1> QED BY <1>1 DEF Progress!Init

\* The pipeline implements DocumentProgress: a document only goes forward or is
\* lost, and a lost or reported one never comes back.
THEOREM ImplementsProgress == Spec => KeepsProgress
  <1>1. PipelineInductive /\ [Next]_vars => [Progress!Next]_Stages
    BY StepProgress
  <1> QED
    BY <1>1, InitProgress, PipelineInductiveHolds, PTL
    DEF Spec, KeepsProgress, Progress!ProgressSpec, Stages

-----------------------------------------------------------------------------
(* One outcome of a request *)


\* A call of a request is a pair.
LEMMA CallPair ==
  /\ \A r \in Request : \A n \in Attempt : <<r, n>> \in Call
  /\ \A c \in Call : /\ c[1] \in Request /\ c[2] \in Attempt
                     /\ c = <<c[1], c[2]>>
  BY DEF Call

\* A call is made only after the one before it has failed in truth.
LEMMA AttemptsStep ==
  ASSUME EveryCallIsAnswered, TypeInv, AttemptsInTurn, [Next]_vars
  PROVE  AttemptsInTurn'
  <1> USE DEF AttemptsInTurn
  <1>1. /\ driver \in [Request -> DriverPC]
        /\ attempt \in [Request -> 0 .. MaxAttempts]
        /\ gateway \in [Call -> GatewayPC]
        /\ Attempt \subseteq Nat
    BY DEF TypeInv, TypeOK, Attempt
  <1>2. /\ "request" \notin Faults
        /\ "redis" \notin Faults
    BY DEF EveryCallIsAnswered
  <1>3. ASSUME NEW r \in Request, Submit(r) \/ PostAnswered(r) \/ PostGivenUp(r)
        PROVE  AttemptsInTurn'
    <2>1. UNCHANGED <<attempt, gateway>>
      BY <1>3 DEF Submit, PostAnswered, PostGivenUp, kahinVars
    <2>2. \A q \in Request :
            driver'[q] \in {"new", "queued"} => driver[q] \in {"new", "queued"}
      BY <1>1, <1>3 DEF Submit, PostAnswered, PostGivenUp
    <2> QED BY <2>1, <2>2
  <1>4. ASSUME NEW r \in Request, Post(r) PROVE AttemptsInTurn'
    <2>1. UNCHANGED gateway /\ attempt[r] = 0
      BY <1>4 DEF Post, kahinVars
    <2>2. /\ attempt'[r] = 1 /\ driver'[r] = "posting"
          /\ \A q \in Request : q # r =>
                attempt'[q] = attempt[q] /\ driver'[q] = driver[q]
      BY <1>1, <1>4 DEF Post
    <2>3. \A n \in Attempt : n \in Nat /\ n >= 1
      BY DEF Attempt
    <2> QED BY <1>1, <2>1, <2>2, <2>3
  <1>5. ASSUME NEW r \in Request, PostAgain(r) PROVE AttemptsInTurn'
    <2>1. UNCHANGED <<gateway, driver>> /\ driver[r] = "posting"
      BY <1>5 DEF PostAgain, PostFailed, kahinVars
    <2>2. gateway[<<r, attempt[r]>>] = "failed"
      BY <1>2, <1>5 DEF PostAgain, PostFailed, CallOf
    <2>3. /\ attempt'[r] = attempt[r] + 1 /\ attempt[r] \in Nat
          /\ \A q \in Request : q # r => attempt'[q] = attempt[q]
      BY <1>1, <1>5 DEF PostAgain
    <2>4. ASSUME NEW n \in Attempt
          PROVE  /\ n > attempt'[r] => gateway[<<r, n>>] = "none"
                 /\ n < attempt'[r] => gateway[<<r, n>>] = "failed"
      <3>1. CASE n = attempt[r]
        BY <1>1, <2>2, <2>3, <3>1
      <3>2. CASE n # attempt[r]
        BY <1>1, <2>3, <3>2
      <3> QED BY <3>1, <3>2
    <2> QED BY <2>1, <2>3, <2>4
  <1>6. ASSUME NEW r \in Request, ReceivePost(r) PROVE AttemptsInTurn'
    <2>1. UNCHANGED <<driver, attempt>>
      BY <1>6 DEF ReceivePost, homeVars
    <2>2. \A c \in Call : c # <<r, attempt[r]>> => gateway'[c] = gateway[c]
      BY <1>1, <1>6 DEF ReceivePost, GatewayGoes, CallOf
    <2>3. \A q \in Request : \A n \in Attempt :
            n # attempt[q] => gateway'[<<q, n>>] = gateway[<<q, n>>]
      BY <2>2, CallPair
    <2> QED BY <1>1, <2>1, <2>3
  <1>7. ASSUME NEW c \in Call, GatewayStep(c) PROVE AttemptsInTurn'
    <2>1. UNCHANGED <<driver, attempt>> /\ gateway[c] \notin {"none", "failed"}
      BY <1>7
      DEF GatewayStep, Audited, Verdict, AuditAnswersError, AuditThrows, Record, RecordThrows,
          homeVars
    <2>2. \A d \in Call : d # c => gateway'[d] = gateway[d]
      BY <1>1, <1>7
      DEF GatewayStep, Audited, Verdict, AuditAnswersError, AuditThrows, Record, RecordThrows,
          GatewayGoes
    <2>3. \A q \in Request : \A n \in Attempt :
            n # attempt[q] => gateway'[<<q, n>>] = gateway[<<q, n>>]
      <3> SUFFICES ASSUME NEW q \in Request, NEW n \in Attempt, n # attempt[q]
                   PROVE  gateway'[<<q, n>>] = gateway[<<q, n>>]
        OBVIOUS
      <3>1. attempt[q] \in Nat /\ n \in Nat
        BY <1>1
      <3>2. gateway[<<q, n>>] \in {"none", "failed"}
        BY <3>1
      <3> QED BY <2>1, <2>2, <3>2, CallPair
    <2> QED BY <1>1, <2>1, <2>3
  <1>8. CASE CrashEventHost \/ StartEventHost
    <2>1. UNCHANGED <<attempt, gateway>>
      BY <1>8 DEF CrashEventHost, StartEventHost, EventHostStops, kahinVars
    <2>2. \A q \in Request : driver'[q] \in {driver[q], "failed"}
      BY <1>8 DEF CrashEventHost, StartEventHost, EventHostStops
    <2> QED BY <2>1, <2>2
  <1>9. ASSUME WorkerStep \/ CrashWorker \/ StartWorker \/ StreamExpires
               \/ \E m \in queue : HandlerStep(m)
        PROVE  AttemptsInTurn'
    <2>1. UNCHANGED <<driver, attempt, gateway>>
      BY <1>9
      DEF WorkerStep, CrashWorker, StartWorker, StreamExpires, HandlerStep, Handle,
          HandleFails, ReadEntry, DeleteEntry, Prepare, Send, SendAgain, SendThrows,
          WorkerRedisThrows, homeVars, kahinVars
    <2> QED BY <2>1
  <1>10. CASE UNCHANGED vars
    BY <1>10 DEF vars, homeVars, kahinVars
  <1>11. \A r \in Request : ~PostThrows(r)
    BY <1>2 DEF PostThrows
  <1>12. \A c \in Call : ~GatewayStops(c)
    BY <1>2 DEF GatewayStops
  <1> QED
    BY <1>3, <1>4, <1>5, <1>6, <1>7, <1>8, <1>9, <1>10, <1>11, <1>12
    DEF Next, DriverStep

\* The gateway answers 500 only before it writes anything.
LEMMA FailedStep ==
  ASSUME EveryCallIsAnswered, TypeInv, OnePlace, FailedIsUnseen, [Next]_vars
  PROVE  FailedIsUnseen'
  <1> SUFFICES ASSUME NEW c \in Call, gateway'[c] = "failed" PROVE Unseen(c)'
    BY DEF FailedIsUnseen
  <1>1. Effect
    BY StepEffect
  <1>2. gateway \in [Call -> GatewayPC]
    BY DEF TypeInv, TypeOK
  <1>3. CASE gateway[c] = "failed"
    <2>1. Unseen(c) /\ ~Records(c)
      BY <1>3 DEF FailedIsUnseen, Records, UnrecordedPC
    <2> QED BY <1>1, <2>1, UnseenStays
  <1>4. CASE gateway[c] # "failed"
    <2>1. AuditThrows(c)
      <3>1. \A d \in Call : ~GatewayStops(d) /\ ~RecordThrows(d)
        BY DEF EveryCallIsAnswered, GatewayStops, RecordThrows
      <3>2. ASSUME NEW r \in Request, Submit(r) \/ DriverStep(r)
            PROVE  gateway'[c] \in {gateway[c], "validating"}
        BY <1>2, <3>2
        DEF DriverStep, Submit, Post, ReceivePost, PostAnswered, PostAgain, PostGivenUp,
            PostThrows, EventHostStops, GatewayGoes, kahinVars
      <3>3. UNCHANGED gateway => FALSE
        BY <1>4
      <3>4. ~(WorkerStep \/ CrashWorker \/ StartWorker \/ StreamExpires
              \/ CrashEventHost \/ StartEventHost \/ \E m \in queue : HandlerStep(m)) /\ ~UNCHANGED vars
        BY <3>3
        DEF WorkerStep, CrashWorker, StartWorker, StreamExpires, HandlerStep, Handle,
            HandleFails, ReadEntry, DeleteEntry, Prepare, Send, SendAgain, SendThrows,
            WorkerRedisThrows, CrashEventHost, StartEventHost, EventHostStops, kahinVars,
            vars
      <3>5. PICK d \in Call : GatewayStep(d)
        BY <1>4, <3>1, <3>2, <3>4 DEF Next
      <3>6. AuditThrows(d) /\ d = c
        BY <1>2, <1>4, <3>1, <3>5
        DEF GatewayStep, Audited, Verdict, AuditAnswersError, AuditThrows, Record, GatewayGoes
      <3> QED BY <3>6
    <2>2. Unseen(c)
      BY <2>1 DEF AuditThrows, OnePlace, UnrecordedIsUnseen, UnrecordedPC
    <2>3. ~Records(c)
      BY <2>1 DEF AuditThrows, Records, Add, TypeInv, TypeOK
    <2> QED BY <1>1, <2>2, <2>3, UnseenStays
  <1> QED BY <1>3, <1>4

\* What was published is not sent again.
LEMMA PublishedOnceStep ==
  ASSUME "answer" \notin Faults, TypeInv, OnePlace, PublishedOnce, [Next]_vars
  PROVE  PublishedOnce'
  <1>1. Effect
    BY StepEffect
  <1>2. CASE Sheds
    <2>1. UNCHANGED published /\ (worker' = worker \/ worker'.pc # "sending")
      BY <1>2, RestType DEF Sheds, HoldingPC
    <2> QED BY <2>1 DEF PublishedOnce, PublishedFor
  <1>3. ASSUME NEW c \in Call, Records(c) PROVE PublishedOnce'
    BY <1>3 DEF Records, PublishedOnce, PublishedFor
  <1>4. CASE ReadEntry
    <2>1. UNCHANGED published /\ worker'.pc # "sending"
      BY <1>4, ReadEntryType
    <2> QED BY <2>1 DEF PublishedOnce
  <1>5. CASE DeleteEntry
    <2>1. UNCHANGED published /\ worker'.entry = worker.entry /\ worker.pc = "popping"
      BY <1>5, DeleteEntryType
    <2>2. PublishedFor(worker.entry.call)' = {}
      BY <2>1 DEF OnePlace, Placed, LiveIsUnpublished, PublishedFor
    <2> QED BY <2>1, <2>2 DEF PublishedOnce
  <1>6. CASE Prepares
    <2>1. UNCHANGED published /\ worker'.pc # "sending"
      BY <1>6, RestType DEF Prepares, HoldingPC
    <2> QED BY <2>1 DEF PublishedOnce
  <1>7. CASE Tries
    <2>1. PICK w \in Entry : w = worker.entry
      BY <1>7 DEF Tries, TypeInv, WorkerOK, HoldingPC
    <2>2. PublishedFor(w.call) = {}
      BY <1>7, <2>1 DEF Tries, PublishedOnce
    <2>3. worker'.pc = "sending" => worker'.entry = w
      BY <1>7, <2>1, RestType DEF Tries, TypeInv, TypeOK, WorkerState, HoldingPC
    <2>4. CASE published' = published
      <3>1. worker'.pc = "sending" => PublishedFor(worker.entry.call)' = {}
        BY <2>2, <2>3, <2>4 DEF PublishedFor
      <3> QED BY <2>4, <3>1 DEF PublishedOnce
    <2>5. CASE published' = published \cup {Outcome} /\ worker' = Resting
      <3>1. worker'.pc # "sending"
        BY <2>5, RestType DEF HoldingPC
      <3>2. Outcome.call = w.call
        BY <1>7, <2>1, OutcomeType DEF Tries
      <3>3. \A m \in published : m.call # Outcome.call
        BY <2>2, <3>2 DEF PublishedFor
      <3>4. (\A m, n \in published : m.call = n.call => m = n)'
        BY <2>5, <3>3 DEF PublishedOnce
      <3> QED BY <3>1, <3>4 DEF PublishedOnce
    <2> QED BY <1>7, <2>4, <2>5 DEF Tries
  <1> QED BY <1>1, <1>2, <1>3, <1>4, <1>5, <1>6, <1>7 DEF Effect

\* Of no document is an event published twice, while no answer of Home's gateway is
\* lost: not by the retries of NewReportRequest or of the Worker, whatever Redis, the
\* Worker and EventHost do.  ReportLifecycle says what this means for the store
\* (DuplicateReady).
THEOREM PublishedOnceHolds ==
  ASSUME "answer" \notin Faults
  PROVE  Spec => []PublishedOnce
  <1>1. Init => PipelineInductive /\ PublishedOnce
    BY TypeInit, OnePlaceInit, InTurnInit DEF PipelineInductive, Init, Resting, PublishedOnce
  <1>2. PipelineInductive /\ PublishedOnce /\ [Next]_vars
          => (PipelineInductive /\ PublishedOnce)'
    BY TypeStep, OnePlaceStep, InTurnStep, PublishedOnceStep DEF PipelineInductive
  <1> QED BY <1>1, <1>2, PTL DEF Spec

\* While every caller learns whether its call had its effect, drivers call again only
\* after a call that left no trace, and every request has one outcome at most.
THEOREM OutcomeInductiveHolds ==
  ASSUME EveryCallIsAnswered
  PROVE  Spec => []OutcomeInductive
  <1>1. Init => OutcomeInductive
    <2> SUFFICES ASSUME Init PROVE OutcomeInductive
      OBVIOUS
    <2>1. AttemptsInTurn
      <3>1. \A r \in Request : attempt[r] = 0
        BY DEF Init
      <3>2. \A c \in Call : gateway[c] = "none"
        BY DEF Init
      <3>3. \A r \in Request : \A n \in Attempt : gateway[<<r, n>>] = "none"
        BY <3>2, CallPair
      <3>4. \A n \in Attempt : ~(n < 0)
        BY DEF Attempt
      <3> QED BY <3>1, <3>3, <3>4 DEF AttemptsInTurn
    <2>2. FailedIsUnseen
      BY DEF Init, FailedIsUnseen
    <2>3. PublishedOnce
      BY DEF Init, Resting, PublishedOnce
    <2>4. PipelineInductive
      BY TypeInit, OnePlaceInit, InTurnInit DEF PipelineInductive
    <2> QED BY <2>1, <2>2, <2>3, <2>4 DEF OutcomeInductive
  <1>2. OutcomeInductive /\ [Next]_vars => OutcomeInductive'
    BY TypeStep, OnePlaceStep, InTurnStep, AttemptsStep, FailedStep, PublishedOnceStep
    DEF OutcomeInductive, PipelineInductive, EveryCallIsAnswered
  <1> QED BY <1>1, <1>2, PTL DEF Spec

\* A request has one outcome at most: no crash, refusal or loss makes it two, as
\* long as whoever calls learns what became of the call.
THEOREM OneOutcomeHolds ==
  ASSUME EveryCallIsAnswered
  PROVE  Spec => []OneOutcome
  <1>1. OutcomeInductive => OneOutcome
    <2> SUFFICES ASSUME OutcomeInductive, NEW m \in published, NEW n \in published,
                        m.call[1] = n.call[1]
                 PROVE  m = n
      BY DEF OneOutcome
    <2>1. m.call \in Call /\ n.call \in Call
      BY DEF OutcomeInductive, PipelineInductive, TypeInv, TypeOK, Event
    <2>2. ASSUME NEW e \in published, e.call \in Call
          PROVE  e.call = <<e.call[1], attempt[e.call[1]]>>
      <3>1. PublishedFor(e.call) # {}
        BY DEF PublishedFor
      <3>2. gateway[e.call] \notin {"none", "failed"}
        BY <2>2, <3>1
        DEF OutcomeInductive, PipelineInductive, OnePlace, UnrecordedIsUnseen,
            UnrecordedPC, FailedIsUnseen, Unseen
      <3>3. /\ e.call[1] \in Request /\ e.call[2] \in Attempt
            /\ e.call = <<e.call[1], e.call[2]>>
        BY <2>2, CallPair
      <3>4. ~(e.call[2] > attempt[e.call[1]]) /\ ~(e.call[2] < attempt[e.call[1]])
        BY <3>2, <3>3 DEF OutcomeInductive, AttemptsInTurn
      <3>5. e.call[2] \in Nat /\ attempt[e.call[1]] \in Nat
        BY <3>3 DEF OutcomeInductive, PipelineInductive, TypeInv, TypeOK, Attempt
      <3>6. e.call[2] = attempt[e.call[1]]
        BY <3>4, <3>5
      <3> QED BY <3>3, <3>6
    <2>3. m.call = n.call
      BY <2>1, <2>2
    <2> QED BY <2>3 DEF OutcomeInductive, PublishedOnce
  <1> QED BY <1>1, OutcomeInductiveHolds, PTL

=============================================================================
