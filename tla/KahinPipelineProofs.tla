------------------------- MODULE KahinPipelineProofs -------------------------
(***************************************************************************)
(* Proofs about KahinPipeline, for every set of requests, any number of    *)
(* attempts and every choice of failures.                                  *)
(*                                                                         *)
(* The invariants speak of the gateway, the stream, the ids it gave, the   *)
(* Worker and what Home published.  Each of the two dozen actions has one  *)
(* of six effects on them (StepEffect), and the invariants are proved per  *)
(* effect.                                                                 *)
(***************************************************************************)
EXTENDS KahinPipelineInvariant, FiniteSetTheorems, TLAPS

-----------------------------------------------------------------------------
(* The effects of a step *)

\* No step makes a call that was recorded or failed begin again.
GatewayKept ==
    \A c \in Call : gateway'[c] \in UnrecordedPC => gateway[c] \in UnrecordedPC

\* Entries vanish, the Worker ends or starts, or nothing happens here.
Sheds ==
    /\ stream' \subseteq stream
    /\ worker' \in {worker, Resting, Down}
    /\ UNCHANGED <<lastId, admitted, published>>

\* The gateway writes the first entry of a call.
Records(c) ==
    /\ gateway[c] \in UnrecordedPC
    /\ gateway'[c] \notin UnrecordedPC
    /\ Add("ReportRequested", c) \/ Add("AuditFail", c)
    /\ admitted' = [admitted EXCEPT ![c] = lastId']
    /\ UNCHANGED <<worker, published>>

\* The prepared report is written, whether or not the Worker survives it.
Prepares ==
    /\ worker.pc = "preparing"
    /\ Add("ReportReady", worker.entry.call)
    /\ worker' \in {Resting, Down}
    /\ UNCHANGED <<admitted, published>>

\* One attempt to send an outcome.
Tries ==
    /\ worker.pc = "sending"
    /\ published' \in {published, published \cup {Outcome}}
    /\ "answer" \notin Faults => published' = published \/ worker' = Resting
    /\ \/ worker' \in {Resting, Down}
       \/ /\ worker.attempt < MaxAttempts
          /\ worker' = [worker EXCEPT !.attempt = @ + 1]
    /\ UNCHANGED <<stream, lastId, admitted>>

Effect ==
    /\ GatewayKept
    /\ \/ Sheds
       \/ \E c \in Call : Records(c)
       \/ ReadEntry
       \/ DeleteEntry
       \/ Prepares
       \/ Tries

\* The steps of EventHost's driver leave Kahin's stream and Worker alone.
LEMMA DriverEffect ==
  ASSUME TypeInv, NEW r \in Request, Submit(r) \/ DriverStep(r)
  PROVE  GatewayKept /\ Sheds
  <1>1. CASE ReceivePost(r)
    BY <1>1
    DEF ReceivePost, GatewayGoes, GatewayKept, Sheds, eventVars, TypeInv, TypeOK,
        UnrecordedPC
  <1>2. CASE PostThrows(r)
    BY <1>2 DEF PostThrows, EventHostStops, GatewayKept, Sheds, kahinVars
  <1>3. CASE \/ Submit(r) \/ Post(r) \/ PostAnswered(r) \/ PostAgain(r)
             \/ PostGivenUp(r)
    BY <1>3
    DEF Submit, Post, PostAnswered, PostAgain, PostGivenUp, GatewayKept, Sheds,
        kahinVars, eventVars
  <1> QED BY <1>1, <1>2, <1>3 DEF DriverStep

\* A step of the gateway writes the outcome of its call to the stream, or leaves
\* stream and Worker alone.
LEMMA GatewayEffect ==
  ASSUME TypeInv, NEW c \in Call, GatewayStep(c) \/ GatewayStops(c)
  PROVE  GatewayKept /\ (Sheds \/ Records(c))
  <1> USE DEF GatewayGoes, UnrecordedPC, eventVars
  <1>1. gateway \in [Call -> GatewayPC]
    BY DEF TypeInv, TypeOK
  <1>2. GatewayKept
    BY <1>1
    DEF GatewayStep, GatewayStops, Audited, Verdict, AuditAnswersError, AuditThrows, Record,
        RecordThrows, GatewayKept
  <1>3. ASSUME Add(OutcomeOf(c), c) PROVE Add("ReportRequested", c) \/ Add("AuditFail", c)
    BY <1>3, Zenon DEF OutcomeOf
  <1>4. CASE Record(c)
    <2>1. /\ gateway[c] \in UnrecordedPC
          /\ Add(OutcomeOf(c), c)
          /\ admitted' = [admitted EXCEPT ![c] = lastId']
          /\ UNCHANGED <<worker, published>>
      BY <1>4 DEF Record
    <2>2. gateway'[c] \notin UnrecordedPC
      BY <1>1, <1>4 DEF Record
    <2> QED BY <1>2, <1>3, <2>1, <2>2, Zenon DEF Records
  <1>5. CASE RecordThrows(c)
    <2>1. /\ gateway[c] \in UnrecordedPC
          /\ UNCHANGED <<worker, published>>
          /\ \/ UNCHANGED <<stream, lastId, admitted>>
             \/ Add(OutcomeOf(c), c) /\ admitted' = [admitted EXCEPT ![c] = lastId']
      BY <1>5 DEF RecordThrows
    <2>2. gateway'[c] \notin UnrecordedPC
      BY <1>1, <1>5 DEF RecordThrows
    <2>3. CASE UNCHANGED <<stream, lastId, admitted>>
      BY <1>2, <2>1, <2>3 DEF Sheds
    <2>4. CASE Add(OutcomeOf(c), c) /\ admitted' = [admitted EXCEPT ![c] = lastId']
      BY <1>2, <1>3, <2>1, <2>2, <2>4, Zenon DEF Records
    <2> QED BY <2>1, <2>3, <2>4
  <1>6. CASE \/ Audited(c) \/ AuditAnswersError(c) \/ AuditThrows(c)
             \/ GatewayStops(c)
    <2>1. UNCHANGED <<stream, lastId, admitted, worker, published>>
      BY <1>6 DEF Audited, Verdict, AuditAnswersError, AuditThrows, GatewayStops
    <2> QED BY <1>2, <2>1 DEF Sheds
  <1> QED BY <1>4, <1>5, <1>6, Zenon DEF GatewayStep

\* The steps of the Worker, and its end and restart.
LEMMA WorkerEffect ==
  ASSUME TypeInv, WorkerStep \/ CrashWorker \/ StartWorker
  PROVE  Effect
  <1>1. GatewayKept
    BY DEF WorkerStep, CrashWorker, StartWorker, ReadEntry, DeleteEntry, Prepare, Send,
           SendAgain, SendThrows, WorkerRedisThrows, GatewayKept, kahinVars
  <1>2. CASE ReadEntry \/ DeleteEntry
    BY <1>1, <1>2 DEF Effect
  <1>3. CASE Prepare
    BY <1>1, <1>3 DEF Prepare, Effect, Prepares, eventVars
  <1>4. CASE Send
    BY <1>1, <1>4 DEF Send, Publish, Effect, Tries, kahinVars
  <1>5. CASE SendAgain
    BY <1>1, <1>5
    DEF SendAgain, SendAttemptFails, Publish, Effect, Tries, kahinVars, eventVars
  <1>6. CASE SendThrows
    BY <1>1, <1>6
    DEF SendThrows, SendAttemptFails, Publish, Effect, Tries, kahinVars, eventVars
  <1>7. CASE WorkerRedisThrows
    <2>1. worker' = Down /\ UNCHANGED <<admitted, published>>
      BY <1>7 DEF WorkerRedisThrows, eventVars
    <2>2. CASE stream' \subseteq stream /\ UNCHANGED lastId
      BY <1>1, <2>1, <2>2 DEF Effect, Sheds
    <2>3. CASE worker.pc = "preparing" /\ Add("ReportReady", worker.entry.call)
      BY <1>1, <2>1, <2>3 DEF Effect, Prepares
    <2> QED BY <1>7, <2>2, <2>3 DEF WorkerRedisThrows
  <1>8. CASE CrashWorker \/ StartWorker
    BY <1>1, <1>8 DEF CrashWorker, StartWorker, Effect, Sheds, kahinVars, eventVars
  <1> QED BY <1>2, <1>3, <1>4, <1>5, <1>6, <1>7, <1>8 DEF WorkerStep

\* Whatever happens has one of the six effects.
LEMMA StepEffect == TypeInv /\ [Next]_vars => Effect
  <1> SUFFICES ASSUME TypeInv, [Next]_vars PROVE Effect
    OBVIOUS
  <1>1. ASSUME NEW r \in Request, Submit(r) \/ DriverStep(r) PROVE Effect
    BY <1>1, DriverEffect DEF Effect
  <1>2. ASSUME NEW c \in Call, GatewayStep(c) \/ GatewayStops(c) PROVE Effect
    BY <1>2, GatewayEffect DEF Effect
  <1>3. CASE WorkerStep \/ CrashWorker \/ StartWorker
    BY <1>3, WorkerEffect
  <1>4. ASSUME NEW m \in queue, HandlerStep(m) PROVE Effect
    BY <1>4 DEF HandlerStep, Handle, HandleFails, Effect, GatewayKept, Sheds, kahinVars
  <1>5. CASE StreamExpires
    BY <1>5 DEF StreamExpires, Effect, GatewayKept, Sheds, eventVars
  <1>6. CASE CrashEventHost \/ StartEventHost
    BY <1>6
    DEF CrashEventHost, StartEventHost, EventHostStops, Effect, GatewayKept, Sheds,
        kahinVars, eventVars
  <1>7. CASE UNCHANGED vars
    BY <1>7 DEF vars, Effect, GatewayKept, Sheds, kahinVars, eventVars
  <1> QED BY <1>1, <1>2, <1>3, <1>4, <1>5, <1>6, <1>7 DEF Next

-----------------------------------------------------------------------------
(* Types *)

\* What an entry written with Add is.
LEMMA NewEntry ==
  ASSUME lastId \in Nat, NEW type \in EntryType, NEW c \in Call, Add(type, c)
  PROVE  \E n \in Entry :
            /\ n = [id |-> lastId + 1, type |-> type, call |-> c]
            /\ n.id = lastId + 1 /\ n.type = type /\ n.call = c
            /\ stream' = stream \cup {n}
            /\ lastId' = lastId + 1
  <1>1. [id |-> lastId + 1, type |-> type, call |-> c] \in Entry
    BY DEF Entry
  <1> QED BY <1>1 DEF Add

\* The event an attempt to send makes Home publish: a copy more than there are.
LEMMA OutcomeType ==
  ASSUME TypeInv, worker.pc = "sending"
  PROVE  /\ Outcome \in Event
         /\ Outcome.type = worker.entry.type
         /\ Outcome.call = worker.entry.call
         /\ Outcome.copy = Cardinality(PublishedFor(worker.entry.call)) + 1
         /\ Outcome.attempt = worker.attempt
  <1>1. /\ worker.entry.type \in {"ReportReady", "AuditFail"}
        /\ worker.entry.call \in Call
        /\ worker.attempt \in Attempt
    BY DEF TypeInv, WorkerOK, HoldingPC, Entry, EntryType
  <1>2. IsFiniteSet(PublishedFor(worker.entry.call))
    BY FS_Subset DEF TypeInv, PublishedOK, PublishedFor
  <1>3. Cardinality(PublishedFor(worker.entry.call)) \in Nat
    BY <1>2, FS_CardinalityType
  <1> QED BY <1>1, <1>3 DEF Outcome, Event

\* Resting and Down are states of the Worker in which it holds nothing.
LEMMA RestType ==
  ASSUME NEW w \in {Resting, Down}
  PROVE  /\ w \in WorkerState
         /\ w.pc \notin HoldingPC
         /\ w.entry = None
  BY PipelineAssumption
  DEF PipelineAssumption, Resting, Down, WorkerState, WorkerPC, HoldingPC

\* The Worker with an entry in its hands.
LEMMA HoldingType ==
  ASSUME NEW pc \in HoldingPC, NEW e \in Entry, NEW n \in 0 .. MaxAttempts
  PROVE  /\ Holding(pc, e, n) \in WorkerState
         /\ Holding(pc, e, n).pc = pc
         /\ Holding(pc, e, n).entry = e
         /\ Holding(pc, e, n).attempt = n
  BY DEF Holding, WorkerState, HoldingPC, WorkerPC

\* The deletion leaves the Worker with the entry it had read.
LEMMA DeleteEntryType ==
  ASSUME TypeInv, DeleteEntry
  PROVE  /\ worker' \in WorkerState
         /\ worker'.entry = worker.entry
         /\ \/ worker'.pc = "preparing" /\ worker.entry.type = "ReportRequested"
            \/ /\ worker'.pc = "sending" /\ worker.entry.type # "ReportRequested"
               /\ worker'.attempt = 1
         /\ worker.pc = "popping"
         /\ worker.entry \in Entry
         /\ stream' = stream \ {worker.entry}
         /\ UNCHANGED <<gateway, lastId, admitted, published>>
  <1>1. worker.pc = "popping" /\ worker.entry \in Entry
    BY DEF TypeInv, WorkerOK, HoldingPC, DeleteEntry
  <1>2. 0 \in 0 .. MaxAttempts /\ 1 \in 0 .. MaxAttempts
    BY PipelineAssumption DEF PipelineAssumption
  <1>3. CASE worker.entry.type = "ReportRequested"
    <2>1. worker' = Holding("preparing", worker.entry, 0)
      BY <1>3 DEF DeleteEntry
    <2>2. "preparing" \in HoldingPC
      BY DEF HoldingPC
    <2> QED
      BY <1>1, <1>2, <1>3, <2>1, <2>2, HoldingType DEF DeleteEntry, eventVars
  <1>4. CASE worker.entry.type # "ReportRequested"
    <2>1. worker' = Holding("sending", worker.entry, 1)
      BY <1>4 DEF DeleteEntry
    <2>2. "sending" \in HoldingPC
      BY DEF HoldingPC
    <2> QED
      BY <1>1, <1>2, <1>4, <2>1, <2>2, HoldingType DEF DeleteEntry, eventVars
  <1> QED BY <1>3, <1>4

\* The read leaves the Worker with the first entry of the stream.
LEMMA ReadEntryType ==
  ASSUME TypeInv, ReadEntry
  PROVE  /\ worker' \in WorkerState
         /\ worker'.pc = "popping"
         /\ worker'.entry \in stream
         /\ \A e \in stream : e # worker'.entry => worker'.entry.id < e.id
         /\ worker.entry = None
         /\ UNCHANGED <<gateway, stream, lastId, admitted, published>>
  <1>1. PICK first \in stream :
            /\ \A other \in stream : first.id <= other.id
            /\ worker' = Holding("popping", first, 0)
    BY DEF ReadEntry
  <1>2. first \in Entry /\ \A e \in stream : e \in Entry
    BY DEF TypeInv, TypeOK
  <1>3. "popping" \in HoldingPC /\ 0 \in 0 .. MaxAttempts
    BY PipelineAssumption DEF PipelineAssumption, HoldingPC
  <1>4. worker' \in WorkerState /\ worker'.pc = "popping" /\ worker'.entry = first
    BY <1>1, <1>2, <1>3, HoldingType
  <1>5. \A e \in stream : e # first => first.id < e.id
    BY <1>1, <1>2 DEF TypeInv, StreamOK, Entry
  <1>6. worker.entry = None
    BY DEF ReadEntry, TypeInv, WorkerOK, HoldingPC
  <1> QED BY <1>4, <1>5, <1>6 DEF ReadEntry, kahinVars, eventVars

\* The types of Kahin's variables and of what was published.
KahinTyped ==
    /\ stream \subseteq Entry
    /\ lastId \in Nat
    /\ admitted \in [Call -> 0 .. lastId]
    /\ worker \in WorkerState
    /\ published \subseteq Event
    /\ WorkerOK /\ StreamOK /\ PublishedOK

\* Every effect keeps them.
LEMMA KahinTyping == ASSUME TypeInv, Effect PROVE KahinTyped'
  <1>1. KahinTyped
    BY DEF TypeInv, TypeOK, KahinTyped
  <1>2. CASE Sheds
    <2>1. worker' \in {Resting, Down} => worker' \in WorkerState /\ WorkerOK'
      BY RestType, <1>2 DEF WorkerOK, HoldingPC
    <2>2. worker' = worker => worker' \in WorkerState /\ WorkerOK'
      BY <1>1, <1>2 DEF Sheds, KahinTyped, WorkerOK
    <2> QED
      BY <1>1, <1>2, <2>1, <2>2 DEF Sheds, KahinTyped, StreamOK, PublishedOK
  <1>3. ASSUME NEW c \in Call, Records(c) PROVE KahinTyped'
    <2>1. PICK n \in Entry : /\ n.id = lastId + 1
                             /\ stream' = stream \cup {n}
                             /\ lastId' = lastId + 1
      BY <1>1, <1>3, NewEntry DEF Records, KahinTyped, EntryType
    <2>2. StreamOK'
      BY <1>1, <2>1 DEF KahinTyped, StreamOK, Entry
    <2>3. admitted' \in [Call -> 0 .. lastId']
      BY <1>1, <1>3, <2>1 DEF Records, KahinTyped
    <2>4. WorkerOK'
      BY <1>1, <1>3, <2>1 DEF Records, KahinTyped, WorkerOK, Entry
    <2> QED
      BY <1>1, <1>3, <2>1, <2>2, <2>3, <2>4 DEF Records, KahinTyped, PublishedOK
  <1>4. CASE ReadEntry
    <2>1. WorkerOK'
      BY <1>1, <1>4, ReadEntryType DEF KahinTyped, StreamOK, WorkerOK, HoldingPC
    <2> QED
      BY <1>1, <1>4, <2>1, ReadEntryType DEF KahinTyped, StreamOK, PublishedOK
  <1>5. CASE DeleteEntry
    <2>1. 1 \in Attempt
      BY PipelineAssumption DEF PipelineAssumption, Attempt
    <2>2. WorkerOK'
      BY <1>1, <1>5, <2>1, DeleteEntryType DEF KahinTyped, WorkerOK, HoldingPC
    <2> QED
      BY <1>1, <1>5, <2>2, DeleteEntryType DEF KahinTyped, StreamOK, PublishedOK
  <1>6. CASE Prepares
    <2>1. worker.entry.call \in Call
      BY <1>1, <1>6 DEF Prepares, KahinTyped, WorkerOK, HoldingPC, Entry
    <2>2. PICK n \in Entry : /\ n.id = lastId + 1
                             /\ stream' = stream \cup {n}
                             /\ lastId' = lastId + 1
      BY <1>1, <1>6, <2>1, NewEntry DEF Prepares, KahinTyped, EntryType
    <2>3. StreamOK'
      BY <1>1, <2>2 DEF KahinTyped, StreamOK, Entry
    <2>4. admitted' \in [Call -> 0 .. lastId']
      BY <1>1, <1>6, <2>2 DEF Prepares, KahinTyped
    <2>5. worker' \in WorkerState /\ WorkerOK'
      BY <1>6, RestType DEF Prepares, WorkerOK, HoldingPC
    <2> QED
      BY <1>1, <1>6, <2>2, <2>3, <2>4, <2>5 DEF Prepares, KahinTyped, PublishedOK
  <1>7. CASE Tries
    <2>1. published' \subseteq Event /\ PublishedOK'
      BY <1>1, <1>7, OutcomeType, FS_AddElement DEF Tries, KahinTyped, PublishedOK
    <2>2. CASE worker' \in {Resting, Down}
      <3>1. worker' \in WorkerState /\ WorkerOK'
        BY <2>2, RestType DEF WorkerOK, HoldingPC
      <3> QED BY <1>1, <1>7, <2>1, <3>1 DEF Tries, KahinTyped, StreamOK
    <2>3. CASE /\ worker.attempt < MaxAttempts
               /\ worker' = [worker EXCEPT !.attempt = @ + 1]
      <3>1. /\ worker'.pc = worker.pc /\ worker'.entry = worker.entry
            /\ worker'.attempt = worker.attempt + 1
            /\ worker' \in WorkerState
        BY <1>1, <2>3, PipelineAssumption
        DEF KahinTyped, WorkerState, PipelineAssumption
      <3>2. WorkerOK'
        BY <1>1, <1>7, <2>3, <3>1, PipelineAssumption
        DEF Tries, KahinTyped, WorkerOK, HoldingPC, Attempt, PipelineAssumption
      <3> QED BY <1>1, <1>7, <2>1, <3>1, <3>2 DEF Tries, KahinTyped, StreamOK
    <2> QED BY <1>7, <2>2, <2>3 DEF Tries
  <1> QED BY <1>2, <1>3, <1>4, <1>5, <1>6, <1>7 DEF Effect

\* The variables of EventHost's drivers, of the gateway and of the queue.
HomeTyped ==
    /\ driver \in [Request -> DriverPC]
    /\ attempt \in [Request -> 0 .. MaxAttempts]
    /\ eventHost \in {"up", "down"}
    /\ gateway \in [Call -> GatewayPC]
    /\ queue \subseteq published
    /\ handled \subseteq published
    /\ PostingOK

\* A step of EventHost's driver keeps them.
LEMMA DriverTyping ==
  ASSUME TypeInv, NEW r \in Request, Submit(r) \/ DriverStep(r)
  PROVE  HomeTyped'
  <1> USE DEF PostingOK
  <1>1. HomeTyped
    BY DEF TypeInv, TypeOK, HomeTyped
  <1>2. CASE ReceivePost(r)
    <2>1. CallOf(r) \in Call
      BY <1>1, <1>2 DEF HomeTyped, ReceivePost, CallOf, Call
    <2> QED
      BY <1>1, <1>2, <2>1
      DEF HomeTyped, ReceivePost, GatewayGoes, homeVars, eventVars, GatewayPC
  <1>3. CASE PostThrows(r)
    BY <1>1, <1>3
    DEF HomeTyped, PostThrows, EventHostStops, kahinVars, DriverPC
  <1>4. CASE Post(r)
    <2>1. 1 \in Attempt /\ 1 \in 0 .. MaxAttempts
      BY PipelineAssumption DEF PipelineAssumption, Attempt
    <2> QED
      BY <1>1, <1>4, <2>1 DEF HomeTyped, Post, kahinVars, eventVars, DriverPC
  <1>5. CASE PostAgain(r)
    <2>1. attempt[r] + 1 \in Attempt /\ attempt[r] + 1 \in 0 .. MaxAttempts
      BY <1>1, <1>5, PipelineAssumption
      DEF HomeTyped, PostAgain, PipelineAssumption, Attempt
    <2> QED
      BY <1>1, <1>5, <2>1 DEF HomeTyped, PostAgain, kahinVars, eventVars
  <1>6. CASE Submit(r) \/ PostAnswered(r) \/ PostGivenUp(r)
    BY <1>1, <1>6
    DEF HomeTyped, Submit, PostAnswered, PostGivenUp, kahinVars, eventVars, DriverPC
  <1> QED BY <1>2, <1>3, <1>4, <1>5, <1>6 DEF DriverStep

\* A step of the gateway keeps them.
LEMMA GatewayTyping ==
  ASSUME TypeInv, NEW c \in Call, GatewayStep(c) \/ GatewayStops(c)
  PROVE  HomeTyped'
  <1>1. HomeTyped
    BY DEF TypeInv, TypeOK, HomeTyped
  <1>2. UNCHANGED <<driver, attempt, eventHost, published, queue, handled>>
    BY DEF GatewayStep, GatewayStops, Audited, Verdict, AuditAnswersError, AuditThrows, Record,
           RecordThrows, homeVars, eventVars
  <1>3. gateway' \in [Call -> GatewayPC]
    BY <1>1
    DEF GatewayStep, GatewayStops, Audited, Verdict, AuditAnswersError, AuditThrows, Record,
        RecordThrows, GatewayGoes, HomeTyped, GatewayPC
  <1> QED BY <1>1, <1>2, <1>3 DEF HomeTyped, PostingOK

\* A step of the Worker keeps them.
LEMMA WorkerTyping ==
  ASSUME TypeInv, WorkerStep \/ CrashWorker \/ StartWorker
  PROVE  HomeTyped'
  <1>1. HomeTyped
    BY DEF TypeInv, TypeOK, HomeTyped
  <1>2. UNCHANGED <<driver, attempt, eventHost, gateway>>
    BY DEF WorkerStep, CrashWorker, StartWorker, ReadEntry, DeleteEntry, Prepare, Send,
           SendAgain, SendThrows, WorkerRedisThrows, homeVars, kahinVars
  <1>3. \/ UNCHANGED <<published, queue, handled>>
        \/ Publish
    BY DEF WorkerStep, CrashWorker, StartWorker, ReadEntry, DeleteEntry, Prepare, Send,
           SendAgain, SendThrows, SendAttemptFails, WorkerRedisThrows, eventVars
  <1>4. queue' \subseteq published' /\ handled' \subseteq published'
    BY <1>1, <1>3 DEF HomeTyped, Publish, Enqueue
  <1> QED BY <1>1, <1>2, <1>4 DEF HomeTyped, PostingOK

\* Every step keeps the types.
LEMMA TypeStep == TypeInv /\ [Next]_vars => TypeInv'
  <1> SUFFICES ASSUME TypeInv, [Next]_vars PROVE TypeInv'
    OBVIOUS
  <1>1. HomeTyped
    BY DEF TypeInv, TypeOK, HomeTyped
  <1>2. HomeTyped'
    <2>1. ASSUME NEW r \in Request, Submit(r) \/ DriverStep(r) PROVE HomeTyped'
      BY <2>1, DriverTyping
    <2>2. ASSUME NEW c \in Call, GatewayStep(c) \/ GatewayStops(c) PROVE HomeTyped'
      BY <2>2, GatewayTyping
    <2>3. CASE WorkerStep \/ CrashWorker \/ StartWorker
      BY <2>3, WorkerTyping
    <2>4. ASSUME NEW m \in queue, HandlerStep(m) PROVE HomeTyped'
      BY <1>1, <2>4
      DEF HandlerStep, Handle, HandleFails, HomeTyped, PostingOK, homeVars, kahinVars
    <2>5. CASE StreamExpires
      BY <1>1, <2>5 DEF StreamExpires, HomeTyped, PostingOK, homeVars, eventVars
    <2>6. CASE CrashEventHost \/ StartEventHost
      BY <1>1, <2>6
      DEF CrashEventHost, StartEventHost, EventHostStops, HomeTyped, PostingOK,
          kahinVars, eventVars, DriverPC
    <2>7. CASE UNCHANGED vars
      BY <1>1, <2>7 DEF vars, HomeTyped, PostingOK, homeVars, kahinVars, eventVars
    <2> QED BY <2>1, <2>2, <2>3, <2>4, <2>5, <2>6, <2>7 DEF Next
  <1>3. KahinTyped'
    BY StepEffect, KahinTyping
  <1> QED BY <1>2, <1>3 DEF HomeTyped, KahinTyped, TypeInv, TypeOK

\* The queue, the stream and the drivers start empty.
LEMMA TypeInit == Init => TypeInv
  <1> SUFFICES ASSUME Init PROVE TypeInv
    OBVIOUS
  <1>1. worker \in WorkerState /\ worker.pc \notin HoldingPC /\ worker.entry = None
    BY RestType DEF Init
  <1>2. WorkerOK
    BY <1>1 DEF WorkerOK, HoldingPC
  <1>3. 0 \in 0 .. MaxAttempts /\ 0 \in 0 .. 0
    BY PipelineAssumption DEF PipelineAssumption
  <1>4. TypeOK
    BY <1>1, <1>3 DEF Init, TypeOK, DriverPC, GatewayPC
  <1>5. StreamOK /\ PublishedOK /\ PostingOK
    BY FS_EmptySet DEF Init, StreamOK, PublishedOK, PostingOK
  <1> QED BY <1>2, <1>4, <1>5 DEF TypeInv

LEMMA TypeInvHolds == Spec => []TypeInv
  BY TypeInit, TypeStep, PTL DEF Spec

\* Type correctness of the whole pipeline: in particular no retry of the Worker
\* goes beyond its last attempt, and only published events are handled.
THEOREM TypeCorrect == Spec => []TypeOK
  <1>1. TypeInv => TypeOK
    BY DEF TypeInv
  <1> QED BY <1>1, TypeInvHolds, PTL

-----------------------------------------------------------------------------
(* A document is in one place *)

\* What it means for a document to be somewhere.
LEMMA LiveMember ==
  ASSUME NEW c, NEW e
  PROVE  e \in Live(c) <=>
            e # None /\ e.call = c /\ (e \in stream \/ e = worker.entry)
  BY DEF Live

\* A document that is nowhere stays so until its call is recorded.
LEMMA UnseenStays ==
  ASSUME TypeInv, Effect, NEW c \in Call, Unseen(c), ~Records(c)
  PROVE  Unseen(c)'
  <1>1. /\ admitted[c] = 0
        /\ \A e \in stream : e # None /\ e.call # c
        /\ worker.entry # None => worker.entry.call # c
        /\ \A m \in published : m.call # c
    BY NoneIsNoEntry DEF Unseen, Live, PublishedFor, TypeInv, TypeOK
  <1>2. worker.pc \in HoldingPC =>
            worker.entry \in Entry /\ worker.entry # None /\ worker.entry.call \in Call
    BY NoneIsNoEntry DEF TypeInv, WorkerOK, Entry
  <1> DEFINE Gone == /\ admitted'[c] = 0
                     /\ \A e \in stream' : e.call # c
                     /\ worker'.entry # None => worker'.entry.call # c
                     /\ \A m \in published' : m.call # c
  <1> SUFFICES Gone
    BY DEF Unseen, Live, PublishedFor
  <1>3. CASE Sheds
    BY <1>1, <1>3, RestType DEF Sheds
  <1>4. ASSUME NEW d \in Call, Records(d) PROVE Gone
    <2>1. d # c
      BY <1>4
    <2>2. PICK n \in Entry : n.call = d /\ stream' = stream \cup {n}
      BY <1>4, NewEntry DEF Records, TypeInv, TypeOK, EntryType
    <2> QED BY <1>1, <1>4, <2>1, <2>2 DEF Records, TypeInv, TypeOK
  <1>5. CASE ReadEntry \/ DeleteEntry
    BY <1>1, <1>5, ReadEntryType, DeleteEntryType
  <1>6. CASE Prepares
    <2>1. PICK n \in Entry : n.call = worker.entry.call /\ stream' = stream \cup {n}
      BY <1>2, <1>6, NewEntry DEF Prepares, TypeInv, TypeOK, EntryType, HoldingPC
    <2> QED BY <1>1, <1>2, <1>6, <2>1, RestType DEF Prepares, HoldingPC
  <1>7. CASE Tries
    <2>1. worker'.entry \in {worker.entry, None}
      BY <1>7, RestType DEF Tries, TypeInv, TypeOK, WorkerState
    <2> QED BY <1>1, <1>2, <1>7, <2>1, OutcomeType DEF Tries, HoldingPC
  <1> HIDE DEF Gone
  <1> QED BY <1>3, <1>4, <1>5, <1>6, <1>7 DEF Effect

\* Entries that vanish leave the rest where it was.
LEMMA ShedsOnePlace ==
  ASSUME TypeInv, OnePlace, Sheds
  PROVE  Placed'
  <1>1. /\ stream' \subseteq stream
        /\ UNCHANGED <<lastId, admitted, published>>
        /\ \/ worker' = worker
           \/ worker'.pc \notin HoldingPC /\ worker'.entry = None
    BY RestType DEF Sheds
  <1>2. OneEntry' /\ HandOK'
    BY <1>1 DEF OnePlace, Placed, OneEntry, HandOK
  <1>3. LiveIsUnpublished'
    BY <1>1 DEF OnePlace, Placed, LiveIsUnpublished, PublishedFor, HoldingPC
  <1>4. CopiesCounted' /\ CopiesAreRetries'
    BY <1>1 DEF OnePlace, Placed, CopiesCounted, CopiesAreRetries, PublishedFor
  <1> QED BY <1>2, <1>3, <1>4 DEF Placed

\* The first entry of a document finds no other trace of it.
LEMMA RecordsOnePlace ==
  ASSUME TypeInv, OnePlace, NEW c \in Call, Records(c)
  PROVE  Placed'
  <1>1. PICK n \in Entry : /\ n.id = lastId + 1 /\ n.call = c
                           /\ n.type \in {"ReportRequested", "AuditFail"}
                           /\ stream' = stream \cup {n}
                           /\ lastId' = lastId + 1
    BY NewEntry DEF Records, TypeInv, TypeOK, EntryType
  <1>2. Unseen(c)
    BY DEF Records, OnePlace, UnrecordedIsUnseen
  <1>3. \A e \in stream : e \in Entry /\ e # None /\ e.call # c /\ e.id < n.id
    BY <1>1, <1>2, NoneIsNoEntry DEF Unseen, Live, TypeInv, TypeOK, StreamOK, Entry
  <1>4. worker.pc \in HoldingPC =>
            /\ worker.entry \in Entry /\ worker.entry # None
            /\ worker.entry.call # c /\ worker.entry.id < n.id
    BY <1>1, <1>2, NoneIsNoEntry DEF Unseen, Live, TypeInv, TypeOK, WorkerOK, Entry
  <1>5. PublishedFor(c) = {}
    BY <1>2 DEF Unseen
  <1>6. \A d \in Call : PublishedFor(d)' = PublishedFor(d)
    BY DEF Records, PublishedFor
  <1>7. OneEntry'
    BY <1>1, <1>3 DEF OnePlace, Placed, OneEntry
  <1>8. HandOK'
    BY <1>1, <1>3, <1>4 DEF Records, OnePlace, Placed, HandOK
  <1>9. LiveIsUnpublished'
    BY <1>1, <1>5, <1>6 DEF Records, OnePlace, Placed, LiveIsUnpublished, PublishedFor
  <1>10. CopiesCounted' /\ CopiesAreRetries'
    BY DEF Records, OnePlace, Placed, CopiesCounted, CopiesAreRetries, PublishedFor
  <1> QED BY <1>7, <1>8, <1>9, <1>10 DEF Placed

\* Between its two commands Pop has the entry in both places.
LEMMA ReadEntryOnePlace ==
  ASSUME TypeInv, OnePlace, ReadEntry
  PROVE  Placed'
  <1>1. /\ worker'.pc = "popping"
        /\ worker'.entry \in stream
        /\ \A e \in stream : e # worker'.entry => worker'.entry.id < e.id
        /\ worker.entry = None
        /\ UNCHANGED <<gateway, stream, lastId, admitted, published>>
    BY ReadEntryType
  <1>2. OneEntry' /\ HandOK'
    BY <1>1 DEF OnePlace, Placed, OneEntry, HandOK, HoldingPC
  <1>3. LiveIsUnpublished'
    BY <1>1 DEF OnePlace, Placed, LiveIsUnpublished, PublishedFor
  <1>4. CopiesCounted' /\ CopiesAreRetries'
    BY <1>1 DEF OnePlace, Placed, CopiesCounted, CopiesAreRetries, PublishedFor
  <1> QED BY <1>2, <1>3, <1>4 DEF Placed

\* The deletion leaves the entry with the Worker, and no other of its document.
LEMMA DeleteEntryOnePlace ==
  ASSUME TypeInv, OnePlace, DeleteEntry
  PROVE  Placed'
  <1>1. /\ worker'.entry = worker.entry
        /\ worker'.pc \in {"preparing", "sending"}
        /\ worker.pc = "popping"
        /\ worker.entry \in Entry
        /\ stream' = stream \ {worker.entry}
        /\ UNCHANGED <<gateway, lastId, admitted, published>>
    BY DeleteEntryType
  <1>2. OneEntry' /\ HandOK'
    BY <1>1 DEF OnePlace, Placed, OneEntry, HandOK, HoldingPC
  <1>3. LiveIsUnpublished'
    BY <1>1 DEF OnePlace, Placed, LiveIsUnpublished, PublishedFor
  <1>4. CopiesCounted' /\ CopiesAreRetries'
    BY <1>1 DEF OnePlace, Placed, CopiesCounted, CopiesAreRetries, PublishedFor
  <1> QED BY <1>2, <1>3, <1>4 DEF Placed

\* The second entry of a document is written when the first is in the Worker's
\* hands and nowhere else.
LEMMA PreparesOnePlace ==
  ASSUME TypeInv, OnePlace, Prepares
  PROVE  Placed'
  <1>1. worker.pc \in HoldingPC /\ worker.entry \in Entry /\ worker.entry.call \in Call
    BY DEF Prepares, TypeInv, WorkerOK, HoldingPC, Entry
  <1>2. PICK n \in Entry : /\ n.id = lastId + 1 /\ n.call = worker.entry.call
                           /\ stream' = stream \cup {n}
    BY <1>1, NewEntry DEF Prepares, TypeInv, TypeOK, EntryType
  <1>3. worker'.pc \notin HoldingPC /\ worker'.entry = None
    BY RestType DEF Prepares
  <1>4. \A e \in stream : e.call # worker.entry.call
    BY <1>1 DEF Prepares, OnePlace, Placed, HandOK
  <1>5. PublishedFor(worker.entry.call) = {}
    BY DEF Prepares, OnePlace, Placed, LiveIsUnpublished
  <1>6. OneEntry'
    BY <1>2, <1>4 DEF OnePlace, Placed, OneEntry
  <1>7. HandOK'
    BY <1>3 DEF HandOK
  <1>8. LiveIsUnpublished'
    BY <1>2, <1>3, <1>5 DEF Prepares, OnePlace, Placed, LiveIsUnpublished, PublishedFor, HoldingPC
  <1>9. CopiesCounted' /\ CopiesAreRetries'
    BY DEF Prepares, OnePlace, Placed, CopiesCounted, CopiesAreRetries, PublishedFor
  <1> QED BY <1>6, <1>7, <1>8, <1>9 DEF Placed

\* An attempt to send publishes an event with the next copy number, and leaves
\* the document to a later attempt or to nobody.
LEMMA TriesOnePlace ==
  ASSUME TypeInv, OnePlace, Tries
  PROVE  Placed'
  <1>0. PICK w \in Entry : w = worker.entry
    BY DEF Tries, TypeInv, WorkerOK, HoldingPC
  <1>1. /\ worker.pc = "sending" /\ worker.pc \in HoldingPC
        /\ w.call \in Call /\ w # None
        /\ worker.attempt \in Nat
        /\ UNCHANGED <<stream, lastId, admitted>>
    BY NoneIsNoEntry, <1>0 DEF Tries, TypeInv, WorkerOK, HoldingPC, Entry, Attempt
  <1>2. \/ worker'.pc \notin HoldingPC /\ worker'.entry = None
        \/ /\ worker'.pc = "sending" /\ worker'.entry = w
           /\ worker'.attempt = worker.attempt + 1
    BY <1>0, <1>1, RestType DEF Tries, TypeInv, TypeOK, WorkerState
  <1>3. \A e \in stream : e.call # w.call /\ w.id < e.id
    BY <1>0, <1>1 DEF OnePlace, Placed, HandOK
  <1>4. \A m \in PublishedFor(w.call) : m.attempt < worker.attempt
    BY <1>0, <1>1 DEF OnePlace, Placed, LiveIsUnpublished
  <1>5. IsFiniteSet(PublishedFor(w.call)) /\ Cardinality(PublishedFor(w.call)) \in Nat
    BY FS_Subset, FS_CardinalityType DEF TypeInv, PublishedOK, PublishedFor
  <1>6. \A m \in published : m \in Event /\ m.copy \in Nat /\ m.attempt \in Nat
    BY DEF TypeInv, TypeOK, Event, Attempt
  <1>7. OneEntry'
    BY <1>1 DEF OnePlace, Placed, OneEntry
  <1>8. HandOK'
    BY <1>1, <1>2, <1>3 DEF HandOK
  <1>9. CASE published' = published
    <2>1. LiveIsUnpublished'
      BY <1>1, <1>2, <1>4, <1>6, <1>9
      DEF OnePlace, Placed, LiveIsUnpublished, PublishedFor, HoldingPC
    <2>2. CopiesCounted' /\ CopiesAreRetries'
      BY <1>9 DEF OnePlace, Placed, CopiesCounted, CopiesAreRetries, PublishedFor
    <2> QED BY <1>7, <1>8, <2>1, <2>2 DEF Placed
  <1>10. CASE published' = published \cup {Outcome}
    <2>1. /\ Outcome.call = w.call /\ Outcome.attempt = worker.attempt
          /\ Outcome.copy = Cardinality(PublishedFor(w.call)) + 1
      BY <1>0, <1>1, OutcomeType
    <2>2. \A m \in published : m.call = w.call => m.copy < Outcome.copy
      BY <1>5, <1>6, <2>1 DEF OnePlace, Placed, CopiesCounted
    <2>3. PublishedFor(w.call)' = PublishedFor(w.call) \cup {Outcome}
      BY <1>10, <2>1 DEF PublishedFor
    <2>4. Outcome \notin PublishedFor(w.call)
      BY <1>5, <2>1, <2>2 DEF PublishedFor
    <2>5. Cardinality(PublishedFor(w.call)') = Cardinality(PublishedFor(w.call)) + 1
      BY <1>5, <2>3, <2>4, FS_AddElement
    <2>6. \A c \in Call : c # w.call => PublishedFor(c)' = PublishedFor(c)
      BY <1>10, <2>1 DEF PublishedFor
    <2>7. LiveIsUnpublished'
      <3>1. \A e \in stream' : PublishedFor(e.call)' = {}
        BY <1>1, <1>3, <2>6
        DEF OnePlace, Placed, LiveIsUnpublished, TypeInv, TypeOK, Entry
      <3>2. ASSUME worker'.pc = "sending"
            PROVE  (\A m \in PublishedFor(worker.entry.call) : m.attempt < worker.attempt)'
        <4>1. worker'.entry = w /\ worker'.attempt = worker.attempt + 1
          BY <1>2, <3>2 DEF HoldingPC
        <4>2. \A m \in PublishedFor(w.call)' : m.attempt < worker.attempt + 1
          BY <1>1, <1>4, <1>6, <2>1, <2>3 DEF PublishedFor
        <4>3. PublishedFor(worker.entry.call)' = PublishedFor(w.call)'
          BY <4>1 DEF PublishedFor
        <4> QED BY <4>1, <4>2, <4>3
      <3>3. worker'.pc \notin {"popping", "preparing"}
        BY <1>2 DEF HoldingPC
      <3> QED BY <3>1, <3>2, <3>3 DEF LiveIsUnpublished
    <2>8. CopiesCounted'
      <3> SUFFICES ASSUME NEW m \in published'
                   PROVE  m.copy <= Cardinality(PublishedFor(m.call)')
        BY DEF CopiesCounted
      <3>1. CASE m.call = w.call
        BY <1>5, <1>6, <1>10, <2>1, <2>2, <2>5, <3>1
      <3>2. CASE m.call # w.call
        BY <1>10, <2>1, <2>6, <3>2 DEF OnePlace, Placed, CopiesCounted, TypeInv, TypeOK, Event
      <3> QED BY <3>1, <3>2
    <2>9. CopiesAreRetries'
      BY <1>4, <1>5, <1>6, <1>10, <2>1, <2>2 DEF OnePlace, Placed, CopiesAreRetries, PublishedFor
    <2> QED BY <1>7, <1>8, <2>7, <2>8, <2>9 DEF Placed
  <1> QED BY <1>9, <1>10 DEF Tries

\* Every step leaves every document in one place.
LEMMA OnePlaceStep == TypeInv /\ OnePlace /\ [Next]_vars => OnePlace'
  <1> SUFFICES ASSUME TypeInv, OnePlace, [Next]_vars PROVE OnePlace'
    OBVIOUS
  <1>1. Effect
    BY StepEffect
  <1>2. Placed'
    BY <1>1, ShedsOnePlace, RecordsOnePlace, ReadEntryOnePlace, DeleteEntryOnePlace,
       PreparesOnePlace, TriesOnePlace
    DEF Effect
  <1>3. UnrecordedIsUnseen'
    <2> SUFFICES ASSUME NEW c \in Call, gateway'[c] \in UnrecordedPC PROVE Unseen(c)'
      BY DEF UnrecordedIsUnseen
    <2>1. gateway[c] \in UnrecordedPC
      BY <1>1 DEF Effect, GatewayKept
    <2>2. Unseen(c) /\ ~Records(c)
      BY <2>1 DEF Records, OnePlace, UnrecordedIsUnseen
    <2> QED BY <1>1, <2>2, UnseenStays
  <1> QED BY <1>2, <1>3 DEF OnePlace

\* At first there is no document.
LEMMA OnePlaceInit == Init => OnePlace
  <1> SUFFICES ASSUME Init PROVE OnePlace
    OBVIOUS
  <1>1. worker.pc \notin HoldingPC /\ worker.entry = None
    BY RestType DEF Init
  <1>2. UnrecordedIsUnseen
    BY <1>1 DEF Init, UnrecordedIsUnseen, Unseen, Live, PublishedFor
  <1>3. OneEntry /\ HandOK /\ LiveIsUnpublished /\ CopiesCounted /\ CopiesAreRetries
    BY <1>1
    DEF Init, OneEntry, HandOK, LiveIsUnpublished, CopiesCounted, CopiesAreRetries,
        HoldingPC
  <1> QED BY <1>2, <1>3 DEF OnePlace, Placed

-----------------------------------------------------------------------------
(* Documents keep their turn *)

\* What is on its way: typed entries, of which the Worker's is the earliest.
LEMMA AliveType ==
  ASSUME TypeInv
  PROVE  /\ \A e \in Alive : e \in Entry /\ e # None /\ e.call \in Call /\ e.id <= lastId
         /\ \A c : \A e : e \in Live(c) <=> e \in Alive /\ e.call = c
         /\ \A c \in Call : admitted[c] \in Nat /\ admitted[c] <= lastId
  <1>1. \A e \in stream : e \in Entry /\ e.id <= lastId
    BY DEF TypeInv, TypeOK, StreamOK
  <1>2. worker.entry # None => worker.entry \in Entry /\ worker.entry.id <= lastId
    BY DEF TypeInv, TypeOK, WorkerOK
  <1>3. \A e \in Alive : e \in Entry /\ e # None /\ e.id <= lastId
    BY <1>1, <1>2 DEF Alive
  <1>4. \A e \in Entry : e.call \in Call
    BY DEF Entry
  <1>5. \A c : \A e : e \in Live(c) <=> e \in Alive /\ e.call = c
    BY DEF Live, Alive
  <1>6. \A c \in Call : admitted[c] \in Nat /\ admitted[c] <= lastId
    BY DEF TypeInv, TypeOK
  <1> QED BY <1>3, <1>4, <1>5, <1>6

\* Fewer entries on their way hold nobody's turn up.
LEMMA FewerInTurn ==
  ASSUME TypeInv, TypeInv', InTurn, Alive' \subseteq Alive,
         UNCHANGED <<admitted, published>>
  PROVE  InTurn'
  <1>1. \A c \in Call : Live(c)' \subseteq Live(c) /\ Reported(c)' = Reported(c)
    BY DEF Live, Alive, Reported, PublishedFor
  <1>2. EntriesAreAdmitted'
    BY DEF InTurn, EntriesAreAdmitted
  <1>3. TurnsKept'
    BY <1>1 DEF InTurn, TurnsKept, Before
  <1> QED BY <1>2, <1>3 DEF InTurn

\* A new document comes after every other one.
LEMMA RecordsInTurn ==
  ASSUME TypeInv, TypeInv', OnePlace, InTurn, NEW c \in Call, Records(c)
  PROVE  InTurn'
  <1>1. PICK n \in Entry : /\ n.id = lastId + 1 /\ n.call = c
                           /\ n.type \in {"ReportRequested", "AuditFail"}
                           /\ stream' = stream \cup {n}
                           /\ lastId' = lastId + 1
    BY NewEntry DEF Records, TypeInv, TypeOK, EntryType
  <1>2. Unseen(c)
    BY DEF Records, OnePlace, UnrecordedIsUnseen
  <1>3. /\ lastId \in Nat /\ UNCHANGED <<worker, published>>
        /\ admitted'[c] = lastId + 1
        /\ \A d \in Call : d # c => admitted'[d] = admitted[d]
    BY <1>1 DEF Records, TypeInv, TypeOK
  <1>4. Alive' = Alive \cup {n}
    BY <1>1, <1>3, NoneIsNoEntry DEF Alive
  <1>5. \A e \in Alive : /\ e \in Entry /\ e.call \in Call /\ e.call # c
                         /\ e.id <= lastId
    BY <1>2, AliveType DEF Unseen
  <1>6. \A d \in Call : d # c => Live(d)' = Live(d)
    BY <1>1, <1>3 DEF Live
  <1>7. \A d \in Call : Reported(d)' = Reported(d)
    BY <1>3 DEF Reported, PublishedFor
  <1>8. Live(c)' = {n} /\ ~Reported(c)
    BY <1>1, <1>2, <1>3, NoneIsNoEntry DEF Unseen, Live, Reported
  <1>9. EntriesAreAdmitted'
    BY <1>1, <1>3, <1>4, <1>5 DEF InTurn, EntriesAreAdmitted, Entry
  <1>10. TurnsKept'
    <2> SUFFICES ASSUME NEW e \in Alive', NEW d \in Call, Before(e.call, d)'
                 PROVE  /\ ~Reported(d)'
                        /\ \A f \in Live(d)' :
                            f.type = "ReportReady" => e.type = "ReportReady" /\ e.id < f.id
      BY DEF TurnsKept
    <2>1. e # n
      BY <1>1, <1>3, AliveType DEF Before
    <2>2. e \in Alive /\ e.call # c /\ e.call \in Call
      BY <1>4, <1>5, <2>1
    <2>3. CASE d = c
      BY <1>1, <1>7, <1>8, <2>3
    <2>4. CASE d # c
      BY <1>3, <1>6, <1>7, <2>2, <2>4 DEF InTurn, TurnsKept, Before
    <2> QED BY <2>3, <2>4
  <1> QED BY <1>9, <1>10 DEF InTurn

\* A report is prepared when every earlier document that is still on its way has
\* been prepared, and then stands behind them.
LEMMA PreparesInTurn ==
  ASSUME TypeInv, TypeInv', OnePlace, InTurn, Prepares
  PROVE  InTurn'
  <1>1. PICK w \in Entry : /\ w = worker.entry /\ w.type = "ReportRequested"
                           /\ w.call \in Call /\ w # None
    BY NoneIsNoEntry DEF Prepares, TypeInv, WorkerOK, HoldingPC, Entry
  <1>2. PICK n \in Entry : /\ n.id = lastId + 1 /\ n.call = w.call
                           /\ n.type = "ReportReady"
                           /\ stream' = stream \cup {n}
    BY <1>1, NewEntry DEF Prepares, TypeInv, TypeOK, EntryType
  <1>3. worker'.entry = None /\ UNCHANGED <<admitted, published>> /\ lastId \in Nat
    BY RestType DEF Prepares, TypeInv, TypeOK
  <1>4. w \in Alive /\ Alive = (stream \ {None}) \cup {w}
    BY <1>1 DEF Alive
  <1>5. Alive' = (stream \ {None}) \cup {n}
    BY <1>2, <1>3, NoneIsNoEntry DEF Alive
  <1>6. \A e \in stream : e.call # w.call /\ w.id < e.id
    BY <1>1 DEF Prepares, OnePlace, Placed, HandOK, HoldingPC
  <1>7. \A d \in Call : d # w.call => Live(d)' = Live(d)
    BY <1>1, <1>2, <1>3 DEF Live
  <1>8. Live(w.call)' = {n}
    BY <1>2, <1>3, <1>6, NoneIsNoEntry DEF Live
  <1>9. \A d \in Call : Reported(d)' = Reported(d)
    BY <1>3 DEF Reported, PublishedFor
  <1>10. \A e \in Alive : /\ e \in Entry /\ e.call \in Call /\ e.id <= lastId
                          /\ e.id \in Nat /\ admitted[e.call] \in Nat
    BY AliveType DEF Entry
  <1>11. \A e \in Alive : /\ 0 < admitted[e.call] /\ admitted[e.call] <= e.id
                          /\ e.type # "ReportReady" => e.id = admitted[e.call]
    BY DEF InTurn, EntriesAreAdmitted
  <1>12. EntriesAreAdmitted'
    BY <1>2, <1>3, <1>4, <1>5, <1>10, <1>11 DEF EntriesAreAdmitted
  <1>13. TurnsKept'
    <2> SUFFICES ASSUME NEW e \in Alive', NEW d \in Call, Before(e.call, d)'
                 PROVE  /\ ~Reported(d)'
                        /\ \A f \in Live(d)' :
                            f.type = "ReportReady" => e.type = "ReportReady" /\ e.id < f.id
      BY DEF TurnsKept
    <2>1. CASE e = n
      <3>1. Before(w.call, d)
        BY <1>2, <1>3, <2>1 DEF Before
      <3>2. d # w.call
        BY <1>4, <1>10, <3>1 DEF Before
      <3>3. ~Reported(d) /\ \A f \in Live(d) : f.type # "ReportReady"
        BY <1>1, <1>4, <3>1 DEF InTurn, TurnsKept
      <3> QED BY <1>7, <1>9, <3>2, <3>3
    <2>2. CASE e # n
      <3>1. e \in Alive /\ e \in stream /\ Before(e.call, d)
        BY <1>3, <1>4, <1>5, <2>2 DEF Before
      <3>2. CASE d = w.call
        <4>1. ~Reported(d)
          BY <3>1 DEF InTurn, TurnsKept
        <4>2. e.type = "ReportReady"
          BY <1>4, <1>6, <1>10, <1>11, <3>1, <3>2 DEF Before
        <4>3. e.id < n.id
          BY <1>2, <1>3, <1>10, <3>1
        <4> QED BY <1>8, <1>9, <3>2, <4>1, <4>2, <4>3
      <3>3. CASE d # w.call
        BY <1>7, <1>9, <3>1, <3>3 DEF InTurn, TurnsKept
      <3> QED BY <3>2, <3>3
    <2> QED BY <2>1, <2>2
  <1> QED BY <1>12, <1>13 DEF InTurn

\* What is published is first of the stream, and nothing earlier is left in it.
LEMMA TriesInTurn ==
  ASSUME TypeInv, TypeInv', OnePlace, InTurn, Tries
  PROVE  InTurn'
  <1>1. PICK w \in Entry : w = worker.entry /\ w.call \in Call /\ w # None
    BY NoneIsNoEntry DEF Tries, TypeInv, WorkerOK, HoldingPC, Entry
  <1>2. /\ UNCHANGED <<stream, admitted>>
        /\ worker'.entry \in {w, None}
    BY <1>1, RestType DEF Tries, TypeInv, TypeOK, WorkerState
  <1>3. Alive' \subseteq Alive /\ w \in Alive
    BY <1>1, <1>2 DEF Alive
  <1>4. \A e \in stream : e.call # w.call /\ w.id < e.id
    BY <1>1 DEF Tries, OnePlace, Placed, HandOK, HoldingPC
  <1>5. \A c \in Call : Live(c)' \subseteq Live(c)
    BY <1>1, <1>2 DEF Live
  <1>6. EntriesAreAdmitted'
    BY <1>2, <1>3 DEF InTurn, EntriesAreAdmitted
  <1>7. \A c \in Call : Reported(c)' =>
            \/ Reported(c)
            \/ c = w.call /\ w.type = "ReportReady"
    BY <1>1, OutcomeType DEF Tries, Reported, PublishedFor
  <1>8. TurnsKept'
    <2> SUFFICES ASSUME NEW e \in Alive', NEW d \in Call, Before(e.call, d)'
                 PROVE  /\ ~Reported(d)'
                        /\ \A f \in Live(d)' :
                            f.type = "ReportReady" => e.type = "ReportReady" /\ e.id < f.id
      BY DEF TurnsKept
    <2>1. e \in Alive /\ Before(e.call, d)
      BY <1>2, <1>3 DEF Before
    <2>2. /\ ~Reported(d)
          /\ \A f \in Live(d) :
                f.type = "ReportReady" => e.type = "ReportReady" /\ e.id < f.id
      BY <2>1 DEF InTurn, TurnsKept
    <2>3. ~(d = w.call /\ w.type = "ReportReady")
      <3> SUFFICES ASSUME d = w.call, w.type = "ReportReady" PROVE FALSE
        OBVIOUS
      <3>1. w \in Live(d)
        BY <1>1, LiveMember
      <3>2. e.id < w.id /\ e # w
        BY <2>1, <2>2, <3>1, AliveType DEF Entry
      <3>3. e \in stream
        BY <1>1, <2>1, <3>2 DEF Alive
      <3> QED BY <1>4, <2>1, <3>2, <3>3, AliveType DEF Entry
    <2> QED BY <1>5, <1>7, <2>2, <2>3
  <1> QED BY <1>6, <1>8 DEF InTurn

\* Every step leaves every document its turn.
LEMMA InTurnStep == TypeInv /\ OnePlace /\ InTurn /\ [Next]_vars => InTurn'
  <1> SUFFICES ASSUME TypeInv, OnePlace, InTurn, [Next]_vars PROVE InTurn'
    OBVIOUS
  <1>1. TypeInv'
    BY TypeStep
  <1>2. CASE Sheds
    <2>1. Alive' \subseteq Alive
      BY <1>2, RestType DEF Sheds, Alive
    <2> QED BY <1>1, <1>2, <2>1, FewerInTurn DEF Sheds
  <1>3. CASE ReadEntry \/ DeleteEntry
    <2>1. Alive' \subseteq Alive
      BY <1>3, ReadEntryType, DeleteEntryType DEF Alive
    <2> QED BY <1>1, <1>3, <2>1, FewerInTurn, ReadEntryType, DeleteEntryType
  <1> QED
    BY <1>1, <1>2, <1>3, StepEffect, RecordsInTurn, PreparesInTurn, TriesInTurn
    DEF Effect

\* At first nothing is on its way.
LEMMA InTurnInit == Init => InTurn
  <1> SUFFICES ASSUME Init PROVE InTurn
    OBVIOUS
  <1>1. Alive = {}
    BY RestType DEF Init, Alive
  <1> QED BY <1>1 DEF InTurn, EntriesAreAdmitted, TurnsKept

-----------------------------------------------------------------------------
(* The theorems *)

\* The inductive invariant of the pipeline holds in every reachable state: where a
\* document can be, in which order documents wait, and whose copies are retries.
THEOREM PipelineInductiveHolds == Spec => []PipelineInductive
  <1>1. Init => PipelineInductive
    BY TypeInit, OnePlaceInit, InTurnInit DEF PipelineInductive
  <1>2. PipelineInductive /\ [Next]_vars => PipelineInductive'
    BY TypeStep, OnePlaceStep, InTurnStep DEF PipelineInductive
  <1> QED BY <1>1, <1>2, PTL DEF Spec

\* No interleaving of gateway, Worker, crashes and lost entries makes two reports
\* of one document, or brings one back that was reported.
THEOREM OneCopyHolds == Spec => []OneCopy
  <1>1. PipelineInductive => OneCopy
    <2> SUFFICES ASSUME PipelineInductive, NEW c \in Call
                 PROVE  /\ \A e, f \in EntriesOf(c) : e = f
                        /\ InHand(c, {"preparing", "sending"}) => EntriesOf(c) = {}
                        /\ PublishedFor(c) # {} /\ ~InHand(c, {"sending"}) =>
                            EntriesOf(c) = {}
      BY DEF OneCopy
    <2>1. \A e, f \in EntriesOf(c) : e = f
      BY DEF PipelineInductive, OnePlace, Placed, OneEntry, EntriesOf
    <2>2. InHand(c, {"preparing", "sending"}) => EntriesOf(c) = {}
      BY DEF PipelineInductive, OnePlace, Placed, HandOK, HoldingPC, InHand, EntriesOf
    <2>3. PublishedFor(c) # {} => EntriesOf(c) = {}
      BY DEF PipelineInductive, OnePlace, Placed, LiveIsUnpublished, EntriesOf
    <2> QED BY <2>1, <2>2, <2>3
  <1> QED BY <1>1, PipelineInductiveHolds, PTL

\* Home hears of a document a second time only from a retry of the same send.
THEOREM CopiesAreRetriesHolds == Spec => []CopiesAreRetries
  <1>1. PipelineInductive => CopiesAreRetries
    BY DEF PipelineInductive, OnePlace, Placed
  <1> QED BY <1>1, PipelineInductiveHolds, PTL

\* Reports are prepared and published in the order their requests were recorded,
\* although every report passes through the stream twice.
THEOREM FirstComeFirstServedHolds == Spec => []FirstComeFirstServed
  <1>1. PipelineInductive => FirstComeFirstServed
    <2> SUFFICES ASSUME PipelineInductive, NEW c \in Call, NEW d \in Call,
                        admitted[c] # 0, admitted[c] < admitted[d]
                 PROVE  /\ Waiting(c) => ~Ready(d)
                        /\ Live(c) # {} => ~Reported(d)
      BY DEF FirstComeFirstServed
    <2>1. Before(c, d)
      BY AliveType DEF PipelineInductive, Before
    <2>2. \A e \in Live(c) :
            /\ ~Reported(d)
            /\ \A f \in Live(d) : f.type = "ReportReady" => e.type = "ReportReady"
      BY <2>1, AliveType DEF PipelineInductive, InTurn, TurnsKept
    <2> QED BY <2>2 DEF Waiting, Ready
  <1> QED BY <1>1, PipelineInductiveHolds, PTL

=============================================================================
