--------------------------- MODULE KahinPipeline ---------------------------
(***************************************************************************)
(* From a report request to its outcome, across three systems:             *)
(*                                                                         *)
(*  - GamersWorld.EventHost (HOME) takes a ReportRequestedEvent and posts  *)
(*    it to Kahin, with retries (NewReportRequest);                        *)
(*  - Kahin.Service.ReportingGateway (MIDDLE EARTH) has every call audited *)
(*    by Eval.AuditApi (HAL) and writes its outcome to a Redis stream;     *)
(*  - the Worker of Kahin.EventHost takes the entries of the stream one at *)
(*    a time: it prepares the report and writes a second entry, or posts   *)
(*    the outcome to GamersWorld.Service.Gateway (HOME), with retries;     *)
(*  - that service publishes an event, and a driver of EventHost stores    *)
(*    the report or tells its owner that the expression is invalid.        *)
(*                                                                         *)
(* A call that is made again is a new call: Kahin audits it again and      *)
(* gives it a document of its own, so a Call also stands for its document. *)
(***************************************************************************)
EXTENDS Naturals, FiniteSets

CONSTANTS
    Request,      \* report requests the owners send
    MaxAttempts,  \* attempts of a resilience pipeline: the first and the retries
    Faults,       \* the kinds of failure a run of the model may meet
    None          \* no entry

Attempt == 1 .. MaxAttempts
Call == Request \X Attempt

FaultKinds ==
    {"request",  \* the connection of a call to Kahin breaks
     "outage",   \* HAL answers with an error
     "garbled",  \* HAL cannot be reached, or its answer cannot be read
     "redis",    \* a Redis command throws
     "expire",   \* the stream outlives its TTL
     "refusal",  \* a call to Home fails before anything is published
     "answer",   \* a call to Home fails after its event was published
     "handler",  \* a driver of EventHost fails without ending the process
     "host",     \* EventHost ends
     "worker"}   \* Kahin.EventHost ends

VARIABLES
    driver,     \* driver[r]: where NewReportRequest is with request r
    attempt,    \* attempt[r]: the attempt of its resilience pipeline
    eventHost,  \* is EventHost, which runs all drivers, up?
    gateway,    \* gateway[c]: where the handler of Kahin's gateway is with call c
    stream,     \* the entries of the Redis stream
    lastId,     \* the last entry id Redis gave
    admitted,   \* admitted[c]: the id of the first entry of call c; history only
    worker,     \* the Worker of Kahin.EventHost and its local variables
    published,  \* the outcome events Home's gateway ever published; history only
    queue,      \* those of them that wait in RabbitMQ
    handled     \* those of them that were stored or told; history only

homeVars == <<driver, attempt, eventHost>>
kahinVars == <<gateway, stream, lastId, admitted>>
eventVars == <<published, queue, handled>>
vars == <<homeVars, kahinVars, worker, eventVars>>

ASSUME PipelineAssumption ==
    /\ MaxAttempts \in Nat \ {0}
    /\ Faults \subseteq FaultKinds

EntryType == {"ReportRequested", "ReportReady", "AuditFail"}
Entry == [id : Nat \ {0}, type : EntryType, call : Call]

ASSUME NoneIsNoEntry == None \notin Entry

\* copy: the first, second... event published for a document; attempt: the
\* attempt of the Worker's resilience pipeline that made Home publish it.
Event ==
    [type : {"ReportReady", "AuditFail"}, call : Call,
     copy : Nat \ {0}, attempt : Attempt]

DriverPC == {"new", "queued", "posting", "done", "failed"}
GatewayPC == {"none", "validating", "accepting", "refusing", "ok", "failed"}
WorkerPC == {"idle", "popping", "preparing", "sending", "down"}

WorkerState ==
    [pc : WorkerPC, entry : Entry \cup {None}, attempt : 0 .. MaxAttempts]

TypeOK ==
    /\ driver \in [Request -> DriverPC]
    /\ attempt \in [Request -> 0 .. MaxAttempts]
    /\ eventHost \in {"up", "down"}
    /\ gateway \in [Call -> GatewayPC]
    /\ stream \subseteq Entry
    /\ lastId \in Nat
    /\ admitted \in [Call -> 0 .. lastId]
    /\ worker \in WorkerState
    /\ published \subseteq Event
    /\ queue \subseteq published
    /\ handled \subseteq published

Resting == [pc |-> "idle", entry |-> None, attempt |-> 0]
Down == [pc |-> "down", entry |-> None, attempt |-> 0]

Init ==
    /\ driver = [r \in Request |-> "new"]
    /\ attempt = [r \in Request |-> 0]
    /\ eventHost = "up"
    /\ gateway = [c \in Call |-> "none"]
    /\ stream = {}
    /\ lastId = 0
    /\ admitted = [c \in Call |-> 0]
    /\ worker = Resting
    /\ published = {}
    /\ queue = {}
    /\ handled = {}

-----------------------------------------------------------------------------
(* HOME: NewReportRequest *)

CallOf(r) == <<r, attempt[r]>>

\* The Messenger service has checked title and expression, and publishes; the
\* request waits in RabbitMQ, whether EventHost is up or not.
Submit(r) ==
    /\ driver[r] = "new"
    /\ driver' = [driver EXCEPT ![r] = "queued"]
    /\ UNCHANGED <<attempt, eventHost, kahinVars, worker, eventVars>>

Post(r) ==
    /\ eventHost = "up" /\ driver[r] = "queued"
    /\ driver' = [driver EXCEPT ![r] = "posting"]
    /\ attempt' = [attempt EXCEPT ![r] = 1]
    /\ UNCHANGED <<eventHost, kahinVars, worker, eventVars>>

\* Both outcomes of the audit answer 200: the driver only logs which it was.
PostAnswered(r) ==
    /\ driver[r] = "posting"
    /\ gateway[CallOf(r)] = "ok"
    /\ driver' = [driver EXCEPT ![r] = "done"]
    /\ UNCHANGED <<attempt, eventHost, kahinVars, worker, eventVars>>

\* Variant: every answer but Success is a failure to the retry strategy.
PostFailedOrRefused(r) ==
    /\ driver[r] = "posting"
    /\ \/ gateway[CallOf(r)] \in {"failed", "ok"}
       \/ "request" \in Faults

\* The retry strategy makes the call again after a 5xx answer, or after an
\* exception, when it cannot know how far Kahin has come with it.
PostFailed(r) ==
    /\ driver[r] = "posting"
    /\ \/ gateway[CallOf(r)] = "failed"
       \/ "request" \in Faults

PostAgain(r) ==
    /\ PostFailed(r)
    /\ attempt[r] < MaxAttempts
    /\ attempt' = [attempt EXCEPT ![r] = @ + 1]
    /\ UNCHANGED <<driver, eventHost, kahinVars, worker, eventVars>>

\* The last answer is an error: the driver logs it and nobody is told.
PostGivenUp(r) ==
    /\ driver[r] = "posting"
    /\ gateway[CallOf(r)] = "failed"
    /\ attempt[r] = MaxAttempts
    /\ driver' = [driver EXCEPT ![r] = "failed"]
    /\ UNCHANGED <<attempt, eventHost, kahinVars, worker, eventVars>>

\* EventHost ends: its drivers vanish, and with autoAck so does any message
\* the broker had sent it.  The other messages stay in RabbitMQ.
EventHostStops ==
    /\ eventHost' = "down"
    /\ \E taken \in SUBSET {r \in Request : driver[r] = "queued"} :
        driver' = [r \in Request |->
            IF driver[r] = "posting" \/ r \in taken THEN "failed" ELSE driver[r]]
    /\ queue' \in SUBSET queue
    /\ UNCHANGED <<attempt, kahinVars, worker, published, handled>>

\* The exception leaves the pipeline after the last attempt, or with the
\* timeout of HttpClient that covers all of them, and ends the process: the
\* handler of EventConsumer is async void.
PostThrows(r) ==
    /\ "request" \in Faults
    /\ driver[r] = "posting"
    /\ EventHostStops

CrashEventHost ==
    /\ "host" \in Faults
    /\ eventHost = "up"
    /\ EventHostStops

StartEventHost ==
    /\ eventHost = "down"
    /\ eventHost' = "up"
    /\ UNCHANGED <<driver, attempt, kahinVars, worker, eventVars>>

-----------------------------------------------------------------------------
(* MIDDLE EARTH: the POST "/" of Kahin.Service.ReportingGateway *)

GatewayGoes(c, pc) == gateway' = [gateway EXCEPT ![c] = pc]

ReceivePost(r) ==
    /\ driver[r] = "posting"
    /\ gateway[CallOf(r)] = "none"
    /\ GatewayGoes(CallOf(r), "validating")
    /\ UNCHANGED <<homeVars, stream, lastId, admitted, worker, eventVars>>

\* ExpressionValidator draws lots: another call of the same request may be
\* judged differently.
Verdict == {"accepting", "refusing"}

Audited(c) ==
    /\ gateway[c] = "validating"
    /\ \E verdict \in Verdict : GatewayGoes(c, verdict)
    /\ UNCHANGED <<homeVars, stream, lastId, admitted, worker, eventVars>>

\* ValidateExpression takes an error that outlasts its retries for a verdict.
AuditAnswersError(c) ==
    /\ "outage" \in Faults
    /\ gateway[c] = "validating"
    /\ GatewayGoes(c, "refusing")
    /\ UNCHANGED <<homeVars, stream, lastId, admitted, worker, eventVars>>

\* ValidateExpression throws, and the gateway answers 500.
AuditThrows(c) ==
    /\ "garbled" \in Faults
    /\ gateway[c] = "validating"
    /\ GatewayGoes(c, "failed")
    /\ UNCHANGED <<homeVars, stream, lastId, admitted, worker, eventVars>>

\* The gateway ends in the middle of a call.
GatewayStops(c) ==
    /\ "request" \in Faults
    /\ gateway[c] \in {"validating", "accepting", "refusing"}
    /\ GatewayGoes(c, "failed")
    /\ UNCHANGED <<homeVars, stream, lastId, admitted, worker, eventVars>>

\* AddReportPayloadAsync: StreamAdd, then KeyExpire on the whole stream.
Add(type, c) ==
    /\ lastId' = lastId + 1
    /\ stream' = stream \cup {[id |-> lastId + 1, type |-> type, call |-> c]}

OutcomeOf(c) == IF gateway[c] = "accepting" THEN "ReportRequested" ELSE "AuditFail"

\* Variant: an invalid expression is answered, but not written to the stream.
RecordAccepted(c) ==
    /\ gateway[c] \in {"accepting", "refusing"}
    /\ IF gateway[c] = "accepting"
         THEN Add("ReportRequested", c)
         ELSE UNCHANGED <<stream, lastId>>
    /\ admitted' = [admitted EXCEPT ![c] = lastId']
    /\ GatewayGoes(c, "ok")
    /\ UNCHANGED <<homeVars, worker, eventVars>>

Record(c) ==
    /\ gateway[c] \in {"accepting", "refusing"}
    /\ Add(OutcomeOf(c), c)
    /\ admitted' = [admitted EXCEPT ![c] = lastId']
    /\ GatewayGoes(c, "ok")
    /\ UNCHANGED <<homeVars, worker, eventVars>>

\* Either command throws: the caller gets a 500 and calls again, although the
\* entry may be in the stream.
RecordThrows(c) ==
    /\ "redis" \in Faults
    /\ gateway[c] \in {"accepting", "refusing"}
    /\ \/ UNCHANGED <<stream, lastId, admitted>>
       \/ /\ Add(OutcomeOf(c), c)
          /\ admitted' = [admitted EXCEPT ![c] = lastId']
    /\ GatewayGoes(c, "failed")
    /\ UNCHANGED <<homeVars, worker, eventVars>>

-----------------------------------------------------------------------------
(* MIDDLE EARTH: the Redis stream and the Worker of Kahin.EventHost *)

\* One TTL for the whole stream, set again with every entry.
StreamExpires ==
    /\ "expire" \in Faults
    /\ stream # {}
    /\ stream' = {}
    /\ UNCHANGED <<homeVars, gateway, lastId, admitted, worker, eventVars>>

Holding(pc, entry, n) == [pc |-> pc, entry |-> entry, attempt |-> n]

\* Variant: an entry other than the first is read.
ReadEntryAnywhere ==
    /\ worker.pc = "idle"
    /\ \E e \in stream : worker' = Holding("popping", e, 0)
    /\ UNCHANGED <<homeVars, kahinVars, eventVars>>

\* Pop, the read: the first entry of the stream.  On an empty stream Pop
\* returns NotActive, which the Worker ignores.
ReadEntry ==
    /\ worker.pc = "idle"
    /\ \E e \in stream :
        /\ \A other \in stream : e.id <= other.id
        /\ worker' = Holding("popping", e, 0)
    /\ UNCHANGED <<homeVars, kahinVars, eventVars>>

\* Variant: Peek for Pop.
KeepEntry ==
    /\ worker.pc = "popping"
    /\ worker' = IF worker.entry.type = "ReportRequested"
                   THEN Holding("preparing", worker.entry, 0)
                   ELSE Holding("sending", worker.entry, 1)
    /\ UNCHANGED <<homeVars, kahinVars, eventVars>>

\* Variant: the payload of ReportRequested is sent like any other.
DeleteEntryUnprepared ==
    /\ worker.pc = "popping"
    /\ stream' = stream \ {worker.entry}
    /\ worker' = Holding("sending", worker.entry, 1)
    /\ UNCHANGED <<homeVars, gateway, lastId, admitted, eventVars>>

\* Pop, the deletion: from here on only the Worker knows of the entry.
DeleteEntry ==
    /\ worker.pc = "popping"
    /\ stream' = stream \ {worker.entry}
    /\ worker' = IF worker.entry.type = "ReportRequested"
                   THEN Holding("preparing", worker.entry, 0)
                   ELSE Holding("sending", worker.entry, 1)
    /\ UNCHANGED <<homeVars, gateway, lastId, admitted, eventVars>>

\* Variant: the prepared report is not written to the stream.
PrepareOnly ==
    /\ worker.pc = "preparing"
    /\ worker' = Resting
    /\ UNCHANGED <<homeVars, kahinVars, eventVars>>

\* PrepareReportAsync: the same payload goes back to the end of the stream.
Prepare ==
    /\ worker.pc = "preparing"
    /\ Add("ReportReady", worker.entry.call)
    /\ worker' = Resting
    /\ UNCHANGED <<homeVars, gateway, admitted, eventVars>>

PublishedFor(c) == {m \in published : m.call = c}

Outcome ==
    [type |-> worker.entry.type, call |-> worker.entry.call,
     copy |-> Cardinality(PublishedFor(worker.entry.call)) + 1,
     attempt |-> worker.attempt]

\* PublishEvent of RabbitMqService.
Enqueue(m) == queue' = queue \cup {m}

\* The gateway of HOME publishes ReportReadyEvent or InvalidExpressionEvent.
Publish ==
    /\ published' = published \cup {Outcome}
    /\ Enqueue(Outcome)
    /\ UNCHANGED handled

Send ==
    /\ worker.pc = "sending"
    /\ Publish
    /\ worker' = Resting
    /\ UNCHANGED <<homeVars, kahinVars>>

\* An attempt fails, before or after the event was published.
SendAttemptFails ==
    \/ "answer" \in Faults /\ Publish
    \/ "refusal" \in Faults /\ UNCHANGED eventVars

\* Variant: the retries are not counted.
SendAgainForEver ==
    /\ worker.pc = "sending"
    /\ worker.attempt <= MaxAttempts
    /\ SendAttemptFails
    /\ worker' = [worker EXCEPT !.attempt = @ + 1]
    /\ UNCHANGED <<homeVars, kahinVars>>

SendAgain ==
    /\ worker.pc = "sending"
    /\ worker.attempt < MaxAttempts
    /\ SendAttemptFails
    /\ worker' = [worker EXCEPT !.attempt = @ + 1]
    /\ UNCHANGED <<homeVars, kahinVars>>

\* The exception that ends the attempts (the last one's, or the timeout of
\* HttpClient) leaves ExecuteAsync and stops the host; the entry is lost.
SendThrows ==
    /\ worker.pc = "sending"
    /\ SendAttemptFails
    /\ worker' = Down
    /\ UNCHANGED <<homeVars, kahinVars>>

\* A Redis command of the Worker throws, done or not, and stops the host.
WorkerRedisThrows ==
    /\ "redis" \in Faults
    /\ worker.pc \in {"idle", "popping", "preparing"}
    /\ \/ UNCHANGED <<stream, lastId>>
       \/ /\ worker.pc = "popping"
          /\ stream' = stream \ {worker.entry}
          /\ UNCHANGED lastId
       \/ /\ worker.pc = "preparing"
          /\ Add("ReportReady", worker.entry.call)
    /\ worker' = Down
    /\ UNCHANGED <<homeVars, gateway, admitted, eventVars>>

CrashWorker ==
    /\ "worker" \in Faults
    /\ worker.pc # "down"
    /\ worker' = Down
    /\ UNCHANGED <<homeVars, kahinVars, eventVars>>

StartWorker ==
    /\ worker.pc = "down"
    /\ worker' = Resting
    /\ UNCHANGED <<homeVars, kahinVars, eventVars>>

-----------------------------------------------------------------------------
(* HOME: the drivers of the outcome events *)

\* ReportDocumentAvailable stores the report (see ReportLifecycle), or
\* InvalidExpression tells the owner.
Handle(m) ==
    /\ eventHost = "up" /\ m \in queue
    /\ queue' = queue \ {m}
    /\ handled' = handled \cup {m}
    /\ UNCHANGED <<homeVars, kahinVars, worker, published>>

\* The content cannot be fetched or stored: ReportDocumentAvailable logs it.
\* A notification that cannot be sent is a CrashEventHost.
HandleFails(m) ==
    /\ "handler" \in Faults
    /\ eventHost = "up" /\ m \in queue
    /\ m.type = "ReportReady"
    /\ queue' = queue \ {m}
    /\ UNCHANGED <<homeVars, kahinVars, worker, published, handled>>

-----------------------------------------------------------------------------

DriverStep(r) ==
    \/ Post(r) \/ ReceivePost(r) \/ PostAnswered(r) \/ PostAgain(r)
    \/ PostGivenUp(r) \/ PostThrows(r)

GatewayStep(c) ==
    \/ Audited(c) \/ AuditAnswersError(c) \/ AuditThrows(c)
    \/ Record(c) \/ RecordThrows(c)

WorkerStep ==
    \/ ReadEntry \/ DeleteEntry \/ Prepare
    \/ Send \/ SendAgain \/ SendThrows \/ WorkerRedisThrows

HandlerStep(m) == Handle(m) \/ HandleFails(m)

Next ==
    \/ \E r \in Request : Submit(r) \/ DriverStep(r)
    \/ \E c \in Call : GatewayStep(c) \/ GatewayStops(c)
    \/ WorkerStep
    \/ \E m \in queue : HandlerStep(m)
    \/ StreamExpires
    \/ CrashWorker \/ StartWorker
    \/ CrashEventHost \/ StartEventHost

Spec == Init /\ [][Next]_vars

\* Every process that is up and can go on goes on.  Nothing is assumed of users,
\* and nobody has to start a Worker or an EventHost that has ended: they are
\* started once, in a terminal, and nothing watches them.
Fairness ==
    /\ \A r \in Request : WF_vars(DriverStep(r))
    /\ \A c \in Call : WF_vars(GatewayStep(c))
    /\ WF_vars(WorkerStep)
    /\ WF_vars(\E m \in queue : HandlerStep(m))

FairSpec == Spec /\ Fairness

-----------------------------------------------------------------------------
(* Properties *)

EntriesOf(c) == {e \in stream : e.call = c}

\* The entry the Worker has taken out of the stream.
InHand(c, pc) == worker.pc \in pc /\ worker.entry.call = c

\* A document is in one place at a time: in the stream, in the hands of the
\* Worker or, once its outcome was published, in neither, except while the
\* Worker tries to send the same outcome again.  Two entries of one document
\* would be two reports.
OneCopy ==
    \A c \in Call :
        /\ \A e, f \in EntriesOf(c) : e = f
        /\ InHand(c, {"preparing", "sending"}) => EntriesOf(c) = {}
        /\ PublishedFor(c) # {} /\ ~InHand(c, {"sending"}) => EntriesOf(c) = {}

\* Reports are prepared in the order their requests were recorded, and their
\* owners learn of them in that order: while an earlier request is anywhere on
\* its way, a later one is not published, and while it waits to be prepared, a
\* later one is not prepared.  (Refused requests need no preparation and do
\* overtake.)
Live(c) == {e \in (stream \cup {worker.entry}) \ {None} : e.call = c}

Waiting(c) == \E e \in Live(c) : e.type = "ReportRequested"

Ready(c) == \E e \in Live(c) : e.type = "ReportReady"

Reported(c) == \E m \in PublishedFor(c) : m.type = "ReportReady"

FirstComeFirstServed ==
    \A c, d \in Call :
        admitted[c] # 0 /\ admitted[c] < admitted[d] =>
            /\ Waiting(c) => ~Ready(d)
            /\ Live(c) # {} /\ PublishedFor(c) = {} => ~Reported(d)

\* Home hears of a document a second time only from a later attempt of the same
\* send, that is, when an answer of its gateway was lost: no crash of the Worker
\* or of EventHost, no Redis command that fails half way and no retry towards
\* Kahin makes a second event.  ReportLifecycle rests on it where it assumes
\* that no document is reported as ready twice.
CopiesAreRetries ==
    \A m, n \in published :
        m.call = n.call /\ m.copy < n.copy => m.attempt < n.attempt

\* A request has one outcome at most: it is not made twice, and its owner is not
\* told that an expression is invalid whose report arrives all the same.  This
\* survives crashes, refusals and an expired stream; it needs every call that
\* reaches Kahin to be answered.
OneOutcome ==
    \A m, n \in published : m.call[1] = n.call[1] => m = n

\* Every request in the queue is reported in the end, with a report or a refusal,
\* unless EventHost fails it, or ends before it takes the request, which then
\* waits for whoever starts EventHost again: HAL's failures, other requests'
\* failures, and calls of which EventHost does not know what became, are no reason
\* to forget a request.
RequestsAreReported ==
    \A r \in Request :
        driver[r] = "queued" ~>
            \/ driver[r] = "failed"
            \/ driver[r] = "queued" /\ eventHost = "down"
            \/ \E m \in published : m.call[1] = r

\* Once Kahin has recorded a request, Home learns its outcome, whatever becomes
\* of the caller: Kahin does not depend on anyone waiting for the answer.
RecordedIsReported ==
    \A c \in Call : EntriesOf(c) # {} ~> PublishedFor(c) # {}

\* A document goes forward or is lost, and a lost one never comes back: see
\* DocumentProgress.
StageOf(c) ==
    LET reported == PublishedFor(c) # {}
        live == Live(c) # {}
    IN  CASE reported                                       -> "reported"
          [] ~reported /\ Waiting(c)                        -> "waiting"
          [] ~reported /\ live /\ ~Waiting(c)               -> "outcome"
          [] ~reported /\ ~live /\ admitted[c] # 0          -> "lost"
          [] ~reported /\ ~live /\ admitted[c] = 0          -> "absent"

Progress ==
    INSTANCE DocumentProgress WITH
        Document <- Call,
        stage <- [c \in Call |-> StageOf(c)]

KeepsProgress == Progress!ProgressSpec

=============================================================================
