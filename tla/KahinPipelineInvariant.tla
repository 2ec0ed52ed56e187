----------------------- MODULE KahinPipelineInvariant -----------------------
(***************************************************************************)
(* The inductive invariant behind the theorems of KahinPipelineProofs,     *)
(* apart from the proofs so that TLC can check it too.                     *)
(***************************************************************************)
EXTENDS KahinPipeline

(* What type correctness rests on. *)

HoldingPC == {"popping", "preparing", "sending"}

WorkerOK ==
    /\ worker.pc \in HoldingPC =>
        worker.entry \in Entry /\ worker.entry.id <= lastId
    /\ worker.pc \notin HoldingPC => worker.entry = None
    /\ worker.pc = "preparing" => worker.entry.type = "ReportRequested"
    /\ worker.pc = "sending" =>
        worker.entry.type # "ReportRequested" /\ worker.attempt \in Attempt

StreamOK ==
    /\ \A e \in stream : e.id <= lastId
    /\ \A e, f \in stream : e.id = f.id => e = f

PublishedOK == IsFiniteSet(published)

\* While a driver makes calls EventHost is up, and it is at one of its attempts.
PostingOK ==
    \A r \in Request :
        driver[r] = "posting" => eventHost = "up" /\ attempt[r] \in Attempt

TypeInv == TypeOK /\ WorkerOK /\ StreamOK /\ PublishedOK /\ PostingOK

-----------------------------------------------------------------------------
(* A document is in one place. *)

\* The gateway has not written call c to the stream yet.
UnrecordedPC == {"none", "validating", "accepting", "refusing"}

Unseen(c) ==
    /\ admitted[c] = 0
    /\ Live(c) = {}
    /\ PublishedFor(c) = {}

UnrecordedIsUnseen ==
    \A c \in Call : gateway[c] \in UnrecordedPC => Unseen(c)

OneEntry == \A e, f \in stream : e.call = f.call => e = f

\* The stream may still hold the entry that Pop has read, and nothing else of
\* its document; after the deletion not even that.
HandOK ==
    worker.pc \in HoldingPC =>
        \A e \in stream :
            /\ e.call = worker.entry.call => e = worker.entry /\ worker.pc = "popping"
            /\ e # worker.entry => worker.entry.id < e.id

\* Only a document that is being sent may have been published before, and then
\* by earlier attempts.
LiveIsUnpublished ==
    /\ \A e \in stream : PublishedFor(e.call) = {}
    /\ worker.pc \in {"popping", "preparing"} => PublishedFor(worker.entry.call) = {}
    /\ worker.pc = "sending" =>
        \A m \in PublishedFor(worker.entry.call) : m.attempt < worker.attempt

CopiesCounted ==
    \A m \in published : m.copy <= Cardinality(PublishedFor(m.call))

Placed ==
    OneEntry /\ HandOK /\ LiveIsUnpublished /\ CopiesCounted /\ CopiesAreRetries

OnePlace == UnrecordedIsUnseen /\ Placed

-----------------------------------------------------------------------------
(* Documents keep their turn. *)

Alive == (stream \cup {worker.entry}) \ {None}

\* The first entry of a document has the id it was admitted with; a later one
\* can only be that of its prepared report.
EntriesAreAdmitted ==
    \A e \in Alive :
        /\ 0 < admitted[e.call] /\ admitted[e.call] <= e.id
        /\ e.type # "ReportReady" => e.id = admitted[e.call]

\* A document that was admitted earlier and is still on its way holds every
\* later one back.
Before(c, d) == 0 < admitted[c] /\ admitted[c] < admitted[d]

TurnsKept ==
    \A e \in Alive, d \in Call : Before(e.call, d) =>
        /\ ~Reported(d)
        /\ \A f \in Live(d) :
            f.type = "ReportReady" => e.type = "ReportReady" /\ e.id < f.id

InTurn == EntriesAreAdmitted /\ TurnsKept

\* In every reachable state a document is in one place only (an entry of the
\* stream, the hands of the Worker, or published), and those places are in the
\* order Kahin's gateway admitted the documents in, retries and restarts included.
PipelineInductive == TypeInv /\ OnePlace /\ InTurn

-----------------------------------------------------------------------------
(* A request has one outcome: what holds while every call is answered. *)

EveryCallIsAnswered == Faults \cap {"request", "redis", "answer"} = {}

\* EventHost has called up to its current attempt, and failed before.
AttemptsInTurn ==
    \A r \in Request :
        /\ driver[r] \in {"new", "queued"} => attempt[r] = 0
        /\ \A n \in Attempt :
            /\ n > attempt[r] => gateway[<<r, n>>] = "none"
            /\ n < attempt[r] => gateway[<<r, n>>] = "failed"

\* An answer of 500 is true.
FailedIsUnseen == \A c \in Call : gateway[c] = "failed" => Unseen(c)

\* No event has a second copy.
PublishedOnce ==
    /\ \A m, n \in published : m.call = n.call => m = n
    /\ worker.pc = "sending" => PublishedFor(worker.entry.call) = {}

\* While every call of the gateway is answered, EventHost also calls again only
\* after a failure that left no trace, and no event is published twice.
OutcomeInductive ==
    PipelineInductive /\ AttemptsInTurn /\ FailedIsUnseen /\ PublishedOnce

=============================================================================
