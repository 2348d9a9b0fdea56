----------------------------- MODULE TrainingRun -----------------------------
(***************************************************************************)
(* Training processes that record their dataset, their checkpoints and     *)
(* their evaluations in one ledger (ECLTrainerCallback of                  *)
(* integrations/huggingface.py and ECLRayTrainCallback of ray.py; Axolotl  *)
(* and PyTorch append the same events without a callback's memory).        *)
(*                                                                         *)
(* Every callback is one append of Ledger.  What a process keeps between   *)
(* its callbacks is the content hash of the dataset it registered: set     *)
(* when on_train_begin returns, carried by every later event, and gone     *)
(* when the process ends.  A distributed run has one callback per rank on  *)
(* the same ledger_path, so the appends race.                              *)
(***************************************************************************)
EXTENDS Ledger

CONSTANTS
    RayWorker,  \* the writers that use the Ray callback, not the Hugging Face one
    DatasetRef, \* DatasetRef[w]: the dataset_ref w's callback was built with
    MaxEvents,  \* bound: the events a writer appends
    MaxLives,   \* bound: the times a writer's process is started
    MaxFailures \* bound: the failures, which are of different kinds

VARIABLES
    last,       \* last[w]: last_dataset_hash, or Ray's dataset_hash, of w's callback
    life        \* life[w]: which start of w's process this is

tvars == <<vars, last, life>>

\* A dataset_ref is a location and what SourceUriPolicy.strip takes off it.
Ref == [root : {DatasetRef[w].root : w \in Writer}, rest : {DatasetRef[w].rest : w \in Writer}]

Stripped == "stripped"

\* SignalHasher.fingerprint of a reference alone: of all it hashes only the
\* stripped reference is not a constant.
ContentHash(ref) == [of |-> "content", root |-> ref.root, rest |-> Stripped]

\* sha256_hex of the reference as it was given.
ReferenceHash(ref) == [of |-> "reference", root |-> ref.root, rest |-> ref.rest]

\* None, before on_train_begin.
Unregistered == [of |-> "none", root |-> Stripped, rest |-> Stripped]

DatasetHash == {ContentHash(r) : r \in Ref} \cup {ReferenceHash(r) : r \in Ref}

\* The events of the callback; life stands for the training_run_id.  A
\* checkpoint and an evaluation both record one exposed dataset hash.
TrainingEvent ==
    [kind : {"data_ingest", "exposure"},
     dataset : DatasetHash, life : 1..MaxLives, n : 1..MaxEvents]

ASSUME TrainingAssumption ==
    /\ RayWorker \subseteq Writer
    /\ \A w \in Writer : DatasetRef[w] = [root |-> DatasetRef[w].root, rest |-> DatasetRef[w].rest]
    /\ MaxEvents \in Nat /\ MaxLives \in Nat /\ MaxFailures \in Nat
    /\ EventId = TrainingEvent

TrainingInit ==
    /\ Init
    /\ last = [w \in Writer |-> Unregistered]
    /\ life = [w \in Writer |-> 1]

-----------------------------------------------------------------------------
AppendedBy(w) == Cardinality({b \in used : b[1] = w})

\* A callback builds its event and appends it, which is not over before write.
Callback(w, kind, dataset) ==
    /\ life[w] <= MaxLives /\ AppendedBy(w) < MaxEvents
    /\ Prepare(w, <<w, [kind |-> kind, dataset |-> dataset, life |-> life[w],
                        n |-> AppendedBy(w) + 1]>>)

\* A plausible bug: last_dataset_hash is set before the dataset is registered.
RememberFirst(w) ==
    /\ w \notin RayWorker
    /\ Callback(w, "data_ingest", ContentHash(DatasetRef[w]))
    /\ last' = [last EXCEPT ![w] = ContentHash(DatasetRef[w])]
    /\ UNCHANGED life

\* on_train_begin, up to the write of register_hf_dataset.
OnTrainBegin(w) ==
    /\ w \notin RayWorker
    /\ Callback(w, "data_ingest", ContentHash(DatasetRef[w]))
    /\ UNCHANGED <<last, life>>

\* The hash on_save and on_evaluate record.
Exposed(w) ==
    IF last[w] = Unregistered THEN ReferenceHash(DatasetRef[w]) ELSE last[w]

OnSave(w) ==
    /\ w \notin RayWorker
    /\ Callback(w, "exposure", Exposed(w))
    /\ UNCHANGED <<last, life>>

OnEvaluate(w) ==
    /\ w \notin RayWorker
    /\ Callback(w, "exposure", Exposed(w))
    /\ UNCHANGED <<last, life>>

\* start_training registers as on_train_begin does.
StartTraining(w) ==
    /\ w \in RayWorker
    /\ Callback(w, "data_ingest", ContentHash(DatasetRef[w]))
    /\ UNCHANGED <<last, life>>

\* A Ray worker passes the dataset_hash of its callback on, and the event cannot
\* be built from None.
LogRayCheckpoint(w) ==
    /\ w \in RayWorker /\ last[w] # Unregistered
    /\ Callback(w, "exposure", last[w])
    /\ UNCHANGED <<last, life>>

LogRayEvalOutcome(w) ==
    /\ w \in RayWorker /\ last[w] # Unregistered
    /\ Callback(w, "exposure", last[w])
    /\ UNCHANGED <<last, life>>

\* append returns, and on_train_begin or start_training keeps the hash of what it
\* registered.
CallbackReturns(w) ==
    /\ Write(w)
    /\ last' = IF pending[w][2].kind = "data_ingest"
               THEN [last EXCEPT ![w] = pending[w][2].dataset]
               ELSE last
    /\ UNCHANGED life

\* The processes of W end; those started next have new callbacks.
StartAgain(W) ==
    /\ last' = [w \in Writer |-> IF w \in W THEN Unregistered ELSE last[w]]
    /\ life' = [w \in Writer |-> IF w \in W /\ life[w] <= MaxLives
                                 THEN life[w] + 1 ELSE life[w]]

MayFail(kind) == kind \notin failures /\ Cardinality(failures) < MaxFailures

\* The write raises: the trainer ends, or its user catches the exception.
CallbackRaises(w) ==
    /\ MayFail("torn_write")
    /\ TornWrite(w)
    /\ StartAgain({w}) \/ UNCHANGED <<last, life>>

\* The process is killed, or raises before anything is written.
KilledInCallback(w) ==
    /\ MayFail("kill")
    /\ Kill(w)
    /\ StartAgain({w}) \/ UNCHANGED <<last, life>>

\* A run that is over, or stopped between its callbacks, is started again.
Rerun(w) ==
    /\ phase[w] = "idle" /\ life[w] < MaxLives
    /\ StartAgain({w})
    /\ UNCHANGED vars

Outage == MayFail("power_loss") /\ PowerLoss /\ StartAgain(Writer)

TrainingNext ==
    \/ \E w \in Writer :
         \/ OnTrainBegin(w) \/ OnSave(w) \/ OnEvaluate(w)
         \/ StartTraining(w) \/ LogRayCheckpoint(w) \/ LogRayEvalOutcome(w)
         \/ CallbackReturns(w) \/ CallbackRaises(w) \/ KilledInCallback(w)
         \/ Rerun(w)
    \/ Outage

TrainingSpec == TrainingInit /\ [][TrainingNext]_tvars

\* A process that is still running reaches its write: nothing blocks it.
FairTrainingSpec ==
    TrainingSpec /\ \A w \in Writer : WF_tvars(CallbackReturns(w))

-----------------------------------------------------------------------------
(***************************************************************************)
(* Properties.  The ledger's own (Ledger) hold of a training run as well.  *)
(***************************************************************************)
\* iter_events(dataset_hash=...) of a readable file: the lines it yields.
OfDataset(h) == {i \in Events : file[i].body[2].dataset = h}

\* The lines before the first that does not parse.
Legible == {i \in DOMAIN file : \A k \in 1..i : file[k].ok}

SameRun(i, j) ==
    file[i].body[1] = file[j].body[1] /\ file[i].body[2].life = file[j].body[2].life

\* Whatever races, is torn, killed or lost, what a checkpoint or an
\* evaluation was exposed to can be looked up: querying the ledger for its
\* dataset hash yields the data_ingest event of its own run before it, and it
\* carries the bare hash of the reference only if its run has none before it
\* (ECLTrainerCallback.on_save, on_evaluate; LocalEventReplay.iter_events).
ExposuresNameAnIngest ==
    \A i \in Legible :
        LET Ingests == {j \in 1..(i-1) : SameRun(i, j) /\ file[j].body[2].kind = "data_ingest"}
        IN  file[i].body[2].kind # "data_ingest" =>
                IF file[i].body[2].dataset.of = "content"
                THEN Ingests \cap OfDataset(file[i].body[2].dataset) # {}
                ELSE Ingests = {}

TrainingTypeOK ==
    /\ TypeOK
    /\ last \in [Writer -> DatasetHash \cup {Unregistered}]
    /\ life \in [Writer -> 1..(MaxLives + 1)]

-----------------------------------------------------------------------------
(***************************************************************************)
(* The inductive strengthening: what a process keeps between its callbacks *)
(* is what the file holds of its run.                                      *)
(***************************************************************************)
\* An event names its writer's own dataset, and a run that has begun.
EventsNameTheirDataset ==
    \A b \in used :
        /\ b[2].dataset \in {ContentHash(DatasetRef[b[1]]), ReferenceHash(DatasetRef[b[1]])}
        /\ b[2].kind = "data_ingest" => b[2].dataset = ContentHash(DatasetRef[b[1]])
        /\ b[2].life <= life[b[1]]

\* The data_ingest events of the run w's process is in.
IngestsOf(w) ==
    {j \in Events : /\ file[j].body[1] = w
                    /\ file[j].body[2].kind = "data_ingest"
                    /\ file[j].body[2].life = life[w]}

\* The dataset a process remembers is registered, unless the file is broken.
RememberedIsIngested ==
    \A w \in Writer :
        last[w] # Unregistered => /\ last[w] = ContentHash(DatasetRef[w])
                                  /\ Readable(file) => IngestsOf(w) # {}

\* One that remembers none has registered none, but for a torn write.
ForgottenIsNotIngested ==
    \A w \in Writer :
        last[w] = Unregistered /\ Readable(file) /\ terminated => IngestsOf(w) = {}

\* What a callback is about to write is of its run and its memory.
PendingIsOfThisRun ==
    \A w \in Writer : Linking(w) =>
        /\ pending[w][2].life = life[w]
        /\ pending[w][2].dataset = IF pending[w][2].kind = "data_ingest"
                                   THEN ContentHash(DatasetRef[w])
                                   ELSE Exposed(w)

TrainingInv ==
    /\ TrainingTypeOK /\ IsFiniteSet(used)
    /\ EventsNameTheirDataset /\ PendingIsOfThisRun
    /\ RememberedIsIngested /\ ForgottenIsNotIngested
    /\ ExposuresNameAnIngest
=============================================================================
