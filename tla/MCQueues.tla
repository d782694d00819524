------------------------------ MODULE MCQueues ------------------------------
(***************************************************************************)
(* The queue accounting and the two sinks that are its clients, over the   *)
(* same counters: a behaviour is one of the most general clients, of the   *)
(* recorder or of the Kafka forwarder.  What the module QueueAccounting    *)
(* promises is checked of all three.                                       *)
(***************************************************************************)
EXTENDS QueueAccounting, Sequences

CONSTANTS MaxErrors,                      \* errors the general clients count
          JsonlOffers, JsonlCapacity,
          KafkaOffers, KafkaCapacity, MaxInflight

VARIABLES client,                         \* who calls the accounting
    chan, tx, rx, done, ship, writer, pending, buf, disk, accepted,
    jobs, sender, receiver, signalled, kship, worker, forwarder, settling,
    running, finished, crashed, causes

jsonlVars == <<chan, tx, rx, done, ship, writer, pending, buf, disk, accepted>>
kafkaVars == <<jobs, sender, receiver, signalled, kship, worker, forwarder, settling,
               running, finished, crashed, causes>>
mcVars == <<client, vars, jsonlVars, kafkaVars>>

J == INSTANCE JsonlSink WITH MaxOffers <- JsonlOffers, QueueCapacity <- JsonlCapacity
K == INSTANCE KafkaSink WITH
        MaxOffers <- KafkaOffers, QueueCapacity <- KafkaCapacity,
        chan <- jobs, tx <- sender, rx <- receiver, ship <- kship

\* The capacities are as the sinks assume them.
ASSUME CapacitiesFit == J!CapacityAssumption /\ K!CapacityAssumption

\* What a sink is offered, the accounting is offered.
ASSUME OffersFit == JsonlOffers \in 1..MaxOffers /\ KafkaOffers \in 1..MaxOffers

MCInit == client \in {"any", "jsonl", "kafka"} /\ Init /\ J!Init /\ K!Init

Any == client = "any" /\ [Next]_vars /\ errors' <= MaxErrors /\ UNCHANGED <<jsonlVars, kafkaVars>>
Jsonl == client = "jsonl" /\ J!Next /\ UNCHANGED kafkaVars
Kafka == client = "kafka" /\ K!Next /\ UNCHANGED jsonlVars
MCNext == (Any \/ Jsonl \/ Kafka) /\ UNCHANGED client

jVars == J!vars
kVars == K!vars

\* What JsonlSink!Spec and KafkaSink!Spec assume of the client that runs.
MCSpec ==
    /\ MCInit /\ [][MCNext]_mcVars
    /\ WF_jVars(client = "jsonl" /\ J!Enqueue) /\ WF_jVars(client = "jsonl" /\ J!DropNext)
    /\ WF_jVars(client = "jsonl" /\ J!WriterUnwinds) /\ WF_jVars(client = "jsonl" /\ J!WriterExits)
    /\ WF_kVars(client = "kafka" /\ K!Enqueue) /\ WF_kVars(client = "kafka" /\ K!DropNext)
    /\ WF_kVars(client = "kafka" /\ K!WorkerTimed) /\ WF_kVars(client = "kafka" /\ K!Settle)

-----------------------------------------------------------------------------
\* Both sinks use the accounting as its contract allows: every step of any of
\* their threads is one queue operation, finish within what is outstanding
\* (debug_assert in queue.rs, finish).
ImplementsAccounting == Spec

\* The recording holds the accepted lines in order, no less than was
\* acknowledged (jsonl.rs), and the forwarder's backlog is what is counted
\* as outstanding (kafka.rs), whatever fails, panics or is abandoned; however
\* the drop of a sink ends, its counters are settled and nothing is missing
\* unannounced.
SinkIsSound ==
    /\ client = "jsonl" => J!RecordingIsSound /\ J!CloseIsSound
    /\ client = "kafka" => K!BacklogIsSound /\ K!CloseIsSound

\* The drop of a sink returns although its storage or its broker never answer;
\* with a storage or a broker that answers, what was accepted is settled again
\* and again, until a panic that nobody has noticed yet.
EverythingSettles ==
    /\ J!DropReturns /\ K!DropReturns
    /\ WF_jVars(client = "jsonl" /\ J!WriterNext) =>
         []<>(client = "jsonl" => outstanding = 0 \/ writer \in {"panicked", "gone"})
    /\ WF_kVars(client = "kafka" /\ K!ForwarderNext) /\ WF_kVars(client = "kafka" /\ K!ProduceAnswers) =>
         []<>(client = "kafka" =>
                outstanding = crashed \/ forwarder = "panicked" \/ worker = "panicked")
=============================================================================
