------------------------------ MODULE EventBus ------------------------------
(***************************************************************************)
(* The path of an event: the row of the outbox that the transaction of its *)
(* producer writes, the relay that reads, publishes and marks it, the      *)
(* broker with its durable queue, and the consumer with its table of       *)
(* processed events.  Faults: a relay stops between any two of its steps,  *)
(* two relays run during a deployment (the row locks end with the query),  *)
(* the connection takes what it has not yet sent with it, a handler fails, *)
(* a consumer stops before it has acknowledged.                            *)
(*                                                                         *)
(* Abstractions: the payload; one queue and one consumer; two copies of an *)
(* event on the same connection are one.                                   *)
(***************************************************************************)
EXTENDS Integers, FiniteSets

CONSTANTS Messages,     \* rows of the outbox
          Relays,       \* relays that may run at the same time
          MaxCopies     \* bound: copies of an event at the broker

ASSUME BusAssumption == MaxCopies \in Nat

VARIABLES
  outbox,       \* the rows and their publishedAt
  batch,        \* the rows a relay has fetched and not yet dealt with
  marking,      \* the rows a relay has published and not yet marked
  wire,         \* messages written to a connection and not yet at the broker
  bound,        \* has the consumer ever declared and bound its queue?
  queue,        \* copies in the queue, by event and redelivered flag
  handling,     \* deliveries whose handler has found no processed_events row
  applied,      \* how often the handler's transaction has committed
  quarantine,   \* events given up by the consumer and recorded
  lost,         \* events given up by the consumer and recorded nowhere
  dropped       \* events that left the wire for nobody

busVars == <<outbox, batch, marking, wire, bound, queue, handling, applied,
             quarantine, lost, dropped>>

Deliveries == [message : Messages, again : BOOLEAN]
Delivery(e, again) == [message |-> e, again |-> again]

BusTypeOK ==
  /\ outbox \in [Messages -> {"none", "written", "published"}]
  /\ batch \in [Relays -> SUBSET Messages] /\ marking \in [Relays -> SUBSET Messages]
  /\ wire \subseteq Messages /\ bound \in BOOLEAN
  /\ queue \in [Deliveries -> 0..MaxCopies] /\ handling \in [Deliveries -> 0..MaxCopies]
  /\ applied \in [Messages -> Nat]
  /\ quarantine \subseteq Messages /\ lost \subseteq Messages
  /\ dropped \subseteq Messages

Unpublished == {e \in Messages : outbox[e] = "written"}
Copies(e) == queue[Delivery(e, FALSE)] + queue[Delivery(e, TRUE)]
               + handling[Delivery(e, FALSE)] + handling[Delivery(e, TRUE)]
Processed(e) == applied[e] > 0
Plus(f, d) == [f EXCEPT ![d] = @ + 1]
Minus(f, d) == [f EXCEPT ![d] = @ - 1]

-----------------------------------------------------------------------------
(* The producer and its relay                                              *)

\* writeOutbox, in the transaction of the change it reports
WriteOutbox(e) ==
  /\ outbox[e] = "none"
  /\ outbox' = [outbox EXCEPT ![e] = "written"]
  /\ UNCHANGED <<batch, marking, wire, bound, queue, handling, applied, quarantine, lost, dropped>>

\* Mutant: the relay marks the rows when it fetches them, before it publishes.
FetchAndMark(r) ==
  /\ batch[r] = {} /\ marking[r] = {} /\ Unpublished # {}
  /\ batch' = [batch EXCEPT ![r] = Unpublished]
  /\ outbox' = [e \in Messages |-> IF e \in Unpublished THEN "published" ELSE outbox[e]]
  /\ UNCHANGED <<marking, wire, bound, queue, handling, applied, quarantine, lost, dropped>>

\* fetchUnpublishedOutbox; `ticking` keeps a relay to one batch
FetchUnpublished(r) ==
  /\ batch[r] = {} /\ marking[r] = {} /\ Unpublished # {}
  /\ batch' = [batch EXCEPT ![r] = Unpublished]
  /\ UNCHANGED <<outbox, marking, wire, bound, queue, handling, applied, quarantine, lost, dropped>>

\* publishEvent for every row; a full write buffer answers false and keeps the
\* message, and the row stays unpublished
PublishBatch(r, accepted) ==
  /\ batch[r] # {} /\ accepted \subseteq batch[r]
  /\ wire' = wire \cup batch[r]
  /\ marking' = [marking EXCEPT ![r] = accepted]
  /\ batch' = [batch EXCEPT ![r] = {}]
  /\ UNCHANGED <<outbox, bound, queue, handling, applied, quarantine, lost, dropped>>

MarkPublished(r) ==
  /\ marking[r] # {}
  /\ outbox' = [e \in Messages |-> IF e \in marking[r] THEN "published" ELSE outbox[e]]
  /\ marking' = [marking EXCEPT ![r] = {}]
  /\ UNCHANGED <<batch, wire, bound, queue, handling, applied, quarantine, lost, dropped>>

\* the process of the relay ends, or markPublished fails
RelayStops(r) ==
  /\ batch[r] \cup marking[r] # {}
  /\ batch' = [batch EXCEPT ![r] = {}] /\ marking' = [marking EXCEPT ![r] = {}]
  /\ UNCHANGED <<outbox, wire, bound, queue, handling, applied, quarantine, lost, dropped>>

-----------------------------------------------------------------------------
(* The broker                                                              *)

\* a topic exchange keeps nothing for a queue that does not exist
ReachBroker(e) ==
  /\ e \in wire /\ wire' = wire \ {e}
  /\ IF bound
     THEN /\ Copies(e) < MaxCopies
          /\ queue' = Plus(queue, Delivery(e, FALSE))
          /\ UNCHANGED dropped
     ELSE dropped' = dropped \cup {e} /\ UNCHANGED queue
  /\ UNCHANGED <<outbox, batch, marking, bound, handling, applied, quarantine, lost>>

\* the channel waits for no confirmation of the broker
ConnectionBreaks ==
  /\ wire # {}
  /\ wire' = {} /\ dropped' = dropped \cup wire
  /\ UNCHANGED <<outbox, batch, marking, bound, queue, handling, applied, quarantine, lost>>

-----------------------------------------------------------------------------
(* The consumer                                                            *)

BindQueue ==
  /\ ~bound /\ bound' = TRUE
  /\ UNCHANGED <<outbox, batch, marking, wire, queue, handling, applied, quarantine, lost, dropped>>

\* a delivery: an event that is processed is acknowledged, the handler of any
\* other starts; deliveries do not wait for each other
StartHandler(d) ==
  /\ queue[d] > 0 /\ queue' = Minus(queue, d)
  /\ handling' = IF Processed(d.message) THEN handling ELSE Plus(handling, d)
  /\ UNCHANGED <<outbox, batch, marking, wire, bound, applied, quarantine, lost, dropped>>

\* Mutant: no row of processed_events is written with the effects.
CommitWithoutKey(d) ==
  /\ handling[d] > 0
  /\ applied' = [applied EXCEPT ![d.message] = @ + 1]
  /\ handling' = Minus(handling, d)
  /\ UNCHANGED <<outbox, batch, marking, wire, bound, queue, quarantine, lost, dropped>>

\* the effects and the row of processed_events commit together; the unique key
\* makes a transaction that comes second fail
CommitHandler(d) ==
  /\ handling[d] > 0 /\ ~Processed(d.message)
  /\ applied' = [applied EXCEPT ![d.message] = @ + 1]
  /\ handling' = Minus(handling, d)
  /\ UNCHANGED <<outbox, batch, marking, wire, bound, queue, quarantine, lost, dropped>>

\* shouldRequeue: once more, then give up; a permanent error gives up at once
ShouldRequeue(d, permanent) == ~permanent /\ ~d.again

\* nack without requeue.  Only finance records the event before, and gives it
\* up all the same when the record cannot be written; no other consumer records
GiveUp(e) ==
  \/ quarantine' = quarantine \cup {e} /\ UNCHANGED lost
  \/ lost' = lost \cup {e} /\ UNCHANGED quarantine

HandlerFails(d, permanent) ==
  /\ handling[d] > 0 /\ handling' = Minus(handling, d)
  /\ IF ShouldRequeue(d, permanent)
     THEN queue' = Plus(queue, Delivery(d.message, TRUE)) /\ UNCHANGED <<quarantine, lost>>
     ELSE GiveUp(d.message) /\ UNCHANGED queue
  /\ UNCHANGED <<outbox, batch, marking, wire, bound, applied, dropped>>

\* the broker delivers again what a consumer that stopped had not acknowledged
ConsumerStops ==
  /\ \E d \in Deliveries : handling[d] > 0
  /\ queue' = [d \in Deliveries |->
                 queue[d] + IF d.again THEN handling[d] + handling[Delivery(d.message, FALSE)]
                            ELSE 0]
  /\ handling' = [d \in Deliveries |-> 0]
  /\ UNCHANGED <<outbox, batch, marking, wire, bound, applied, quarantine, lost, dropped>>

-----------------------------------------------------------------------------
(* Specification                                                           *)

BusInit ==
  /\ outbox = [e \in Messages |-> "none"]
  /\ batch = [r \in Relays |-> {}] /\ marking = [r \in Relays |-> {}]
  /\ wire = {} /\ bound = FALSE
  /\ queue = [d \in Deliveries |-> 0] /\ handling = [d \in Deliveries |-> 0]
  /\ applied = [e \in Messages |-> 0]
  /\ quarantine = {} /\ lost = {} /\ dropped = {}

BusNext ==
  \/ \E e \in Messages : WriteOutbox(e) \/ ReachBroker(e)
  \/ \E r \in Relays : \/ FetchUnpublished(r) \/ MarkPublished(r) \/ RelayStops(r)
                       \/ \E accepted \in SUBSET batch[r] : PublishBatch(r, accepted)
  \/ ConnectionBreaks \/ BindQueue \/ ConsumerStops
  \/ \E d \in Deliveries : \/ StartHandler(d) \/ CommitHandler(d)
                           \/ \E permanent \in BOOLEAN : HandlerFails(d, permanent)

BusSpec == BusInit /\ [][BusNext]_busVars

\* the relay polls for as long as its service is awake, and neither it nor the
\* consumer is stopped at the same step for ever
BusFairness ==
  /\ \A r \in Relays : /\ SF_busVars(PublishBatch(r, batch[r]))
                       /\ WF_busVars(FetchUnpublished(r))
                       /\ WF_busVars(MarkPublished(r))
  /\ \A e \in Messages : WF_busVars(ReachBroker(e))
  /\ \A d \in Deliveries :
       /\ WF_busVars(StartHandler(d))
       /\ SF_busVars(CommitHandler(d) \/ \E permanent \in BOOLEAN : HandlerFails(d, permanent))

-----------------------------------------------------------------------------
(* Properties                                                              *)

\* the consumer has given the event up, recorded or not
GivenUp(e) == e \in quarantine \cup lost

\* an event that has been written is somewhere: unpublished, on its way, at the
\* broker, applied, given up by the consumer, or dropped by a broken connection
\* or an exchange without a queue.  No other step of the path loses an event, so
\* neither a relay nor a consumer that stops does.
NoEventVanishes ==
  \A e \in Messages : outbox[e] # "none" =>
    \/ e \in Unpublished \/ e \in wire \/ Copies(e) > 0
    \/ Processed(e) \/ GivenUp(e) \/ e \in dropped

\* the bus keeps the promise of EventDelivery: an event has been caused when its
\* row is written, and is forsaken when a connection, an exchange without a
\* queue or the consumer gives it up
Promise == INSTANCE EventDelivery
             WITH caused <- {e \in Messages : outbox[e] # "none"},
                  effects <- applied,
                  forsaken <- quarantine \cup lost \cup dropped

DeliveryIsKept == Promise!Spec

\* an event that has been written does not stay on its way for ever: it is
\* applied in the end, or given up by the consumer, or dropped.  Given up is not
\* known to be lost: the record may be missing.
EventsArrive ==
  \A e \in Messages : (outbox[e] # "none") ~> (Processed(e) \/ GivenUp(e) \/ e \in dropped)
=============================================================================
