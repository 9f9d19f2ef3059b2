--------------------------- MODULE EventBusProofs ---------------------------
(***************************************************************************)
(* Proofs about EventBus, for any events, relays and copies, and about     *)
(* IdleRelease.                                                            *)
(*                                                                         *)
(* EventBus implements EventDelivery: what is on its way, in a queue, in   *)
(* quarantine, lost or dropped was caused before (Caused), and a handler only    *)
(* commits what has not been applied.  That no event vanishes needs to     *)
(* know of a row what its publication has left behind (Kept).              *)
(***************************************************************************)
EXTENDS EventBus, IdleRelease, TLAPS

Caused == {e \in Messages : outbox[e] # "none"}

Kept(e) == \/ e \in wire \/ Copies(e) > 0
           \/ Processed(e) \/ GivenUp(e) \/ e \in dropped

\* The state beside the queue.
RestTypeOK ==
  /\ outbox \in [Messages -> {"none", "written", "published"}]
  /\ batch \in [Relays -> SUBSET Messages] /\ marking \in [Relays -> SUBSET Messages]
  /\ wire \subseteq Messages /\ bound \in BOOLEAN
  /\ applied \in [Messages -> Nat]
  /\ quarantine \subseteq Messages /\ lost \subseteq Messages /\ dropped \subseteq Messages

CopiesOK ==
  /\ queue \in [Deliveries -> Nat] /\ handling \in [Deliveries -> Nat]
  /\ \A e \in Messages : Copies(e) <= MaxCopies

BusInv ==
  /\ RestTypeOK /\ CopiesOK
  /\ wire \cup quarantine \cup lost \cup dropped \subseteq Caused
  /\ \A e \in Messages : Copies(e) > 0 => e \in Caused
  /\ \A r \in Relays : batch[r] \cup marking[r] \subseteq Caused
  /\ \A r \in Relays : \A e \in marking[r] : Kept(e)
  /\ \A e \in Messages : outbox[e] = "published" => Kept(e)

-----------------------------------------------------------------------------
(* Counting deliveries *)

\* The first delivery of an event and the second.
Once(e) == Delivery(e, FALSE)
Again(e) == Delivery(e, TRUE)

Total(f, e) == f[Once(e)] + f[Again(e)]

LEMMA DeliveriesAreTwo ==
  ASSUME NEW e \in Messages
  PROVE  /\ Once(e) \in Deliveries /\ Again(e) \in Deliveries
         /\ Once(e) # Again(e)
         /\ \A d \in Deliveries : d.message = e => d = Once(e) \/ d = Again(e)
         /\ \A d \in Deliveries : d.message # e => d # Once(e) /\ d # Again(e)
BY DEF Delivery, Deliveries, Once, Again

LEMMA CopiesByDelivery ==
  ASSUME NEW e
  PROVE  Copies(e) = queue[Once(e)] + queue[Again(e)] + handling[Once(e)] + handling[Again(e)]
BY Zenon DEF Copies, Once, Again

LEMMA TotalOfPlus ==
  ASSUME NEW f \in [Deliveries -> Nat], NEW d \in Deliveries
  PROVE  /\ Plus(f, d) \in [Deliveries -> Nat]
         /\ \A e \in Messages :
              Total(Plus(f, d), e) = Total(f, e) + IF e = d.message THEN 1 ELSE 0
<1>1. Plus(f, d) \in [Deliveries -> Nat]
  BY DEF Plus
<1>2. ASSUME NEW e \in Messages
      PROVE  Total(Plus(f, d), e) = Total(f, e) + IF e = d.message THEN 1 ELSE 0
  <2> DEFINE no == Once(e)
             yes == Again(e)
  <2>1. no \in Deliveries /\ yes \in Deliveries /\ no # yes
    BY DeliveriesAreTwo
  <2>2. f[no] \in Nat /\ f[yes] \in Nat
    BY <2>1
  <2>3. CASE e = d.message
    <3>1. d = no \/ d = yes
      BY <2>3, DeliveriesAreTwo
    <3>2. Plus(f, d)[no] + Plus(f, d)[yes] = f[no] + f[yes] + 1
      <4> HIDE DEF no, yes
      <4> QED
        BY <2>1, <2>2, <3>1 DEF Plus
    <3>3. Total(Plus(f, d), e) = Total(f, e) + 1
      BY <3>2, Zenon DEF Total
    <3> QED
      BY <2>3, <3>3
  <2>4. CASE e # d.message
    <3>1. d # no /\ d # yes
      BY <2>4, DeliveriesAreTwo
    <3>2. Plus(f, d)[no] + Plus(f, d)[yes] = f[no] + f[yes]
      <4> HIDE DEF no, yes
      <4> QED
        BY <2>1, <2>2, <3>1 DEF Plus
    <3>3. Total(Plus(f, d), e) = Total(f, e) /\ Total(f, e) \in Nat
      <4>1. f[no] + f[yes] \in Nat
        <5> HIDE DEF no, yes
        <5> QED
          BY <2>2
      <4> QED
        BY <3>2, <4>1, Zenon DEF Total
    <3> QED
      BY <2>4, <3>3
  <2> QED
    BY <2>3, <2>4
<1> QED
  BY <1>1, <1>2

LEMMA TotalOfMinus ==
  ASSUME NEW f \in [Deliveries -> Nat], NEW d \in Deliveries, f[d] > 0
  PROVE  /\ Minus(f, d) \in [Deliveries -> Nat]
         /\ \A e \in Messages :
              Total(Minus(f, d), e) = Total(f, e) - IF e = d.message THEN 1 ELSE 0
<1>1. Minus(f, d) \in [Deliveries -> Nat]
  <2>1. f[d] - 1 \in Nat
    OBVIOUS
  <2> QED
    BY <2>1 DEF Minus
<1>2. ASSUME NEW e \in Messages
      PROVE  Total(Minus(f, d), e) = Total(f, e) - IF e = d.message THEN 1 ELSE 0
  <2> DEFINE no == Once(e)
             yes == Again(e)
  <2>1. no \in Deliveries /\ yes \in Deliveries /\ no # yes
    BY DeliveriesAreTwo
  <2>2. f[no] \in Nat /\ f[yes] \in Nat
    BY <2>1
  <2>3. CASE e = d.message
    <3>1. d = no \/ d = yes
      BY <2>3, DeliveriesAreTwo
    <3>2. Minus(f, d)[no] + Minus(f, d)[yes] = (f[no] + f[yes]) - 1
      <4> HIDE DEF no, yes
      <4> QED
        BY <2>1, <2>2, <3>1 DEF Minus
    <3>3. Total(Minus(f, d), e) = Total(f, e) - 1
      BY <3>2, Zenon DEF Total
    <3> QED
      BY <2>3, <3>3
  <2>4. CASE e # d.message
    <3>1. d # no /\ d # yes
      BY <2>4, DeliveriesAreTwo
    <3>2. Minus(f, d)[no] + Minus(f, d)[yes] = f[no] + f[yes]
      <4> HIDE DEF no, yes
      <4> QED
        BY <2>1, <2>2, <3>1 DEF Minus
    <3>3. Total(Minus(f, d), e) = Total(f, e) /\ Total(f, e) \in Nat
      <4>1. f[no] + f[yes] \in Nat
        <5> HIDE DEF no, yes
        <5> QED
          BY <2>2
      <4> QED
        BY <3>2, <4>1, Zenon DEF Total
    <3> QED
      BY <2>4, <3>3
  <2> QED
    BY <2>3, <2>4
<1> QED
  BY <1>1, <1>2

LEMMA CopiesAreTotals ==
  ASSUME CopiesOK, NEW e \in Messages
  PROVE  /\ Total(queue, e) \in Nat /\ Total(handling, e) \in Nat
         /\ Copies(e) = Total(queue, e) + Total(handling, e)
<1>1. /\ queue[Once(e)] \in Nat /\ queue[Again(e)] \in Nat
      /\ handling[Once(e)] \in Nat /\ handling[Again(e)] \in Nat
  BY DeliveriesAreTwo DEF CopiesOK
<1> DEFINE a == queue[Once(e)]
           b == queue[Again(e)]
           c == handling[Once(e)]
           k == handling[Again(e)]
<1>2. Copies(e) = a + b + c + k /\ Total(queue, e) = a + b /\ Total(handling, e) = c + k
  BY CopiesByDelivery DEF Total
<1>3. a + b + c + k = (a + b) + (c + k) /\ a + b \in Nat /\ c + k \in Nat
  <2> HIDE DEF a, b, c, k
  <2> QED
    BY <1>1 DEF a, b, c, k
<1> HIDE DEF a, b, c, k
<1> QED
  BY <1>2, <1>3

LEMMA NextCopiesAreTotals ==
  ASSUME queue' \in [Deliveries -> Nat], handling' \in [Deliveries -> Nat], NEW e \in Messages
  PROVE  /\ Total(queue', e) \in Nat /\ Total(handling', e) \in Nat
         /\ Copies(e)' = Total(queue', e) + Total(handling', e)
<1>1. /\ queue'[Once(e)] \in Nat /\ queue'[Again(e)] \in Nat
      /\ handling'[Once(e)] \in Nat /\ handling'[Again(e)] \in Nat
  BY DeliveriesAreTwo
<1> DEFINE a == queue'[Once(e)]
           b == queue'[Again(e)]
           c == handling'[Once(e)]
           k == handling'[Again(e)]
<1>2. Copies(e)' = a + b + c + k /\ Total(queue', e) = a + b /\ Total(handling', e) = c + k
  BY DEF Total, Copies, Once, Again, Delivery
<1>3. a + b + c + k = (a + b) + (c + k) /\ a + b \in Nat /\ c + k \in Nat
  <2> HIDE DEF a, b, c, k
  <2> QED
    BY <1>1 DEF a, b, c, k
<1> HIDE DEF a, b, c, k
<1> QED
  BY <1>2, <1>3

LEMMA DeliveredIsCaused ==
  ASSUME BusInv, NEW d \in Deliveries, queue[d] > 0 \/ handling[d] > 0
  PROVE  d.message \in Messages /\ d.message \in Caused /\ Copies(d.message) > 0
<1> DEFINE e == d.message
<1>1. e \in Messages
  BY DEF Deliveries
<1>2. d = Once(e) \/ d = Again(e)
  BY <1>1, DeliveriesAreTwo
<1>3. /\ queue[Once(e)] \in Nat /\ queue[Again(e)] \in Nat
      /\ handling[Once(e)] \in Nat /\ handling[Again(e)] \in Nat
  BY <1>1, DeliveriesAreTwo DEF BusInv, CopiesOK
<1>4. Copies(e) > 0
  <2> HIDE DEF e
  <2>1. Copies(e) = queue[Once(e)] + queue[Again(e)] + handling[Once(e)] + handling[Again(e)]
    BY CopiesByDelivery
  <2> QED
    BY <1>2, <1>3, <2>1
<1> QED
  BY <1>1, <1>4 DEF BusInv

LEMMA TypeFromInv == BusInv => BusTypeOK
<1> SUFFICES ASSUME BusInv PROVE BusTypeOK
  OBVIOUS
<1>1. ASSUME NEW d \in Deliveries
      PROVE  queue[d] \in 0..MaxCopies /\ handling[d] \in 0..MaxCopies
  <2> DEFINE e == d.message
  <2>1. e \in Messages
    BY DEF Deliveries
  <2>2. d = Once(e) \/ d = Again(e)
    BY <2>1, DeliveriesAreTwo
  <2>3. /\ queue[Once(e)] \in Nat /\ queue[Again(e)] \in Nat
        /\ handling[Once(e)] \in Nat /\ handling[Again(e)] \in Nat
    BY <2>1, DeliveriesAreTwo DEF BusInv, CopiesOK
  <2>4. Copies(e) <= MaxCopies
    BY <2>1 DEF BusInv, CopiesOK
  <2>5. Copies(e) = queue[Once(e)] + queue[Again(e)] + handling[Once(e)] + handling[Again(e)]
    BY CopiesByDelivery
  <2> HIDE DEF e
  <2> QED
    BY <2>2, <2>3, <2>4, <2>5, BusAssumption
<1> QED
  BY <1>1 DEF BusInv, RestTypeOK, CopiesOK, BusTypeOK

-----------------------------------------------------------------------------
(* The invariant *)

\* A step keeps BusInv when it disturbs no type, keeps every event it causes,
\* puts only caused events on their way and forgets none that was kept.
LEMMA BusStepKeepsInv ==
  ASSUME BusInv, RestTypeOK', CopiesOK', Caused \subseteq Caused',
         \A e \in Messages : Kept(e) => Kept(e)',
         wire' \cup quarantine' \cup lost' \cup dropped' \subseteq Caused',
         \A e \in Messages : Copies(e)' > 0 => e \in Caused',
         \A r \in Relays : batch'[r] \cup marking'[r] \subseteq Caused',
         \A r \in Relays : \A e \in marking'[r] : e \in marking[r] \/ Kept(e)',
         \A e \in Messages : outbox'[e] = "published" =>
           outbox[e] = "published" \/ \E r \in Relays : e \in marking[r]
  PROVE  BusInv'
<1>1. \A r \in Relays : \A e \in marking'[r] : Kept(e)'
  <2> SUFFICES ASSUME NEW r \in Relays, NEW e \in marking'[r] PROVE Kept(e)'
    OBVIOUS
  <2>1. e \in Messages
    BY DEF RestTypeOK
  <2> QED
    BY <2>1 DEF BusInv
<1>2. \A e \in Messages : outbox'[e] = "published" => Kept(e)'
  BY DEF BusInv
<1> QED
  BY <1>1, <1>2 DEF BusInv

LEMMA BusInvInit == BusInit => BusInv
<1> SUFFICES ASSUME BusInit PROVE BusInv
  OBVIOUS
<1>1. RestTypeOK
  BY DEF BusInit, RestTypeOK
<1>2. queue \in [Deliveries -> Nat] /\ handling \in [Deliveries -> Nat]
  BY DEF BusInit
<1>3. \A e \in Messages : Copies(e) = 0
  <2> SUFFICES ASSUME NEW e \in Messages PROVE Copies(e) = 0
    OBVIOUS
  <2>1. queue[Once(e)] = 0 /\ queue[Again(e)] = 0 /\ handling[Once(e)] = 0 /\ handling[Again(e)] = 0
    BY DeliveriesAreTwo DEF BusInit
  <2> QED
    BY <2>1, CopiesByDelivery
<1> QED
  BY <1>1, <1>2, <1>3, BusAssumption DEF BusInit, BusInv, CopiesOK, Caused

\* The steps before the broker leave the deliveries alone.
LEMMA CopiesUntouched ==
  ASSUME BusInv, UNCHANGED <<queue, handling>>
  PROVE  CopiesOK' /\ \A e \in Messages : Copies(e)' = Copies(e)
BY DEF BusInv, CopiesOK, Copies, Delivery

LEMMA ProducerKeepsInv ==
  ASSUME BusInv,
         \/ \E e \in Messages : WriteOutbox(e)
         \/ \E r \in Relays : \/ FetchUnpublished(r) \/ MarkPublished(r) \/ RelayStops(r)
                              \/ \E accepted \in SUBSET batch[r] : PublishBatch(r, accepted)
         \/ ConnectionBreaks \/ BindQueue
  PROVE  BusInv'
<1>1. ASSUME NEW e \in Messages, WriteOutbox(e)
      PROVE  BusInv'
  <2>1. RestTypeOK'
    BY <1>1 DEF WriteOutbox, BusInv, RestTypeOK
  <2>2. CopiesOK' /\ \A m \in Messages : Copies(m)' = Copies(m)
    BY <1>1, CopiesUntouched DEF WriteOutbox
  <2>3. Caused \subseteq Caused'
    BY <1>1 DEF WriteOutbox, Caused, BusInv, RestTypeOK
  <2>4. \A m \in Messages : Kept(m) => Kept(m)'
    BY <1>1, <2>2 DEF WriteOutbox, Kept, GivenUp, Processed
  <2>5. \A m \in Messages : outbox'[m] = "published" => outbox[m] = "published"
    BY <1>1 DEF WriteOutbox, BusInv, RestTypeOK
  <2> QED
    BY <1>1, <2>1, <2>2, <2>3, <2>4, <2>5, BusStepKeepsInv DEF WriteOutbox, BusInv
<1>2. ASSUME NEW r \in Relays, FetchUnpublished(r)
      PROVE  BusInv'
  <2>1. RestTypeOK'
    BY <1>2 DEF FetchUnpublished, Unpublished, BusInv, RestTypeOK
  <2>2. CopiesOK' /\ \A m \in Messages : Copies(m)' = Copies(m)
    BY <1>2, CopiesUntouched DEF FetchUnpublished
  <2>3. Caused = Caused' /\ Unpublished \subseteq Caused
    BY <1>2 DEF FetchUnpublished, Caused, Unpublished
  <2>4. \A m \in Messages : Kept(m) => Kept(m)'
    BY <1>2, <2>2 DEF FetchUnpublished, Kept, GivenUp, Processed
  <2>5. \A q \in Relays : batch'[q] \subseteq Caused'
    BY <1>2, <2>3 DEF FetchUnpublished, BusInv, RestTypeOK
  <2> QED
    BY <1>2, <2>1, <2>2, <2>3, <2>4, <2>5, BusStepKeepsInv DEF FetchUnpublished, BusInv
<1>3. ASSUME NEW r \in Relays, MarkPublished(r)
      PROVE  BusInv'
  <2>0. marking[r] \subseteq Caused /\ marking[r] \subseteq Messages
    BY DEF BusInv, RestTypeOK
  <2>1. RestTypeOK'
    BY <1>3 DEF MarkPublished, BusInv, RestTypeOK
  <2>2. CopiesOK' /\ \A m \in Messages : Copies(m)' = Copies(m)
    BY <1>3, CopiesUntouched DEF MarkPublished
  <2>3. Caused = Caused'
    BY <1>3, <2>0 DEF MarkPublished, Caused
  <2>4. \A m \in Messages : Kept(m) => Kept(m)'
    BY <1>3, <2>2 DEF MarkPublished, Kept, GivenUp, Processed
  <2>5. \A m \in Messages : outbox'[m] = "published" =>
          outbox[m] = "published" \/ \E q \in Relays : m \in marking[q]
    BY <1>3 DEF MarkPublished
  <2>6. \A q \in Relays : batch'[q] = batch[q] /\ marking'[q] \subseteq marking[q]
    BY <1>3 DEF MarkPublished, BusInv, RestTypeOK
  <2> QED
    BY <1>3, <2>1, <2>2, <2>3, <2>4, <2>5, <2>6, BusStepKeepsInv DEF MarkPublished, BusInv
<1>4. ASSUME NEW r \in Relays, RelayStops(r)
      PROVE  BusInv'
  <2>1. RestTypeOK'
    BY <1>4 DEF RelayStops, BusInv, RestTypeOK
  <2>2. CopiesOK' /\ \A m \in Messages : Copies(m)' = Copies(m)
    BY <1>4, CopiesUntouched DEF RelayStops
  <2>3. Caused = Caused'
    BY <1>4 DEF RelayStops, Caused
  <2>4. \A m \in Messages : Kept(m) => Kept(m)'
    BY <1>4, <2>2 DEF RelayStops, Kept, GivenUp, Processed
  <2>5. \A q \in Relays : batch'[q] \subseteq batch[q] /\ marking'[q] \subseteq marking[q]
    BY <1>4 DEF RelayStops, BusInv, RestTypeOK
  <2> QED
    BY <1>4, <2>1, <2>2, <2>3, <2>4, <2>5, BusStepKeepsInv DEF RelayStops, BusInv
<1>5. ASSUME NEW r \in Relays, NEW accepted \in SUBSET batch[r], PublishBatch(r, accepted)
      PROVE  BusInv'
  <2>0. batch[r] \subseteq Caused /\ batch[r] \subseteq Messages
    BY DEF BusInv, RestTypeOK
  <2>1. RestTypeOK'
    BY <1>5, <2>0 DEF PublishBatch, BusInv, RestTypeOK
  <2>2. CopiesOK' /\ \A m \in Messages : Copies(m)' = Copies(m)
    BY <1>5, CopiesUntouched DEF PublishBatch
  <2>3. Caused = Caused'
    BY <1>5 DEF PublishBatch, Caused
  <2>4. \A m \in Messages : Kept(m) => Kept(m)'
    BY <1>5, <2>2 DEF PublishBatch, Kept, GivenUp, Processed
  <2>5. \A q \in Relays : /\ batch'[q] \subseteq batch[q]
                          /\ marking'[q] \subseteq marking[q] \cup accepted
    BY <1>5 DEF PublishBatch, BusInv, RestTypeOK
  <2>6. \A m \in accepted : Kept(m)'
    BY <1>5, <2>0 DEF PublishBatch, Kept
  <2>7. \A q \in Relays : \A m \in marking'[q] : m \in marking[q] \/ Kept(m)'
    BY <2>5, <2>6
  <2>8. \A q \in Relays : batch'[q] \cup marking'[q] \subseteq Caused'
    BY <2>0, <2>3, <2>5 DEF BusInv
  <2>9. wire' \cup quarantine' \cup lost' \cup dropped' \subseteq Caused'
    BY <1>5, <2>0, <2>3 DEF PublishBatch, BusInv
  <2> QED
    BY <1>5, <2>1, <2>2, <2>3, <2>4, <2>7, <2>8, <2>9, BusStepKeepsInv DEF PublishBatch, BusInv
<1>6. ASSUME ConnectionBreaks \/ BindQueue
      PROVE  BusInv'
  <2>1. RestTypeOK'
    BY <1>6 DEF ConnectionBreaks, BindQueue, BusInv, RestTypeOK
  <2>2. CopiesOK' /\ \A m \in Messages : Copies(m)' = Copies(m)
    BY <1>6, CopiesUntouched DEF ConnectionBreaks, BindQueue
  <2>3. Caused = Caused'
    BY <1>6 DEF ConnectionBreaks, BindQueue, Caused
  <2>4. \A m \in Messages : Kept(m) => Kept(m)'
    BY <1>6, <2>2 DEF ConnectionBreaks, BindQueue, Kept, GivenUp, Processed
  <2>5. UNCHANGED <<outbox, batch, marking>>
    BY <1>6 DEF ConnectionBreaks, BindQueue
  <2>6. wire' \cup quarantine' \cup lost' \cup dropped' \subseteq Caused'
    BY <1>6, <2>3 DEF ConnectionBreaks, BindQueue, BusInv
  <2> QED
    BY <2>1, <2>2, <2>3, <2>4, <2>5, <2>6, BusStepKeepsInv DEF BusInv
<1> QED
  BY <1>1, <1>2, <1>3, <1>4, <1>5, <1>6

\* A step of the consumer or of the broker: it keeps what is at the producer.
LEMMA ConsumerStepKeepsInv ==
  ASSUME BusInv, UNCHANGED <<outbox, batch, marking>>,
         wire' \subseteq wire, bound' \in BOOLEAN, applied' \in [Messages -> Nat],
         quarantine' \cup lost' \cup dropped' \subseteq Caused,
         quarantine' \cup lost' \cup dropped' \subseteq Messages,
         CopiesOK',
         \A e \in Messages : Kept(e) => Kept(e)',
         \A e \in Messages : Copies(e)' > 0 => e \in Caused
  PROVE  BusInv'
<1>1. RestTypeOK'
  BY DEF BusInv, RestTypeOK
<1>2. Caused' = Caused
  BY DEF Caused
<1> QED
  BY <1>1, <1>2, BusStepKeepsInv DEF BusInv

LEMMA BrokerKeepsInv ==
  ASSUME BusInv, NEW e \in Messages, ReachBroker(e)
  PROVE  BusInv'
<1> DEFINE d == Delivery(e, FALSE)
<1>1. d \in Deliveries /\ d.message = e
  BY DEF Delivery, Deliveries
<1>2. e \in Caused /\ CopiesOK
  BY DEF ReachBroker, BusInv
<1>3. CASE bound
  <2>1. /\ Copies(e) < MaxCopies /\ queue' = Plus(queue, d) /\ wire' = wire \ {e}
        /\ UNCHANGED <<outbox, batch, marking, bound, handling, applied, quarantine, lost, dropped>>
    BY <1>3 DEF ReachBroker
  <2>2. /\ queue' \in [Deliveries -> Nat] /\ handling' \in [Deliveries -> Nat]
        /\ \A m \in Messages : Total(queue', m) = Total(queue, m) + IF m = e THEN 1 ELSE 0
    <3> HIDE DEF d
    <3> QED
      BY <1>1, <1>2, <2>1, TotalOfPlus DEF CopiesOK
  <2>3. \A m \in Messages : Copies(m)' = IF m = e THEN Copies(m) + 1 ELSE Copies(m)
    <3> SUFFICES ASSUME NEW m \in Messages
                 PROVE  Copies(m)' = IF m = e THEN Copies(m) + 1 ELSE Copies(m)
      OBVIOUS
    <3>1. Total(queue, m) \in Nat /\ Total(handling, m) \in Nat
          /\ Copies(m) = Total(queue, m) + Total(handling, m)
      BY <1>2, CopiesAreTotals
    <3>2. Copies(m)' = Total(queue', m) + Total(handling, m)
      BY <2>1, <2>2, NextCopiesAreTotals
    <3> QED
      BY <2>2, <3>1, <3>2
  <2>4. \A m \in Messages : Copies(m) \in Nat
    BY <1>2, CopiesAreTotals
  <2>5. CopiesOK'
    <3>1. ASSUME NEW m \in Messages
          PROVE  Copies(m)' <= MaxCopies
      BY <1>2, <2>1, <2>3, <2>4, <3>1, BusAssumption DEF CopiesOK
    <3> QED
      BY <2>2, <3>1 DEF CopiesOK
  <2>6. \A m \in Messages : Kept(m) => Kept(m)'
    BY <2>1, <2>3, <2>4 DEF Kept, GivenUp, Processed
  <2>7. \A m \in Messages : Copies(m)' > 0 => m \in Caused
    BY <1>2, <2>3 DEF BusInv
  <2> QED
    BY <2>1, <2>5, <2>6, <2>7, ConsumerStepKeepsInv DEF BusInv, RestTypeOK
<1>4. CASE ~bound
  <2>1. /\ dropped' = dropped \cup {e} /\ wire' = wire \ {e}
        /\ UNCHANGED <<outbox, batch, marking, bound, queue, handling, applied, quarantine, lost>>
    BY <1>4 DEF ReachBroker
  <2>2. CopiesOK' /\ \A m \in Messages : Copies(m)' = Copies(m)
    BY <2>1, CopiesUntouched
  <2>3. \A m \in Messages : Kept(m) => Kept(m)'
    BY <2>1, <2>2 DEF Kept, GivenUp, Processed
  <2> QED
    BY <1>2, <2>1, <2>2, <2>3, ConsumerStepKeepsInv DEF BusInv, RestTypeOK
<1> QED
  BY <1>3, <1>4

\* One delivery leaves the queue or the handler, and comes back or not.
LEMMA DeliveryMoves ==
  ASSUME BusInv, NEW d \in Deliveries, NEW gain \in {0, 1},
         queue' \in [Deliveries -> Nat], handling' \in [Deliveries -> Nat],
         \A m \in Messages :
           Total(queue', m) + Total(handling', m)
             = Total(queue, m) + Total(handling, m) - IF m = d.message THEN 1 - gain ELSE 0
  PROVE  /\ CopiesOK'
         /\ \A m \in Messages : /\ Copies(m)' > 0 => Copies(m) > 0
                                /\ Copies(m) > 0 => Copies(m)' > 0 \/ (m = d.message /\ gain = 0)
<1> SUFFICES ASSUME NEW m \in Messages
             PROVE  /\ Copies(m)' <= MaxCopies
                    /\ Copies(m)' > 0 => Copies(m) > 0
                    /\ Copies(m) > 0 => Copies(m)' > 0 \/ (m = d.message /\ gain = 0)
  BY DEF CopiesOK
<1>1. Total(queue, m) \in Nat /\ Total(handling, m) \in Nat
      /\ Copies(m) = Total(queue, m) + Total(handling, m) /\ Copies(m) <= MaxCopies
  BY CopiesAreTotals DEF BusInv, CopiesOK
<1>2. Total(queue', m) \in Nat /\ Total(handling', m) \in Nat
      /\ Copies(m)' = Total(queue', m) + Total(handling', m)
  BY NextCopiesAreTotals
<1>3. Copies(m)' = Copies(m) - IF m = d.message THEN 1 - gain ELSE 0
  BY <1>1, <1>2
<1>4. Copies(m) \in Nat /\ Copies(m)' \in Nat /\ MaxCopies \in Nat
  BY <1>1, <1>2, BusAssumption
<1> QED
  BY <1>1, <1>3, <1>4

LEMMA TotalsAreNat ==
  ASSUME BusInv, NEW m \in Messages
  PROVE  Total(queue, m) \in Nat /\ Total(handling, m) \in Nat
BY CopiesAreTotals DEF BusInv

LEMMA StartKeepsInv ==
  ASSUME BusInv, NEW d \in Deliveries, StartHandler(d)
  PROVE  BusInv'
<1>0. queue \in [Deliveries -> Nat] /\ handling \in [Deliveries -> Nat]
  BY DEF BusInv, CopiesOK
<1>1. /\ queue[d] > 0 /\ queue' = Minus(queue, d)
      /\ UNCHANGED <<outbox, batch, marking, wire, bound, applied, quarantine, lost, dropped>>
  BY DEF StartHandler
<1>2. /\ queue' \in [Deliveries -> Nat]
      /\ \A m \in Messages : Total(queue', m) = Total(queue, m) - IF m = d.message THEN 1 ELSE 0
  BY <1>0, <1>1, TotalOfMinus
<1>3. CASE Processed(d.message)
  <2>1. handling' = handling
    BY <1>3 DEF StartHandler
  <2>2. \A m \in Messages :
          Total(queue', m) + Total(handling', m)
            = Total(queue, m) + Total(handling, m) - IF m = d.message THEN 1 - 0 ELSE 0
    BY <1>2, <2>1, TotalsAreNat
  <2>3. /\ CopiesOK'
        /\ \A m \in Messages : /\ Copies(m)' > 0 => Copies(m) > 0
                               /\ Copies(m) > 0 => Copies(m)' > 0 \/ m = d.message
    BY <1>0, <1>2, <2>1, <2>2, DeliveryMoves
  <2>4. \A m \in Messages : Kept(m) => Kept(m)'
    BY <1>1, <1>3, <2>3 DEF Kept, GivenUp, Processed
  <2> QED
    BY <1>1, <2>3, <2>4, ConsumerStepKeepsInv DEF BusInv, RestTypeOK
<1>4. CASE ~Processed(d.message)
  <2>1. handling' = Plus(handling, d)
    BY <1>4 DEF StartHandler
  <2>2. /\ handling' \in [Deliveries -> Nat]
        /\ \A m \in Messages : Total(handling', m) = Total(handling, m) + IF m = d.message THEN 1 ELSE 0
    BY <1>0, <2>1, TotalOfPlus
  <2>3. \A m \in Messages :
          Total(queue', m) + Total(handling', m)
            = Total(queue, m) + Total(handling, m) - IF m = d.message THEN 1 - 1 ELSE 0
    BY <1>2, <2>2, TotalsAreNat
  <2>4. /\ CopiesOK'
        /\ \A m \in Messages : /\ Copies(m)' > 0 => Copies(m) > 0
                               /\ Copies(m) > 0 => Copies(m)' > 0
    BY <1>0, <1>2, <2>2, <2>3, DeliveryMoves
  <2>5. \A m \in Messages : Kept(m) => Kept(m)'
    BY <1>1, <2>4 DEF Kept, GivenUp, Processed
  <2> QED
    BY <1>1, <2>4, <2>5, ConsumerStepKeepsInv DEF BusInv, RestTypeOK
<1> QED
  BY <1>3, <1>4

LEMMA CommitKeepsInv ==
  ASSUME BusInv, NEW d \in Deliveries, CommitHandler(d)
  PROVE  BusInv'
<1>0. queue \in [Deliveries -> Nat] /\ handling \in [Deliveries -> Nat]
  BY DEF BusInv, CopiesOK
<1>1. /\ handling[d] > 0 /\ handling' = Minus(handling, d)
      /\ applied' = [applied EXCEPT ![d.message] = @ + 1]
      /\ UNCHANGED <<outbox, batch, marking, wire, bound, queue, quarantine, lost, dropped>>
  BY DEF CommitHandler
<1>2. d.message \in Messages
  BY DEF Deliveries
<1>3. applied' \in [Messages -> Nat] /\ applied'[d.message] > 0
      /\ \A m \in Messages : applied[m] > 0 => applied'[m] > 0
  BY <1>1, <1>2 DEF BusInv, RestTypeOK
<1>4. /\ handling' \in [Deliveries -> Nat]
      /\ \A m \in Messages : Total(handling', m) = Total(handling, m) - IF m = d.message THEN 1 ELSE 0
  BY <1>0, <1>1, TotalOfMinus
<1>5. \A m \in Messages :
        Total(queue', m) + Total(handling', m)
          = Total(queue, m) + Total(handling, m) - IF m = d.message THEN 1 - 0 ELSE 0
  BY <1>1, <1>4, TotalsAreNat
<1>6. /\ CopiesOK'
      /\ \A m \in Messages : /\ Copies(m)' > 0 => Copies(m) > 0
                             /\ Copies(m) > 0 => Copies(m)' > 0 \/ m = d.message
  BY <1>0, <1>1, <1>4, <1>5, DeliveryMoves
<1>7. \A m \in Messages : Kept(m) => Kept(m)'
  BY <1>1, <1>3, <1>6 DEF Kept, GivenUp, Processed
<1> QED
  BY <1>1, <1>3, <1>6, <1>7, ConsumerStepKeepsInv DEF BusInv, RestTypeOK

LEMMA FailureKeepsInv ==
  ASSUME BusInv, NEW d \in Deliveries, NEW permanent \in BOOLEAN, HandlerFails(d, permanent)
  PROVE  BusInv'
<1>0. queue \in [Deliveries -> Nat] /\ handling \in [Deliveries -> Nat]
  BY DEF BusInv, CopiesOK
<1>1. /\ handling[d] > 0 /\ handling' = Minus(handling, d)
      /\ UNCHANGED <<outbox, batch, marking, wire, bound, applied, dropped>>
  BY DEF HandlerFails
<1>2. d.message \in Messages /\ d.message \in Caused
  BY <1>0, <1>1, DeliveredIsCaused
<1>3. /\ handling' \in [Deliveries -> Nat]
      /\ \A m \in Messages : Total(handling', m) = Total(handling, m) - IF m = d.message THEN 1 ELSE 0
  BY <1>0, <1>1, TotalOfMinus
<1>4. CASE ShouldRequeue(d, permanent)
  <2> DEFINE again == Delivery(d.message, TRUE)
  <2>1. queue' = Plus(queue, again) /\ UNCHANGED <<quarantine, lost>>
    BY <1>4 DEF HandlerFails
  <2>2. again \in Deliveries /\ again.message = d.message
    BY <1>2 DEF Delivery, Deliveries
  <2> HIDE DEF again
  <2>3. /\ queue' \in [Deliveries -> Nat]
        /\ \A m \in Messages : Total(queue', m) = Total(queue, m) + IF m = d.message THEN 1 ELSE 0
    BY <1>0, <2>1, <2>2, TotalOfPlus
  <2>4. \A m \in Messages :
          Total(queue', m) + Total(handling', m)
            = Total(queue, m) + Total(handling, m) - IF m = d.message THEN 1 - 1 ELSE 0
    BY <1>3, <2>3, TotalsAreNat
  <2>5. /\ CopiesOK'
        /\ \A m \in Messages : /\ Copies(m)' > 0 => Copies(m) > 0
                               /\ Copies(m) > 0 => Copies(m)' > 0
    BY <1>3, <2>3, <2>4, DeliveryMoves
  <2>6. \A m \in Messages : Kept(m) => Kept(m)'
    BY <1>1, <2>1, <2>5 DEF Kept, GivenUp, Processed
  <2> QED
    BY <1>1, <2>1, <2>5, <2>6, ConsumerStepKeepsInv DEF BusInv, RestTypeOK
<1>5. CASE ~ShouldRequeue(d, permanent)
  <2>1. /\ queue' = queue
        /\ quarantine' \cup lost' = quarantine \cup lost \cup {d.message}
    BY <1>5 DEF HandlerFails, GiveUp
  <2>2. \A m \in Messages :
          Total(queue', m) + Total(handling', m)
            = Total(queue, m) + Total(handling, m) - IF m = d.message THEN 1 - 0 ELSE 0
    BY <1>3, <2>1, TotalsAreNat
  <2>3. /\ CopiesOK'
        /\ \A m \in Messages : /\ Copies(m)' > 0 => Copies(m) > 0
                               /\ Copies(m) > 0 => Copies(m)' > 0 \/ m = d.message
    BY <1>0, <1>3, <2>1, <2>2, DeliveryMoves
  <2>4. \A m \in Messages : Kept(m) => Kept(m)'
    BY <1>1, <2>1, <2>3 DEF Kept, GivenUp, Processed
  <2> QED
    BY <1>1, <1>2, <2>1, <2>3, <2>4, ConsumerStepKeepsInv DEF BusInv, RestTypeOK
<1> QED
  BY <1>4, <1>5

LEMMA StopKeepsInv ==
  ASSUME BusInv, ConsumerStops
  PROVE  BusInv'
<1>0. queue \in [Deliveries -> Nat] /\ handling \in [Deliveries -> Nat]
  BY DEF BusInv, CopiesOK
<1>1. /\ queue' = [d \in Deliveries |->
             queue[d] + IF d.again THEN handling[d] + handling[Delivery(d.message, FALSE)] ELSE 0]
      /\ handling' = [d \in Deliveries |-> 0]
      /\ UNCHANGED <<outbox, batch, marking, wire, bound, applied, quarantine, lost, dropped>>
  BY DEF ConsumerStops
<1>2. queue' \in [Deliveries -> Nat] /\ handling' \in [Deliveries -> Nat]
  <2>1. \A d \in Deliveries : Delivery(d.message, FALSE) \in Deliveries
    BY DEF Delivery, Deliveries
  <2>2. \A d \in Deliveries :
          (queue[d] + IF d.again THEN handling[d] + handling[Delivery(d.message, FALSE)] ELSE 0) \in Nat
    <3> SUFFICES ASSUME NEW d \in Deliveries
                 PROVE  (queue[d] + IF d.again THEN handling[d] + handling[Once(d.message)] ELSE 0) \in Nat
      BY DEF Once
    <3>1. queue[d] \in Nat /\ handling[d] \in Nat /\ handling[Once(d.message)] \in Nat
      BY <1>0, <2>1 DEF Once
    <3> QED
      BY <3>1
  <2> QED
    BY <1>1, <2>2
<1>3. \A m \in Messages : Copies(m)' = Copies(m)
  <2> SUFFICES ASSUME NEW m \in Messages PROVE Copies(m)' = Copies(m)
    OBVIOUS
  <2>1. Once(m) \in Deliveries /\ Again(m) \in Deliveries
    BY DeliveriesAreTwo
  <2>2. /\ Once(m).again = FALSE /\ Again(m).again = TRUE /\ Again(m).message = m
    BY DEF Once, Again, Delivery
  <2>3. queue'[Once(m)] = queue[Once(m)]
    <3>1. queue'[Once(m)] = queue[Once(m)] + 0
      BY <1>1, <2>1, <2>2
    <3> QED
      BY <1>0, <2>1, <3>1
  <2>4. queue'[Again(m)] = queue[Again(m)] + (handling[Again(m)] + handling[Once(m)])
    BY <1>1, <2>1, <2>2 DEF Once
  <2>5. handling'[Once(m)] = 0 /\ handling'[Again(m)] = 0
    BY <1>1, <2>1
  <2>6. /\ queue[Once(m)] \in Nat /\ queue[Again(m)] \in Nat
        /\ handling[Once(m)] \in Nat /\ handling[Again(m)] \in Nat
    BY <1>0, <2>1
  <2>7. Copies(m) = queue[Once(m)] + queue[Again(m)] + handling[Once(m)] + handling[Again(m)]
    BY CopiesByDelivery
  <2>8. Copies(m)' = queue'[Once(m)] + queue'[Again(m)] + handling'[Once(m)] + handling'[Again(m)]
    BY DEF Copies, Once, Again, Delivery
  <2> QED
    BY <2>3, <2>4, <2>5, <2>6, <2>7, <2>8
<1>4. CopiesOK'
  BY <1>2, <1>3 DEF BusInv, CopiesOK
<1>5. \A m \in Messages : Kept(m) => Kept(m)'
  BY <1>1, <1>3 DEF Kept, GivenUp, Processed
<1> QED
  BY <1>1, <1>3, <1>4, <1>5, ConsumerStepKeepsInv DEF BusInv, RestTypeOK

LEMMA BusInvStep == BusInv /\ [BusNext]_busVars => BusInv'
<1> SUFFICES ASSUME BusInv, [BusNext]_busVars PROVE BusInv'
  OBVIOUS
<1>1. CASE UNCHANGED busVars
  <2>1. CopiesOK' /\ \A m \in Messages : Copies(m)' = Copies(m)
    BY <1>1, CopiesUntouched DEF busVars
  <2>2. \A m \in Messages : Kept(m) => Kept(m)'
    BY <1>1, <2>1 DEF busVars, Kept, GivenUp, Processed
  <2> QED
    BY <1>1, <2>1, <2>2, ConsumerStepKeepsInv DEF busVars, BusInv, RestTypeOK
<1> QED
  BY <1>1, ProducerKeepsInv, BrokerKeepsInv, StartKeepsInv, CommitKeepsInv, FailureKeepsInv,
     StopKeepsInv DEF BusNext

LEMMA BusAlways == BusSpec => []BusInv
BY BusInvInit, BusInvStep, PTL DEF BusSpec

\* Queues, handlers and the rows of the outbox are well typed; in particular
\* no more than MaxCopies copies of an event are ever counted.
THEOREM BusTypeCorrect == BusSpec => []BusTypeOK
BY BusAlways, TypeFromInv, PTL

\* An event that has been written is still somewhere, or was given
\* up or dropped (relay and consumer of eventbus index.ts).
THEOREM NothingVanishes == BusSpec => []NoEventVanishes
<1>1. BusInv => NoEventVanishes
  BY DEF BusInv, RestTypeOK, Kept, Unpublished, NoEventVanishes
<1> QED
  BY <1>1, BusAlways, PTL

-----------------------------------------------------------------------------
(* EventBus implements EventDelivery *)

LEMMA PromiseInit == BusInit => Promise!Init
BY DEF BusInit, Promise!Init

LEMMA PromiseStep ==
  ASSUME BusInv, BusNext
  PROVE  Promise!Next \/ UNCHANGED Promise!promiseVars
<1> DEFINE c == {e \in Messages : outbox[e] # "none"}
           gone == quarantine \cup lost \cup dropped
<1>0. BusInv /\ c = Caused /\ Caused \subseteq Messages
  BY DEF Caused
<1>1. ASSUME NEW e \in Messages, WriteOutbox(e)
      PROVE  Promise!Next
  <2>1. e \notin c /\ c' = c \cup {e}
    BY <1>1 DEF WriteOutbox, BusInv, RestTypeOK
  <2>2. UNCHANGED <<applied, quarantine, lost, dropped>>
    BY <1>1 DEF WriteOutbox
  <2>3. Promise!Cause(e)
    BY <2>1, <2>2 DEF Promise!Cause
  <2> QED
    BY <2>3 DEF Promise!Next
<1>2. ASSUME NEW lot \in SUBSET Messages, lot \subseteq Caused, gone' = gone \cup lot,
             UNCHANGED <<outbox, applied>>
      PROVE  Promise!Next
  <2>1. Promise!Forsake(lot)
    BY <1>0, <1>2 DEF Promise!Forsake
  <2> QED
    BY <2>1 DEF Promise!Next
<1>3. ASSUME NEW e \in Messages, ReachBroker(e)
      PROVE  Promise!Next \/ UNCHANGED Promise!promiseVars
  <2>1. CASE bound
    BY <1>3, <2>1 DEF ReachBroker, Promise!promiseVars
  <2>2. CASE ~bound
    <3>1. gone' = gone \cup {e} /\ UNCHANGED <<outbox, applied>>
      BY <1>3, <2>2 DEF ReachBroker
    <3>2. {e} \subseteq Caused /\ {e} \in SUBSET Messages
      BY <1>3 DEF ReachBroker, BusInv
    <3> HIDE DEF gone
    <3> QED
      BY <1>2, <3>1, <3>2
  <2> QED
    BY <2>1, <2>2
<1>4. ASSUME ConnectionBreaks
      PROVE  Promise!Next
  <2>1. gone' = gone \cup wire /\ wire \subseteq Caused /\ UNCHANGED <<outbox, applied>>
    BY <1>4 DEF ConnectionBreaks, BusInv
  <2> HIDE DEF gone
  <2> QED
    BY <1>0, <1>2, <2>1
<1>5. ASSUME NEW d \in Deliveries, CommitHandler(d)
      PROVE  Promise!Next
  <2> DEFINE e == d.message
  <2>1. e \in Messages /\ e \in c /\ applied[e] \in Nat /\ ~(applied[e] > 0)
    BY <1>0, <1>5, DeliveredIsCaused DEF CommitHandler, Processed, BusInv, RestTypeOK
  <2>2. applied[e] = 0 /\ applied' = [applied EXCEPT ![e] = 1]
    <3>1. applied[e] = 0 /\ applied' = [applied EXCEPT ![e] = applied[e] + 1]
      BY <1>5, <2>1 DEF CommitHandler
    <3>2. applied[e] + 1 = 1
      BY <3>1
    <3> QED
      BY <3>1, <3>2
  <2>3. UNCHANGED <<outbox, quarantine, lost, dropped>>
    BY <1>5 DEF CommitHandler
  <2>4. Promise!TakeEffect(e)
    BY <2>1, <2>2, <2>3 DEF Promise!TakeEffect
  <2> QED
    BY <2>1, <2>4 DEF Promise!Next
<1>6. ASSUME NEW d \in Deliveries, NEW permanent \in BOOLEAN, HandlerFails(d, permanent)
      PROVE  Promise!Next \/ UNCHANGED Promise!promiseVars
  <2>1. d.message \in Messages /\ d.message \in Caused
    BY <1>6, DeliveredIsCaused DEF HandlerFails
  <2>2. CASE ShouldRequeue(d, permanent)
    BY <1>6, <2>2 DEF HandlerFails, Promise!promiseVars
  <2>3. CASE ~ShouldRequeue(d, permanent)
    <3>1. gone' = gone \cup {d.message} /\ UNCHANGED <<outbox, applied>>
      BY <1>6, <2>3 DEF HandlerFails, GiveUp
    <3>2. {d.message} \subseteq Caused /\ {d.message} \in SUBSET Messages
      BY <2>1
    <3> HIDE DEF gone
    <3> QED
      BY <1>2, <3>1, <3>2
  <2> QED
    BY <2>2, <2>3
<1>7. ASSUME NEW r \in Relays, MarkPublished(r)
      PROVE  UNCHANGED Promise!promiseVars
  <2>1. marking[r] \subseteq c
    BY <1>0 DEF BusInv
  <2>2. c' = c
    BY <1>7, <2>1 DEF MarkPublished
  <2> QED
    BY <1>7, <2>2 DEF MarkPublished, Promise!promiseVars
<1>8. ASSUME \/ \E r \in Relays : \/ FetchUnpublished(r) \/ RelayStops(r)
                                  \/ \E accepted \in SUBSET batch[r] : PublishBatch(r, accepted)
             \/ BindQueue \/ ConsumerStops \/ \E d \in Deliveries : StartHandler(d)
      PROVE  UNCHANGED Promise!promiseVars
  <2>1. UNCHANGED <<outbox, applied, quarantine, lost, dropped>>
    BY <1>8 DEF FetchUnpublished, RelayStops, PublishBatch, BindQueue, ConsumerStops, StartHandler
  <2> QED
    BY <2>1 DEF Promise!promiseVars
<1> QED
  BY <1>1, <1>3, <1>4, <1>5, <1>6, <1>7, <1>8 DEF BusNext

\* The bus keeps the promise of EventDelivery: an event takes effect at most
\* once, and only after its cause (eventbus index.ts, the processed_events of
\* the consumers).
THEOREM BusImplementsDelivery == BusSpec => DeliveryIsKept
<1>1. BusInv /\ [BusNext]_busVars => [Promise!Next]_(Promise!promiseVars)
  <2>1. ASSUME UNCHANGED busVars
        PROVE  UNCHANGED Promise!promiseVars
    BY <2>1 DEF busVars, Promise!promiseVars
  <2> QED
    BY <2>1, PromiseStep
<1> QED
  BY <1>1, PromiseInit, BusAlways, PTL DEF BusSpec, DeliveryIsKept, Promise!Spec

-----------------------------------------------------------------------------
(* IdleRelease *)

\* A start is in the chain, or runs.
StartQueued == \E i \in 1..Len(chain) : chain[i] = "start"
StartPending == task = "start" \/ StartQueued

\* The stop of the service is in the chain, or runs.
StopQueued == \E i \in 1..Len(chain) : chain[i] = "stop"
StopPending == task = "stop" \/ StopQueued

\* What runs: one unit at most that can be stopped, none when it is given up or
\* the service has ended, and beside it what failures have left.
WorkOK ==
  /\ works <= 1 /\ leaked <= failures
  /\ released => works = 0
  /\ stopped => StopPending \/ (works = 0 /\ task # "start")

\* There is one start at most, and only while there is no work.  One that no
\* request has asked for is the first of the service, before any other task.
IdleInv ==
  /\ IdleTypeOK /\ WorkOK
  /\ \A i, j \in 1..Len(chain) : chain[i] = "start" /\ chain[j] = "start" => i = j
  /\ task = "start" => ~StartQueued
  /\ StartPending => works = 0
  /\ StartPending /\ ~resuming =>
       ~released /\ (task = "start" \/ (task = "none" /\ Head(chain) = "start"))

LEMMA QueueOther ==
  ASSUME IdleInv, NEW t \in Tasks \ {"start"}, Queue(t),
         UNCHANGED <<task, works, leaked, failures, released, resuming, quiet>>,
         stopped' \in BOOLEAN, stopped' => stopped \/ t = "stop"
  PROVE  IdleInv'
<1>0. chain \in Seq(Tasks) /\ chain' = Append(chain, t) /\ t # "start" /\ t \in Tasks
  BY DEF IdleInv, IdleTypeOK, Queue
<1>1. /\ chain' \in Seq(Tasks) /\ Len(chain') = Len(chain) + 1 /\ Len(chain) \in Nat
      /\ \A i \in 1..Len(chain) : chain'[i] = chain[i]
      /\ chain'[Len(chain) + 1] = t
  BY <1>0
<1>2. \A i \in 1..Len(chain') : chain'[i] = "start" => i \in 1..Len(chain) /\ chain[i] = "start"
  BY <1>0, <1>1
<1>3. StartQueued' => StartQueued
  BY <1>2 DEF StartQueued
<1>4. Head(chain) = "start" /\ StartQueued => Head(chain') = "start"
  BY <1>0, <1>1 DEF StartQueued
<1>5. \A i, j \in 1..Len(chain') : chain'[i] = "start" /\ chain'[j] = "start" => i = j
  BY <1>2 DEF IdleInv
<1>6. (t = "stop" \/ StopQueued) => StopQueued'
  <2>1. CASE t = "stop"
    <3>1. Len(chain) + 1 \in 1..Len(chain')
      BY <1>1
    <3> QED
      BY <1>1, <2>1, <3>1 DEF StopQueued
  <2>2. CASE StopQueued
    BY <1>1, <2>2 DEF StopQueued
  <2> QED
    BY <2>1, <2>2
<1>7. IdleTypeOK' /\ WorkOK'
  BY <1>1, <1>6 DEF IdleInv, IdleTypeOK, WorkOK, StopPending
<1> QED
  BY <1>3, <1>4, <1>5, <1>7 DEF IdleInv, StartPending

\* A failure leaves one unit at most.
LEMMA FailKeepsBound ==
  ASSUME IdleTypeOK, WorkOK, Fail
  PROVE  leaked' \in Nat /\ failures' \in 0..MaxFailures /\ leaked' <= failures'
BY IdleAssumption DEF IdleTypeOK, WorkOK, Fail

LEMMA TouchKeepsInv ==
  ASSUME IdleInv, Touch
  PROVE  IdleInv'
<1>1. CASE ~NeedsStart
  <2>1. UNCHANGED <<chain, task, works, leaked, failures, released, resuming, stopped>> /\ quiet' = FALSE
    BY <1>1 DEF Touch
  <2> QED
    BY <2>1 DEF IdleInv, IdleTypeOK, WorkOK, StartPending, StartQueued, StopPending, StopQueued
<1>2. CASE NeedsStart
  <2>1. /\ released /\ ~resuming /\ ~stopped
        /\ resuming' = TRUE /\ chain' = Append(chain, "start") /\ quiet' = FALSE
        /\ UNCHANGED <<task, works, leaked, failures, released, stopped>>
    BY <1>2 DEF Touch, NeedsStart, Queue
  <2>2. ~StartPending /\ works = 0
    BY <2>1 DEF IdleInv, WorkOK
  <2>3. chain \in Seq(Tasks) /\ "start" \in Tasks
    BY DEF IdleInv, IdleTypeOK, Tasks
  <2>4. /\ chain' \in Seq(Tasks) /\ Len(chain') = Len(chain) + 1 /\ Len(chain) \in Nat
        /\ \A i \in 1..Len(chain) : chain'[i] = chain[i]
    BY <2>1, <2>3
  <2>5. \A i \in 1..Len(chain') : chain'[i] = "start" => i = Len(chain) + 1
    BY <2>2, <2>4 DEF StartPending, StartQueued
  <2>6. IdleTypeOK' /\ WorkOK'
    BY <2>1, <2>2, <2>4 DEF IdleInv, IdleTypeOK, WorkOK
  <2>7. task' # "start" /\ works' = 0
    BY <2>1, <2>2 DEF StartPending
  <2> QED
    BY <2>1, <2>5, <2>6, <2>7 DEF IdleInv, StartPending
<1> QED
  BY <1>1, <1>2

LEMMA BeginKeepsInv ==
  ASSUME IdleInv, BeginTask
  PROVE  IdleInv'
<1> DEFINE h == Head(chain)
<1>0. chain \in Seq(Tasks) /\ chain # <<>> /\ chain' = Tail(chain) /\ task = "none"
  BY DEF IdleInv, IdleTypeOK, BeginTask
<1>1. /\ chain' \in Seq(Tasks) /\ Len(chain') = Len(chain) - 1 /\ Len(chain) \in Nat \ {0}
      /\ \A i \in 1..Len(chain') : chain'[i] = chain[i + 1] /\ i + 1 \in 1..Len(chain)
      /\ h = chain[1] /\ h \in Tasks
  BY <1>0
<1>2. task' \in {"none", h} /\ UNCHANGED <<works, leaked, failures, released, resuming, stopped, quiet>>
  BY DEF BeginTask
<1>3. StartQueued' => StartQueued
  BY <1>1 DEF StartQueued
<1>4. h = "start" => ~StartQueued' /\ StartQueued
  <2> SUFFICES ASSUME h = "start" PROVE ~StartQueued' /\ StartQueued
    OBVIOUS
  <2>1. 1 \in 1..Len(chain) /\ chain[1] = "start"
    BY <1>1
  <2>2. \A i \in 1..Len(chain') : chain'[i] # "start"
    <3> SUFFICES ASSUME NEW i \in 1..Len(chain'), chain'[i] = "start" PROVE FALSE
      OBVIOUS
    <3>1. i + 1 \in 1..Len(chain) /\ chain[i + 1] = "start" /\ i + 1 # 1
      BY <1>1
    <3> QED
      BY <2>1, <3>1 DEF IdleInv
  <2> QED
    BY <2>1, <2>2 DEF StartQueued
<1>5. \A i, j \in 1..Len(chain') : chain'[i] = "start" /\ chain'[j] = "start" => i = j
  <2> SUFFICES ASSUME NEW i \in 1..Len(chain'), NEW j \in 1..Len(chain'),
                      chain'[i] = "start", chain'[j] = "start"
               PROVE  i = j
    OBVIOUS
  <2>1. /\ i + 1 \in 1..Len(chain) /\ chain[i + 1] = "start"
        /\ j + 1 \in 1..Len(chain) /\ chain[j + 1] = "start"
    BY <1>1
  <2>2. i + 1 = j + 1
    BY <2>1 DEF IdleInv
  <2> QED
    BY <2>2
<1>6. IdleTypeOK' /\ WorkOK'
  <2>1. IdleTypeOK'
    BY <1>1, <1>2 DEF IdleInv, IdleTypeOK
  <2>2. stopped => task' # "start"
    BY DEF BeginTask, Skips
  <2>3. StopPending => StopPending'
    <3> SUFFICES ASSUME NEW i \in 1..Len(chain), chain[i] = "stop" PROVE StopPending'
      BY <1>0 DEF StopPending, StopQueued
    <3>1. CASE i = 1
      <4>1. task' = "stop"
        BY <1>1, <3>1 DEF BeginTask, Skips
      <4> QED
        BY <4>1 DEF StopPending
    <3>2. CASE i # 1
      <4>1. i - 1 \in 1..Len(chain') /\ chain'[i - 1] = "stop"
        BY <1>1, <3>2
      <4> QED
        BY <4>1 DEF StopPending, StopQueued
    <3> QED
      BY <3>1, <3>2
  <2> QED
    BY <1>2, <2>1, <2>2, <2>3 DEF IdleInv, WorkOK
<1>7. StartPending' => StartPending
  BY <1>2, <1>3, <1>4 DEF StartPending
<1>8. task' = "start" => ~StartQueued'
  BY <1>2, <1>4
<1>9. StartPending' /\ ~resuming' => ~released' /\ task' = "start"
  <2> SUFFICES ASSUME StartPending', ~resuming' PROVE ~released' /\ task' = "start"
    OBVIOUS
  <2>1. ~released /\ h = "start"
    BY <1>0, <1>2, <1>7 DEF IdleInv
  <2> QED
    BY <1>2, <1>4, <2>1 DEF StartPending
<1>10. StartPending' => works' = 0
  BY <1>2, <1>7 DEF IdleInv
<1> QED
  BY <1>5, <1>6, <1>8, <1>9, <1>10 DEF IdleInv

LEMMA IdleInvInit == IdleInit => IdleInv
<1> SUFFICES ASSUME IdleInit PROVE IdleInv
  OBVIOUS
<1>1. /\ chain \in Seq(Tasks) /\ Len(chain) = 1 /\ chain[1] = "start" /\ Head(chain) = "start"
  BY DEF IdleInit, Tasks
<1>2. IdleTypeOK /\ WorkOK
  <2>1. works = 0 /\ leaked = 0 /\ failures = 0 /\ stopped = FALSE
    BY DEF IdleInit
  <2>2. works \in Nat /\ leaked \in Nat /\ failures \in 0..MaxFailures
    BY <2>1, IdleAssumption
  <2>3. IdleTypeOK
    BY <1>1, <2>2 DEF IdleInit, IdleTypeOK
  <2> QED
    BY <2>1, <2>3 DEF WorkOK
<1>3. \A i, j \in 1..Len(chain) : i = j
  BY <1>1
<1> QED
  BY <1>1, <1>2, <1>3 DEF IdleInit, IdleInv, StartPending

LEMMA IdleInvStep == IdleInv /\ [IdleNext]_idleVars => IdleInv'
<1> SUFFICES ASSUME IdleInv, [IdleNext]_idleVars PROVE IdleInv'
  OBVIOUS
<1>1. ASSUME GrowQuiet
      PROVE  IdleInv'
  BY <1>1 DEF GrowQuiet, IdleInv, IdleTypeOK, WorkOK, StartPending, StartQueued, StopPending,
              StopQueued
<1>2. ASSUME CheckIdle
      PROVE  IdleInv'
  BY <1>2, QueueOther DEF CheckIdle, Tasks, IdleInv, IdleTypeOK
<1>3. ASSUME Stop
      PROVE  IdleInv'
  BY <1>3, QueueOther DEF Stop, Tasks, IdleInv, IdleTypeOK
<1>4. ASSUME StartSucceeds
      PROVE  IdleInv'
  <2>1. /\ task = "start" /\ task' = "none" /\ works' = works + 1
        /\ released' = FALSE /\ resuming' = FALSE
        /\ UNCHANGED <<chain, leaked, failures, stopped, quiet>>
    BY <1>4 DEF StartSucceeds
  <2>2. works = 0 /\ ~StartQueued
    BY <2>1 DEF IdleInv, StartPending
  <2>3. ~StartPending' /\ StopPending' = StopPending
    BY <2>1, <2>2 DEF StartPending, StartQueued, StopPending, StopQueued
  <2>4. works' = 1 /\ works' \in Nat /\ task' \in Tasks \cup {"none"}
    BY <2>1, <2>2
  <2>5. IdleTypeOK'
    BY <2>1, <2>4 DEF IdleInv, IdleTypeOK
  <2>6. stopped => StopPending
    BY <2>1 DEF IdleInv, WorkOK
  <2>7. WorkOK'
    <3>1. leaked' <= failures' /\ works' <= 1 /\ ~released'
      BY <2>1, <2>4 DEF IdleInv, WorkOK
    <3>2. stopped' => StopPending'
      BY <2>1, <2>3, <2>6
    <3> QED
      BY <3>1, <3>2 DEF WorkOK
  <2> QED
    BY <2>1, <2>3, <2>5, <2>7 DEF IdleInv
<1>5. ASSUME StartFails
      PROVE  IdleInv'
  <2>1. /\ task = "start" /\ task' = "none" /\ Fail
        /\ released' = TRUE /\ resuming' = FALSE
        /\ UNCHANGED <<chain, works, stopped, quiet>>
    BY <1>5 DEF StartFails
  <2>2. works = 0 /\ ~StartQueued
    BY <2>1 DEF IdleInv, StartPending
  <2>3. ~StartPending' /\ StopPending' = StopPending
    BY <2>1, <2>2 DEF StartPending, StartQueued, StopPending, StopQueued
  <2>4. /\ leaked' \in Nat /\ failures' \in 0..MaxFailures /\ leaked' <= failures'
    BY <2>1, FailKeepsBound DEF IdleInv
  <2>5. IdleTypeOK' /\ WorkOK'
    BY <2>1, <2>2, <2>3, <2>4 DEF IdleInv, IdleTypeOK, WorkOK
  <2> QED
    BY <2>1, <2>3, <2>5 DEF IdleInv
<1>6. ASSUME WorkStops
      PROVE  IdleInv'
  <2>1. /\ task \in {"release", "stop"} /\ task' = "none" /\ works' = 0
        /\ Fail \/ UNCHANGED <<leaked, failures>>
        /\ released' = (released \/ task = "release")
        /\ UNCHANGED <<chain, resuming, stopped, quiet>>
    BY <1>6 DEF WorkStops
  <2>2. StartPending' => StartPending
    BY <2>1 DEF StartPending, StartQueued
  <2>3. StartPending' => resuming
    BY <2>1, <2>2 DEF IdleInv
  <2>4. /\ leaked' \in Nat /\ failures' \in 0..MaxFailures /\ leaked' <= failures'
    BY <2>1, FailKeepsBound DEF IdleInv, IdleTypeOK, WorkOK
  <2>5. IdleTypeOK' /\ WorkOK'
    BY <2>1, <2>4 DEF IdleInv, IdleTypeOK, WorkOK
  <2> QED
    BY <2>1, <2>3, <2>5 DEF IdleInv
<1>7. CASE UNCHANGED idleVars
  BY <1>7 DEF idleVars, IdleInv, IdleTypeOK, WorkOK, StartPending, StartQueued, StopPending,
              StopQueued
<1> QED
  BY <1>1, <1>2, <1>3, <1>4, <1>5, <1>6, <1>7, TouchKeepsInv, BeginKeepsInv DEF IdleNext

\* However requests, the timer and the end of the service interleave, and
\* whichever starts and stops fail, the background work is there once at most,
\* beside one unit for each failure; a service that has given it up or has ended
\* runs only those (startWithIdleRelease, eventbus index.ts).
THEOREM WorkRunsOnce == IdleSpec => []OneUnitOfWork
<1>1. IdleSpec => []IdleInv
  BY IdleInvInit, IdleInvStep, PTL DEF IdleSpec
<1>2. IdleInv => OneUnitOfWork
  <2> SUFFICES ASSUME IdleInv PROVE OneUnitOfWork
    OBVIOUS
  <2>1. /\ works \in Nat /\ leaked \in Nat /\ failures \in Nat
        /\ works <= 1 /\ leaked <= failures
    BY IdleAssumption DEF IdleInv, IdleTypeOK, WorkOK
  <2>2. task = "start" => works = 0
    BY DEF IdleInv, StartPending
  <2>3. Ended => works = 0
    <3> SUFFICES ASSUME Ended PROVE works = 0
      OBVIOUS
    <3>1. ~StopPending
      BY DEF Ended, StopPending, StopQueued
    <3> QED
      BY <3>1 DEF Ended, IdleInv, WorkOK
  <2>4. released => works = 0
    BY DEF IdleInv, WorkOK
  <2>5. Ended => task # "start"
    BY DEF Ended
  <2> QED
    BY <2>1, <2>2, <2>3, <2>4, <2>5 DEF OneUnitOfWork, Running
<1> QED
  BY <1>1, <1>2, PTL
=============================================================================
