---------------------------- MODULE MCBackground ----------------------------
(***************************************************************************)
(* What the background work of the services must bring about: the jobs of  *)
(* venue, the relay and the consumers, the release of idle services and    *)
(* the payment of a booking.  A behaviour belongs to one of them, `part`,  *)
(* which is chosen at the start and whose fairness it keeps; the others    *)
(* keep their initial state.                                               *)
(***************************************************************************)
EXTENDS CourtSchedule, Shutdown, EventBus, IdleRelease

CONSTANTS Parts,     \* the components that the run looks at
          SagaBookings, Intents, Transfers, NoIntent, NoTransfer, NoRevenue, Price

VARIABLES part,
          status, lapsed, phase, venueDone, confirming, healing,
          intent, transfer, receipt, asked, balancePaid,
          credited, refunds, cancelRefund, revenue, dispute,
          pending, available, platform,
          sent, financeDone, retried, quarantined

\* every transfer is exact, events of a booking come in order and before it ends
Saga == INSTANCE BookingSaga
          WITH Bookings <- SagaBookings, Amounts <- {Price}, PartialRefunds <- {5},
               InOrder <- TRUE, BeforeEnd <- TRUE

sagaVars == <<status, lapsed, phase, venueDone, confirming, healing, intent, transfer, receipt, asked,
              balancePaid, credited, refunds, cancelRefund, revenue, dispute,
              pending, available, platform, sent, financeDone, retried, quarantined>>

Exclusively(p, next, others) == part = p /\ next /\ UNCHANGED <<part, others>>

BackgroundInit ==
  /\ part \in Parts
  /\ Init /\ ShutdownInit /\ BusInit /\ IdleInit /\ Saga!Init

BackgroundNext ==
  \/ Exclusively("schedule", Next, <<shutdownVars, busVars, idleVars, sagaVars>>)
  \/ Exclusively("shutdown", ShutdownNext, <<vars, busVars, idleVars, sagaVars>>)
  \/ Exclusively("bus", BusNext, <<vars, shutdownVars, idleVars, sagaVars>>)
  \/ Exclusively("idle", IdleNext, <<vars, shutdownVars, busVars, sagaVars>>)
  \/ Exclusively("saga", Saga!Next, <<vars, shutdownVars, busVars, idleVars>>)

BackgroundSpec ==
  /\ BackgroundInit
  /\ [][BackgroundNext]_<<part, vars, shutdownVars, busVars, idleVars, sagaVars>>
  /\ \/ part = "schedule" /\ Fairness
     \/ part = "shutdown" /\ ShutdownFairness
     \/ part = "bus" /\ BusFairness
     \/ part = "idle" /\ IdleFairness
     \/ part = "saga" /\ Saga!Fairness

MCOneRange == {<<2, 3>>}

\* the liveness of BookingSaga, for the run
PaymentIsSettled == Saga!PaymentIsSettled
FullRefundIsPaid == Saga!FullRefundIsPaid
PlayedRevenueIsReleased == Saga!PlayedRevenueIsReleased
=============================================================================
