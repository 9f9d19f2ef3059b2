---------------------------- MODULE EventDelivery ----------------------------
(***************************************************************************)
(* What the event bus promises to the services of the platform, and what   *)
(* the models of the sagas assume of it: an event takes effect at its      *)
(* consumer at most once, only after the transaction that caused it has    *)
(* committed; it may be given up.  The order of two events is not promised.*)
(***************************************************************************)
EXTENDS Integers

CONSTANT Messages    \* rows of the outbox tables

VARIABLES caused,    \* events whose transaction has committed
          effects,   \* how often the handler of an event has committed
          forsaken   \* events the bus may never deliver

promiseVars == <<caused, effects, forsaken>>

Init == caused = {} /\ effects = [e \in Messages |-> 0] /\ forsaken = {}

Cause(e) == e \notin caused /\ caused' = caused \cup {e} /\ UNCHANGED <<effects, forsaken>>

TakeEffect(e) ==
  /\ e \in caused /\ effects[e] = 0
  /\ effects' = [effects EXCEPT ![e] = 1]
  /\ UNCHANGED <<caused, forsaken>>

Forsake(lot) == lot \subseteq caused /\ forsaken' = forsaken \cup lot /\ UNCHANGED <<caused, effects>>

Next == \/ \E e \in Messages : Cause(e) \/ TakeEffect(e)
        \/ \E lot \in SUBSET Messages : Forsake(lot)

Spec == Init /\ [][Next]_promiseVars
=============================================================================
