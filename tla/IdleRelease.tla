----------------------------- MODULE IdleRelease -----------------------------
(***************************************************************************)
(* startWithIdleRelease: a service gives up its background work, with its  *)
(* relay, consumers and schedulers, when no request has come for a while,  *)
(* and builds it again on the next request.  The tasks run one at a time,  *)
(* through a chain of promises, but each of them awaits, and requests, the *)
(* timer and the end of the service come at any point between.             *)
(*                                                                         *)
(* Faults: start() fails half way, and a stop function fails.  What they   *)
(* leave keeps running, and nobody holds its stop function.                *)
(*                                                                         *)
(* Abstractions: the background work is one unit; the clock is whether the *)
(* last activity is older than idleMs.                                     *)
(***************************************************************************)
EXTENDS Integers, Sequences

CONSTANTS MaxTasks,     \* bound on the tasks that wait
          MaxFailures   \* bound on the starts and stops that fail

ASSUME IdleAssumption == MaxFailures \in Nat

VARIABLES chain,     \* tasks that wait
          task,      \* the task that runs: it awaits
          works,     \* units of background work that run and can be stopped
          leaked,    \* units, whole or in part, that run and cannot be stopped
          failures,  \* starts and stops that have failed
          released, resuming, stopped,
          quiet      \* is the last activity older than idleMs?

idleVars == <<chain, task, works, leaked, failures, released, resuming, stopped, quiet>>

Tasks == {"start", "release", "stop"}

IdleTypeOK ==
  /\ chain \in Seq(Tasks) /\ task \in Tasks \cup {"none"}
  /\ works \in Nat /\ leaked \in Nat /\ failures \in 0..MaxFailures
  /\ released \in BOOLEAN /\ resuming \in BOOLEAN /\ stopped \in BOOLEAN
  /\ quiet \in BOOLEAN

Queue(t) == chain' = Append(chain, t)

\* Mutant: every request asks for the work again.
NeedsStartEachTime == released /\ ~stopped

NeedsStart == released /\ ~resuming /\ ~stopped

\* markActivity, on every request
Touch ==
  /\ Len(chain) < MaxTasks
  /\ quiet' = FALSE
  /\ IF NeedsStart
     THEN resuming' = TRUE /\ Queue("start")
     ELSE UNCHANGED <<resuming, chain>>
  /\ UNCHANGED <<task, works, leaked, failures, released, stopped>>

GrowQuiet ==
  /\ ~quiet /\ quiet' = TRUE
  /\ UNCHANGED <<chain, task, works, leaked, failures, released, resuming, stopped>>

\* the timer may fire again before the release it queued has run
CheckIdle ==
  /\ ~stopped /\ ~released /\ quiet /\ Len(chain) < MaxTasks
  /\ Queue("release")
  /\ UNCHANGED <<task, works, leaked, failures, released, resuming, stopped, quiet>>

Stop ==
  /\ ~stopped /\ stopped' = TRUE
  /\ Queue("stop")
  /\ UNCHANGED <<task, works, leaked, failures, released, resuming, quiet>>

\* the next task of the chain reads the flags and starts to await, or returns
Skips(t) == \/ t = "start" /\ stopped
            \/ t = "release" /\ (stopped \/ released)

BeginTask ==
  /\ task = "none" /\ chain # <<>>
  /\ task' = IF Skips(Head(chain)) THEN "none" ELSE Head(chain)
  /\ chain' = Tail(chain)
  /\ UNCHANGED <<works, leaked, failures, released, resuming, stopped, quiet>>

\* runStart
StartSucceeds ==
  /\ task = "start" /\ task' = "none"
  /\ works' = works + 1 /\ released' = FALSE /\ resuming' = FALSE
  /\ UNCHANGED <<chain, leaked, failures, stopped, quiet>>

\* a failure, which may leave a unit running
Fail == /\ failures < MaxFailures /\ failures' = failures + 1
        /\ leaked' \in {leaked, leaked + 1}

\* Mutant: the flag of the resumption survives the failure.
StartFailsWhileResuming ==
  /\ task = "start" /\ task' = "none"
  /\ Fail /\ released' = TRUE
  /\ UNCHANGED <<chain, works, resuming, stopped, quiet>>

\* start() builds its array from left to right: what it had built when a
\* connection failed keeps running
StartFails ==
  /\ task = "start" /\ task' = "none"
  /\ Fail /\ released' = TRUE /\ resuming' = FALSE
  /\ UNCHANGED <<chain, works, stopped, quiet>>

\* runRelease, and the task of stop(): `stops` is emptied whether the functions
\* fail or not
WorkStops ==
  /\ task \in {"release", "stop"} /\ task' = "none"
  /\ works' = 0
  /\ (works > 0 /\ Fail) \/ UNCHANGED <<leaked, failures>>
  /\ released' = (released \/ task = "release")
  /\ UNCHANGED <<chain, resuming, stopped, quiet>>

-----------------------------------------------------------------------------

IdleInit ==
  /\ chain = <<"start">> /\ task = "none" /\ works = 0 /\ leaked = 0 /\ failures = 0
  /\ released = FALSE /\ resuming = FALSE /\ stopped = FALSE /\ quiet = FALSE

IdleNext == \/ Touch \/ GrowQuiet \/ CheckIdle \/ Stop
            \/ BeginTask \/ StartSucceeds \/ StartFails \/ WorkStops

IdleSpec == IdleInit /\ [][IdleNext]_idleVars

\* promises settle
IdleFairness == /\ WF_idleVars(BeginTask)
                /\ WF_idleVars(StartSucceeds \/ StartFails)
                /\ WF_idleVars(WorkStops)

\* the units that run: those that can be stopped, those that failures have left
\* and the one that start() is building
Running == works + leaked + IF task = "start" THEN 1 ELSE 0

\* stop() has run to its end
Ended == stopped /\ task = "none" /\ chain = <<>>

\* failures apart, the background work is never there twice, not even while it is
\* built; each failure adds at most one unit to what runs.  A service that has
\* released its work, until it builds it again, and one that has ended run
\* nothing but what failures have left.
OneUnitOfWork ==
  /\ Running <= 1 + failures
  /\ Ended \/ (released /\ task # "start") => Running <= failures

\* a request that finds the work given up makes start() run once more,
\* unless the service ends
RequestsResume == resuming ~> (~resuming \/ stopped)
=============================================================================
