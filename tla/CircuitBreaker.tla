--------------------------- MODULE CircuitBreaker ---------------------------
(***************************************************************************)
(* The circuit breaker of one process (src/core/circuit_breaker.py).  Its  *)
(* lock makes the check before a call and the record after it atomic, and  *)
(* is free while the call runs, so the calls of several coroutines of the  *)
(* process are in flight together and end in any order, long after the     *)
(* breaker has changed its state.  The order of the list of failures plays *)
(* no part in the code, which filters, extends and counts it: the model    *)
(* keeps its entries as a set.                                             *)
(***************************************************************************)
EXTENDS Naturals, FiniteSets

CONSTANTS Callers,           \* coroutines of the process
          FailureThreshold,  \* failure_threshold
          Window,            \* rolling_window, in ticks
          OpenTimeout,       \* open_timeout, in ticks
          PassesRequired,    \* half_open_success_required
          MaxFailures        \* bound: failures in the list

ASSUME CircuitBreakerAssumption ==
    /\ {FailureThreshold, Window, OpenTimeout, PassesRequired} \subseteq Nat \ {0}
    /\ MaxFailures \in Nat

VARIABLES state,      \* _state
          failures,   \* _failures, each with the ticks since it was recorded
          openFor,    \* ticks since _opened_at
          passes,     \* _half_open_passes
          call,       \* what each coroutine does: "none", or the state that admitted its call
          up,         \* the service answers every call from now on
          wins        \* history: calls that returned while half-open, since it last became so

vars == <<state, failures, openFor, passes, call, up, wins>>

States  == {"closed", "open", "half_open"}
Slots   == 1 .. MaxFailures
Entries == [slot : Slots, age : 0 .. Window]

TypeOK ==
    /\ state \in States
    /\ failures \in SUBSET Entries
    /\ \A f, g \in failures : f.slot = g.slot => f = g
    /\ openFor \in 0 .. OpenTimeout
    /\ passes \in 0 .. PassesRequired - 1
    /\ call \in [Callers -> {"none", "closed", "half_open"}]
    /\ up \in BOOLEAN
    /\ wins \in Nat

Init ==
    /\ state = "closed" /\ failures = {} /\ openFor = 0 /\ passes = 0
    /\ call = [c \in Callers |-> "none"]
    /\ up = FALSE /\ wins = 0

----------------------------------------------------------------------------
(* Before the call *)

(* A bug: the open breaker is not given a second chance. *)
TimedOutNever == FALSE

TimedOut == state = "open" /\ openFor >= OpenTimeout

(* A bug: successes of an earlier half-open time still count. *)
AdmitKeepingPasses(c) ==
    /\ call[c] = "none"
    /\ state # "open" \/ TimedOut
    /\ state' = IF TimedOut THEN "half_open" ELSE state
    /\ wins' = IF TimedOut THEN 0 ELSE wins
    /\ call' = [call EXCEPT ![c] = state']
    /\ UNCHANGED <<failures, openFor, passes, up>>

(* _maybe_transition_to_half_open, and the call goes ahead. *)
Admit(c) ==
    /\ call[c] = "none"
    /\ state # "open" \/ TimedOut
    /\ state' = IF TimedOut THEN "half_open" ELSE state
    /\ passes' = IF TimedOut THEN 0 ELSE passes
    /\ wins' = IF TimedOut THEN 0 ELSE wins
    /\ call' = [call EXCEPT ![c] = state']
    /\ UNCHANGED <<failures, openFor, up>>

----------------------------------------------------------------------------
(* After the call *)

Open ==
    /\ state' = "open"
    /\ openFor' = 0

Close ==
    /\ state' = "closed"
    /\ failures' = {}
    /\ openFor' = 0
    /\ passes' = 0

(* A bug: old failures stay in the list. *)
AllFailures == failures

Recent == {f \in failures : f.age < Window}

Trips(list) == state = "half_open" \/ Cardinality(list) >= FailureThreshold

(* The call raises: _record_failure, in whatever state the breaker is now. *)
Fail(c) ==
    /\ call[c] # "none"
    /\ ~up
    /\ LET free == Slots \ {f.slot : f \in Recent} IN
           /\ free # {}
           /\ failures' = Recent \union {[slot |-> CHOOSE n \in free : TRUE, age |-> 0]}
    /\ IF Trips(failures') THEN Open ELSE UNCHANGED <<state, openFor>>
    /\ call' = [call EXCEPT ![c] = "none"]
    /\ UNCHANGED <<passes, up, wins>>

(* _record_success *)
RecordSuccess ==
    \/ /\ state = "half_open"
       /\ IF passes + 1 >= PassesRequired
          THEN Close
          ELSE passes' = passes + 1 /\ UNCHANGED <<state, failures, openFor>>
    \/ /\ state = "closed"
       /\ failures' = {}
       /\ UNCHANGED <<state, openFor, passes>>
    \/ /\ state = "open"
       /\ UNCHANGED <<state, failures, openFor, passes>>

(* The call returns. *)
Succeed(c) ==
    /\ call[c] # "none"
    /\ RecordSuccess
    /\ call' = [call EXCEPT ![c] = "none"]
    /\ wins' = IF state = "half_open" THEN wins + 1 ELSE wins
    /\ UNCHANGED up

(* The coroutine is cancelled: CancelledError is no Exception, so nothing  *)
(* is recorded.                                                            *)
Cancel(c) ==
    /\ call[c] # "none"
    /\ call' = [call EXCEPT ![c] = "none"]
    /\ UNCHANGED <<state, failures, openFor, passes, up, wins>>

----------------------------------------------------------------------------
(* The environment *)

Tick ==
    /\ \/ state = "open" /\ openFor < OpenTimeout
       \/ \E f \in failures : f.age < Window
    /\ openFor' = IF state = "open" /\ openFor < OpenTimeout THEN openFor + 1 ELSE openFor
    /\ failures' = {[f EXCEPT !.age = IF @ < Window THEN @ + 1 ELSE Window] : f \in failures}
    /\ UNCHANGED <<state, passes, call, up, wins>>

(* The service recovers. *)
Recover == ~up /\ up' = TRUE /\ UNCHANGED <<state, failures, openFor, passes, call, wins>>

Next ==
    \/ \E c \in Callers : Admit(c) \/ Fail(c) \/ Succeed(c) \/ Cancel(c)
    \/ Tick \/ Recover

Spec == Init /\ [][Next]_vars

(* The process keeps calling the service, calls end and are not cancelled  *)
(* every time, time passes, and the service recovers.                      *)
Fairness ==
    /\ WF_vars(\E c \in Callers : Admit(c))
    /\ \A c \in Callers : WF_vars(Succeed(c) \/ Fail(c)) /\ SF_vars(Succeed(c))
    /\ WF_vars(Tick) /\ WF_vars(Recover)

FairSpec == Spec /\ Fairness

----------------------------------------------------------------------------
(* Properties *)

(* A closed breaker trips only on a threshold of failures of the rolling   *)
(* window, however far apart the failures and the calls they end are.      *)
TripIsRecent ==
    [][state = "closed" /\ state' = "open" =>
         Cardinality({f \in failures' : f.age < Window}) >= FailureThreshold]_vars

(* A breaker closes only after the required number of calls returned since *)
(* it last became half-open: what it counted before it opened again does   *)
(* not help.                                                               *)
CloseIsEarned == [][state = "half_open" /\ state' = "closed" => wins' >= PassesRequired]_vars

(* Once the service is up and the process keeps calling it, the breaker    *)
(* closes for good: late failures, cancelled probes and successes recorded *)
(* while it is open cannot keep it open or half-open for ever.             *)
Recovers == <>[](state = "closed")
=============================================================================
