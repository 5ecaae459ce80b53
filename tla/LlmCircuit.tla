----------------------------- MODULE LlmCircuit -----------------------------
(***************************************************************************)
(* The retries and the circuit breaker around the model calls of one        *)
(* middleware instance, shared by the calls of every thread of the agent.   *)
(***************************************************************************)
EXTENDS Naturals

CONSTANTS Models,      \* callers of wrap_model_call
          Threshold,   \* circuit_failure_threshold
          MaxTries  \* retry_max_attempts

ASSUME CircuitAssumption == Threshold \in Nat \ {0} /\ MaxTries \in Nat \ {0}

VARIABLES
    circuit,   \* _circuit_state
    failures,  \* _circuit_failure_count, capped at the threshold
    probing,   \* _circuit_probe_in_flight
    cooled,    \* time.time() >= _circuit_open_until
    tries    \* each caller's attempt, 0 outside wrap_model_call

circuitVars == <<circuit, failures, probing, cooled, tries>>

CircuitTypeOK ==
    /\ circuit \in {"closed", "open", "half_open"}
    /\ failures \in 0 .. Threshold
    /\ probing \in BOOLEAN
    /\ cooled \in BOOLEAN
    /\ tries \in [Models -> 0 .. MaxTries]

CircuitInit ==
    /\ circuit = "closed"
    /\ failures = 0
    /\ probing = FALSE
    /\ cooled = TRUE
    /\ tries = [m \in Models |-> 0]

(* _check_circuit: what it lets through becomes the probe of a half-open circuit. *)
HalfOpens == circuit = "open" /\ cooled
FastFails == \/ circuit = "open" /\ ~cooled
             \/ circuit = "half_open" /\ probing

CheckCircuit(m) ==
    /\ tries[m] = 0
    /\ ~FastFails
    /\ circuit' = IF HalfOpens THEN "half_open" ELSE circuit
    /\ probing' = (circuit' = "half_open")
    /\ tries' = [tries EXCEPT ![m] = 1]
    /\ UNCHANGED <<failures, cooled>>

Leaves(m) == tries[m] > 0 /\ tries' = [tries EXCEPT ![m] = 0]

(* _record_success *)
Succeeds(m) ==
    /\ Leaves(m)
    /\ circuit' = "closed" /\ failures' = 0 /\ probing' = FALSE /\ cooled' = TRUE

(* A retriable error before the last attempt: sleep and try again. *)
Retries(m) ==
    /\ tries[m] \in 1 .. MaxTries - 1
    /\ tries' = [tries EXCEPT ![m] = @ + 1]
    /\ UNCHANGED <<circuit, failures, probing, cooled>>

(* _record_failure, after the last attempt of a retriable error; an exception with *)
(* a budget of its own may have fewer.                                             *)
Fails(m) ==
    /\ Leaves(m)
    /\ failures' = IF circuit = "half_open" \/ failures = Threshold THEN failures ELSE failures + 1
    /\ LET trips == circuit = "half_open" \/ failures' = Threshold IN
       /\ circuit' = IF trips THEN "open" ELSE circuit
       /\ cooled' = IF trips THEN FALSE ELSE cooled
       /\ probing' = IF trips /\ circuit # "open" THEN FALSE ELSE probing

(* An interrupt, pause or resume bubbles up. *)
BubblesUp(m) ==
    /\ Leaves(m)
    /\ probing' = IF circuit = "half_open" THEN FALSE ELSE probing
    /\ UNCHANGED <<circuit, failures, cooled>>

(* An error that is not retriable is answered; a cancelled call leaves. *)
GivesUp(m) ==
    /\ Leaves(m)
    /\ UNCHANGED <<circuit, failures, probing, cooled>>

(* recovery_timeout_sec passes. *)
CoolsDown ==
    /\ ~cooled /\ cooled' = TRUE
    /\ UNCHANGED <<circuit, failures, probing, tries>>

CircuitNext ==
    \/ \E m \in Models :
          \/ CheckCircuit(m) \/ Succeeds(m) \/ Retries(m) \/ Fails(m)
          \/ BubblesUp(m) \/ GivesUp(m)
    \/ CoolsDown

(* Agents go on calling, a call ends, time passes. *)
CircuitFairness ==
    /\ WF_circuitVars(CoolsDown)
    /\ \A m \in Models :
          /\ WF_circuitVars(CheckCircuit(m))
          /\ WF_circuitVars(Succeeds(m) \/ Fails(m) \/ BubblesUp(m) \/ GivesUp(m))

CircuitSpec == CircuitInit /\ [][CircuitNext]_circuitVars /\ CircuitFairness

(***************************************************************************)
(* Properties.                                                             *)
(***************************************************************************)
(* "Time in seconds before attempting to recover the circuit": a circuit that     *)
(* refuses calls lets one through again.                                          *)
CircuitRecovers == FastFails ~> ~FastFails
=============================================================================
