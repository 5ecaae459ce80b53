------------------------------- MODULE MCCalls ------------------------------
(***************************************************************************)
(* Components whose promise is that a call comes to an end, whatever the   *)
(* others do: appends to a case's chain, requests under one key, model     *)
(* calls behind the circuit breaker, agent loops, subagent tasks and       *)
(* memory updates.  As in MCRuns a behaviour is of one of them, named by   *)
(* focus; they share no variable.                                          *)
(***************************************************************************)
EXTENDS CaseEventChain, IdempotencyKeys, LlmCircuit, LoopGuard, Subagents, MemoryQueue, TLC

CONSTANTS q1, q2, q3, key

MCRequests == {q1, q2, q3}
MCKeyOf == [r \in MCRequests |-> key]
MCBodyOf == q1 :> "a" @@ q2 :> "a" @@ q3 :> "b"

VARIABLE focus

callsVars == <<focus, chainVars, idemVars, circuitVars, loopVars, subVars, memVars>>

CallsInit ==
    /\ focus \in {"chain", "keys", "circuit", "loops", "tasks", "memory"}
    /\ Init /\ IdemInit /\ CircuitInit /\ LoopInit /\ SubInit /\ MemInit

CallsNext ==
    \/ /\ focus = "chain" /\ Next
       /\ UNCHANGED <<focus, idemVars, circuitVars, loopVars, subVars, memVars>>
    \/ /\ focus = "keys" /\ IdemNext
       /\ UNCHANGED <<focus, chainVars, circuitVars, loopVars, subVars, memVars>>
    \/ /\ focus = "circuit" /\ CircuitNext
       /\ UNCHANGED <<focus, chainVars, idemVars, loopVars, subVars, memVars>>
    \/ /\ focus = "loops" /\ LoopNext
       /\ UNCHANGED <<focus, chainVars, idemVars, circuitVars, subVars, memVars>>
    \/ /\ focus = "tasks" /\ SubNext
       /\ UNCHANGED <<focus, chainVars, idemVars, circuitVars, loopVars, memVars>>
    \/ /\ focus = "memory" /\ MemNext
       /\ UNCHANGED <<focus, chainVars, idemVars, circuitVars, loopVars, subVars>>

\* The fairness of each component, asked of it when it is the one in focus.
CallsFairness ==
    /\ \A w \in Calls : WF_chainVars(focus = "chain" /\ Proceeds(w))
    /\ \A r \in Requests : WF_idemVars(focus = "keys" /\ Step(r))
    /\ \A c \in Chats : WF_loopVars(focus = "loops" /\ Goes(c))
    /\ \A t \in Tasks :
          /\ WF_subVars(focus = "tasks" /\ StartTask(t))
          /\ WF_subVars(focus = "tasks" /\ PublishStatus(t))
          /\ WF_subVars(focus = "tasks" /\ RunnerGoes(t))
          /\ WF_subVars(focus = "tasks" /\ Polls(t))
          /\ WF_subVars(focus = "tasks" /\ DrainEnds(t))
          /\ WF_subVars(focus = "tasks" /\ DeferredCleanup(t))
    /\ WF_memVars(focus = "memory" /\ Fire)
    /\ WF_memVars(focus = "memory" /\ Process)
    /\ WF_memVars(focus = "memory" /\ UpdateOne)
    /\ WF_memVars(focus = "memory" /\ EndBatch)

CallsSpec == CallsInit /\ [][CallsNext]_callsVars /\ CallsFairness

\* What the components keep at every moment: their types, that a keyed request is
\* answered with the response to its own body, and that timers, loose ones too, never
\* run two memory updaters at once.
CallsInvariant ==
    /\ ChainTypeOK /\ IdemTypeOK /\ CircuitTypeOK
    /\ LoopTypeOK /\ SubTypeOK /\ MemTypeOK
    /\ AnswersOwnBody /\ OneUpdater

=============================================================================
