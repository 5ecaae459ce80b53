------------------------------ MODULE MCStores ------------------------------
(***************************************************************************)
(* Components whose promise is about what they keep: the payment ledger,   *)
(* the pool of MCP sessions, the memory file and its facts, the sandbox    *)
(* containers and machines, the decision a case holds, the schema of the   *)
(* database, a file under the write gate, the blocked tools, a thread's    *)
(* messages.  As in MCRuns a behaviour is of one of them, named by focus;  *)
(* they share no variable.                                                 *)
(***************************************************************************)
EXTENDS RefundLedger, McpSessions, MemoryFile, MemoryFacts, AioSandboxes, CaseRules,
        SchemaBootstrap, ReadGate, ToolProgress, AgentTurns, E2bSandboxes

CONSTANTS o1, o2, p1, p2, p3, t1, t2, q1

MCOrders == {o1, o2}
MCBalance == o1 :> 4 @@ o2 :> 2
MCKeys == {p1, p2, p3}
MCSymmetry == Permutations(Acquisitions)

\* Orders at the edges of the rules: one a regular operator may refund; one a
\* signal short of a review; one a signal short of a supervisor, of high value; one
\* for two signatures, delivered, its balance short of its price; one with nothing
\* left to refund.
Plain == [item |-> 1, shipping |-> 1, balance |-> 2, pod |-> FALSE, claims |-> 0, cases |-> 2,
          hastyOrLate |-> FALSE, young |-> FALSE, rate |-> "low", moved |-> FALSE, shared |-> FALSE,
          recovery |-> 10, back |-> 7, replacement |-> 5, stock |-> 1, replaceable |-> TRUE]
MCDossiers ==
    [plain  |-> Plain,
     review |-> [Plain EXCEPT !.cases = 3, !.hastyOrLate = TRUE, !.rate = "elevated", !.stock = 0],
     high   |-> [Plain EXCEPT !.item = 4, !.balance = 5, !.claims = 2, !.rate = "elevated",
                              !.moved = TRUE, !.back = 11],
     large  |-> [Plain EXCEPT !.item = 9, !.balance = 8, !.claims = 3, !.pod = TRUE,
                              !.replaceable = FALSE],
     spent  |-> [Plain EXCEPT !.balance = 0, !.claims = 1]]
\* What the model may answer: nothing, a todo list, two at once, a question
\* beside a malformed call, more subagents than are allowed.
MCReplies == {<<>>, <<"todos">>, <<"todos", "todos">>, <<"ask", "broken">>,
              <<"task", "task", "task">>}
MCRoleLimit == [user |-> 2, admin |-> 10]

VARIABLE focus

dataVars == <<ledgerVars, mcpVars, fileVars, factVars, aioVars, rulesVars, bootVars>>
agentVars == <<gateVars, progressVars, turnVars, e2bVars>>
storesVars == <<focus, dataVars, agentVars>>

\* bound: a single fact, found or in the answer, mentions an upload
Uploads(fs) == Cardinality({i \in DOMAIN fs : fs[i].upload})
OneUpload == Uploads(facts) + Uploads(update.new) + Uploads(update.merge) <= 1

StoresInit ==
    /\ focus \in {"ledger", "sessions", "file", "facts", "contention", "eviction",
                 "rules", "schema", "gate", "progress", "turns", "compaction",
                 "machines", "outages"}
    /\ LedgerInit /\ McpInit /\ FileInit /\ AioInit /\ RulesInit
    \* a memory at rest is one to which some answer has been applied
    /\ IF focus = "facts" THEN FactsInit /\ OneUpload
                          ELSE /\ facts = <<>> /\ applied = TRUE
                               /\ update = CHOOSE u \in Answer : TRUE
    /\ BootInit
    /\ focus # "schema" => backend = "sqlite" /\ db = Unversioned({})
    /\ GateInit /\ ProgressInit /\ TurnsInit /\ E2bInit
    /\ focus # "gate" => disk = Missing

\* The sandboxes in two instances: acquisitions of one sandbox that run side by
\* side, with a fault, and two sandboxes acquired one after the other.
Sandboxes ==
    /\ focus \in {"contention", "eviction"} /\ AioNext
    /\ \/ focus = "contention" /\ container'[t2] = 0 /\ \A a \in Acquisitions : acq'[a].of # t2
       \/ /\ focus = "eviction" /\ faults' = 0
          /\ Cardinality({a \in Acquisitions : acq'[a] # NoAcq}) <= 1

\* The agent's loop in two instances: three answers, and two around a compaction.
Turns ==
    /\ focus \in {"turns", "compaction"} /\ TurnsNext
    /\ \/ focus = "turns" /\ counts'.compacts = 0
       \/ focus = "compaction" /\ counts'.replies <= 2

\* The machines in two instances: two threads while nothing fails, and one thread
\* with failures and ends of the process.
Machines ==
    /\ focus \in {"machines", "outages"} /\ E2bNext
    /\ \/ focus = "machines" /\ blips' = 0
       \/ focus = "outages" /\ \A c \in Takers : taker'[c].of \in {q1, NoThread}

AgentsNext ==
    \/ focus = "gate" /\ GateNext /\ UNCHANGED <<progressVars, turnVars, e2bVars>>
    \/ focus = "progress" /\ ProgressNext /\ UNCHANGED <<gateVars, turnVars, e2bVars>>
    \/ Turns /\ UNCHANGED <<gateVars, progressVars, e2bVars>>
    \/ Machines /\ UNCHANGED <<gateVars, progressVars, turnVars>>

StoresNext ==
    \/ AgentsNext /\ UNCHANGED <<focus, dataVars>>
    \/ /\ focus = "ledger" /\ LedgerNext
       /\ UNCHANGED <<agentVars, focus, mcpVars, fileVars, factVars, aioVars, rulesVars, bootVars>>
    \/ /\ focus = "sessions" /\ McpNext
       /\ UNCHANGED <<agentVars, focus, ledgerVars, fileVars, factVars, aioVars, rulesVars, bootVars>>
    \/ /\ focus = "file" /\ FileNext
       /\ UNCHANGED <<agentVars, focus, ledgerVars, mcpVars, factVars, aioVars, rulesVars, bootVars>>
    \/ /\ focus = "facts" /\ FactsNext
       /\ UNCHANGED <<agentVars, focus, ledgerVars, mcpVars, fileVars, aioVars, rulesVars, bootVars>>
    \/ /\ Sandboxes
       /\ UNCHANGED <<agentVars, focus, ledgerVars, mcpVars, fileVars, factVars, rulesVars, bootVars>>
    \/ /\ focus = "rules" /\ RulesNext
       /\ UNCHANGED <<agentVars, focus, ledgerVars, mcpVars, fileVars, factVars, aioVars, bootVars>>
    \/ /\ focus = "schema" /\ BootNext
       /\ UNCHANGED <<agentVars, focus, ledgerVars, mcpVars, fileVars, factVars, aioVars, rulesVars>>

StoresSpec == StoresInit /\ [][StoresNext]_storesVars

-----------------------------------------------------------------------------

\* What refund() captured on an order is exactly what its receipts say: a retry
\* of a captured key, after any releases and fresh reservations, moves nothing.
CapturedIsReceipted ==
    \A o \in Orders :
        captured[o] = SumBy([t \in Receipts |-> t.amount], {t \in transactions : t.order = o})

\* What the component in focus keeps at every moment: its type; the ledger one receipt
\* per key; the pool no session that was closed while it was being created; the memory
\* cache only what was on disk; the gate marks and replacements that are of the content
\* they were made from; the progress guard blocks that are final and have a cause; the
\* agent's loop cut-off calls that never run and a budget that holds; the E2B provider
\* one machine per thread, and the thread's own.
StoresInvariant ==
    CASE focus = "ledger" -> LedgerTypeOK /\ OneReceiptPerKey /\ CapturedIsReceipted
      [] focus = "sessions" -> McpTypeOK /\ EntryIsLive
      [] focus = "file" -> FileTypeOK /\ CacheWasOnDisk
      [] focus = "facts" -> FactsTypeOK
      [] focus \in {"contention", "eviction"} -> AioTypeOK
      [] focus = "rules" -> RulesTypeOK
      [] focus = "schema" -> BootTypeOK
      [] focus = "gate" -> GateTypeOK /\ ReplacesWhatItRead /\ MarkIsShown
      [] focus = "progress" -> ProgressTypeOK /\ BlockIsFinal /\ BlockHasCause /\ NoPhantomHints
      [] focus \in {"turns", "compaction"} -> TurnsTypeOK /\ CutOffNeverRuns /\ BudgetHolds
      [] focus \in {"machines", "outages"} -> E2bTypeOK /\ OwnVmOnly /\ OneVmPerThread

=============================================================================
