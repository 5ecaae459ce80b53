------------------------------ MODULE ReadGate ------------------------------
(***************************************************************************)
(* ReadBeforeWriteMiddleware and the file tools it guards, on one path of   *)
(* one thread.  The lead agent and its subagents are conversations that     *)
(* share the thread's gate lock; the tool calls of one message run side by  *)
(* side.  A mark is the content a read_file result was stamped with; equal  *)
(* contents have equal hashes, so contents stand for their hashes.  Bash    *)
(* writes without the gate.  A run may be cancelled at any await.           *)
(***************************************************************************)
EXTENDS Naturals, FiniteSets

CONSTANTS Agents,    \* conversations on the thread
          MaxOps,    \* bound: file tool calls
          Contents,  \* what the file may hold
          Missing,   \* no file, no mark, no result
          Failed     \* a read that failed, a content the gate could not inspect

ASSUME GateAssumption ==
    MaxOps \in Nat /\ Missing # Failed /\ Contents \cap {Missing, Failed} = {}

VARIABLES
    disk,   \* the file
    gate,   \* _GATE_LOCKS[scope, path]: its holder, 0 free, Lost
    flock,  \* _FILE_OPERATION_LOCKS[sandbox, path]: its holder, 0 free
    mark,   \* _latest_mark_hash of each conversation's messages
    fop,    \* the tool calls, in the order of their messages
    broken  \* the promises a finished call broke (history)

gateVars == <<disk, gate, flock, mark, fop, broken>>

Ops == 1 .. MaxOps
Lost == MaxOps + 1
Disk == Contents \cup {Missing}
Kinds == {"read", "write", "replace", "bash"}
\* basis: what the gate saw, or what read_file showed.  found: what str_replace read.
\* stamp: the mark on the result.  stray: who wrote outside the gate while the call
\* was inside it.
NoOp == [at |-> "none", of |-> Missing, kind |-> "read", live |-> FALSE, basis |-> Failed,
         found |-> Missing, stamp |-> Missing, stray |-> {}]
Spent == [NoOp EXCEPT !.at = "done"]

GateTypeOK ==
    /\ disk \in Disk /\ gate \in 0 .. Lost /\ flock \in 0 .. MaxOps
    /\ mark \in [Agents -> Disk]
    /\ fop \in [Ops -> [at : {"none", "waiting", "orphan", "checking", "reading", "stamping",
                             "running", "replacing", "done"},
                       of : Agents \cup {Missing}, kind : Kinds, live : BOOLEAN,
                       basis : Disk \cup {Failed}, found : Disk, stamp : Disk,
                       stray : SUBSET {"bash", "detached"}]]
    /\ broken \subseteq {"overwrite", "replace", "mark"}

GateInit ==
    /\ disk \in Disk
    /\ gate = 0 /\ flock = 0
    /\ mark = [a \in Agents |-> Missing]
    /\ fop = [c \in Ops |-> NoOp]
    /\ broken = {}

Turn(a) == {c \in Ops : fop[c].of = a /\ fop[c].live}
OpAt(c, where) == fop[c].at = where
\* The threads that keep the lock object alive.
Holding(calls, others) == \E c \in Ops \ others : calls[c].at \in {"waiting", "orphan"}
\* The call returns; finally: lock.release().
Result(c, stamp) ==
    IF fop[c].live THEN [NoOp EXCEPT !.at = "done", !.of = fop[c].of, !.live = TRUE, !.stamp = stamp]
    ELSE Spent
Return(c) == fop' = [fop EXCEPT ![c] = Result(c, Missing)]
Unlock(c) == gate' = IF gate = c THEN 0 ELSE gate

-----------------------------------------------------------------------------
\* The model answers with tool calls; those on the file ask for the gate's lock.
StartTurn(a) ==
    /\ Turn(a) = {}
    /\ \E n \in Ops :
          LET fresh == {c \in Ops : OpAt(c, "none")}
              calls == {c \in fresh : Cardinality({d \in fresh : d <= c}) <= n}
          IN  /\ Cardinality(calls) = n
              /\ \E k \in [calls -> Kinds] :
                    fop' = [c \in Ops |->
                              IF c \in calls
                              THEN [NoOp EXCEPT !.of = a, !.kind = k[c], !.live = TRUE,
                                        !.at = IF k[c] = "bash" THEN "running" ELSE "waiting"]
                              ELSE fop[c]]
    /\ UNCHANGED <<disk, gate, flock, mark, broken>>

\* Mutant of EntersGate: the lock of the path is not taken.
NoGateLock(c) ==
    /\ OpAt(c, "waiting")
    /\ gate' = gate
    /\ fop' = [fop EXCEPT ![c].at = IF fop[c].kind = "read" THEN "reading" ELSE "checking"]
    /\ UNCHANGED <<disk, flock, mark, broken>>

EntersGate(c) ==
    /\ OpAt(c, "waiting") /\ gate = 0
    /\ gate' = c
    /\ fop' = [fop EXCEPT ![c].at = IF fop[c].kind = "read" THEN "reading" ELSE "checking"]
    /\ UNCHANGED <<disk, flock, mark, broken>>

\* The worker thread of a call cancelled while it waited gets the lock, and nobody
\* is left to release it.  The lock goes when the last thread that waits for it does.
OrphanLocks(c) ==
    /\ OpAt(c, "orphan") /\ gate = 0
    /\ fop' = [fop EXCEPT ![c].at = "done"]
    /\ gate' = IF Holding(fop, {c}) THEN Lost ELSE 0
    /\ UNCHANGED <<disk, flock, mark, broken>>

\* _check_write_gate: a file it cannot inspect, a missing one, or the one the
\* conversation read last may be written.
Allows(a, seen) == seen \in {Missing, Failed} \/ mark[a] = seen
Check(c) ==
    /\ OpAt(c, "checking")
    /\ \E seen \in {disk, Failed} :
          IF Allows(fop[c].of, seen)
          THEN /\ fop' = [fop EXCEPT ![c].at = "running", ![c].basis = seen]
               /\ UNCHANGED gate
          ELSE Return(c) /\ Unlock(c)
    /\ UNCHANGED <<disk, flock, mark, broken>>

\* read_file; a failure is an "Error:" result, of status success.
ShowsFile(c) ==
    /\ OpAt(c, "reading")
    /\ \E shown \in {IF disk = Missing THEN Failed ELSE disk, Failed} :
          fop' = [fop EXCEPT ![c].at = "stamping", ![c].basis = shown]
    /\ UNCHANGED <<disk, gate, flock, mark, broken>>

\* _attach_read_mark reads the file again.
AttachReadMark(c) ==
    /\ OpAt(c, "stamping")
    /\ \E seen \in {disk, Missing} :
          /\ fop' = [fop EXCEPT ![c] = Result(c, seen)]
          /\ broken' = IF seen # Missing /\ fop[c].basis \notin {seen, Failed} /\ fop[c].stray = {}
                       THEN broken \cup {"mark"} ELSE broken
    /\ Unlock(c)
    /\ UNCHANGED <<disk, flock, mark>>

-----------------------------------------------------------------------------
\* What a write outside the gate does to the calls inside it.
Inside(c) == fop[c].at \in {"stamping", "running", "replacing"} /\ fop[c].kind # "bash"
Strayed(calls, c, who) ==
    [d \in Ops |-> IF d # c /\ Inside(d) THEN [calls[d] EXCEPT !.stray = @ \cup {who}]
                                        ELSE calls[d]]
\* The mutation of call c lands; one whose run was cancelled is outside the gate.
Lands(c) ==
    /\ disk' \in Contents
    /\ LET after == [fop EXCEPT ![c] = Result(c, Missing)]
       IN  fop' = IF fop[c].live THEN after ELSE Strayed(after, c, "detached")
    /\ broken' = broken
          \cup (IF fop[c].live /\ fop[c].stray = {} /\ fop[c].basis \notin {disk, Failed}
                THEN {"overwrite"} ELSE {})
          \cup (IF fop[c].kind = "replace" /\ "bash" \notin fop[c].stray /\ fop[c].found # disk
                THEN {"replace"} ELSE {})
    /\ Unlock(c)

\* write_file, in one write under the file's lock, or an error that changes nothing.
WriteFile(c) ==
    /\ OpAt(c, "running") /\ fop[c].kind = "write"
    /\ \/ flock = 0 /\ Lands(c)
       \/ Return(c) /\ Unlock(c) /\ UNCHANGED <<disk, broken>>
    /\ UNCHANGED <<flock, mark>>

\* str_replace reads the file under its lock; nothing to replace, or an error, ends it.
ReplaceRead(c) ==
    /\ OpAt(c, "running") /\ fop[c].kind = "replace" /\ flock = 0
    /\ \/ /\ disk # Missing
          /\ flock' = c
          /\ fop' = [fop EXCEPT ![c].at = "replacing", ![c].found = disk]
          /\ UNCHANGED gate
       \/ Return(c) /\ Unlock(c) /\ UNCHANGED flock
    /\ UNCHANGED <<disk, mark, broken>>

ReplaceWrite(c) ==
    /\ OpAt(c, "replacing")
    /\ \/ Lands(c)
       \/ Return(c) /\ Unlock(c) /\ UNCHANGED <<disk, broken>>
    /\ flock' = 0
    /\ UNCHANGED mark

\* A command of bash writes or removes the file, with neither lock.
Bash(c) ==
    /\ OpAt(c, "running") /\ fop[c].kind = "bash"
    /\ disk' \in Disk
    /\ fop' = Strayed([fop EXCEPT ![c] = Result(c, Missing)], c, "bash")
    /\ UNCHANGED <<gate, flock, mark, broken>>

-----------------------------------------------------------------------------
\* The turn's results reach the messages; the last mark is the latest.
EndTurn(a) ==
    /\ Turn(a) # {} /\ \A c \in Turn(a) : OpAt(c, "done")
    /\ LET marks == {c \in Turn(a) : fop[c].stamp # Missing}
       IN  mark' = [mark EXCEPT ![a] =
                       IF marks = {} THEN @
                       ELSE fop[CHOOSE c \in marks : \A d \in marks : d <= c].stamp]
    /\ fop' = [c \in Ops |-> IF c \in Turn(a) THEN Spent ELSE fop[c]]
    /\ UNCHANGED <<disk, gate, flock, broken>>

\* The run is cancelled: a call that waits leaves its thread waiting, if it has one;
\* a tool whose thread has started runs on; the others end, and give up the lock.
CancelTurn(a) ==
    /\ Turn(a) # {}
    /\ \E orphans \in SUBSET {c \in Turn(a) : OpAt(c, "waiting")},
          detached \in SUBSET {c \in Turn(a) : OpAt(c, "running")} :
          LET calls == [c \in Ops |->
                 IF c \notin Turn(a) THEN fop[c]
                 ELSE IF c \in orphans THEN [NoOp EXCEPT !.at = "orphan"]
                 ELSE IF c \in detached \/ OpAt(c, "replacing") THEN [fop[c] EXCEPT !.live = FALSE]
                 ELSE Spent]
          IN  /\ fop' = calls
              /\ gate' = IF gate \in Turn(a) \/ (gate = Lost /\ ~Holding(calls, {}))
                         THEN 0 ELSE gate
    /\ UNCHANGED <<disk, flock, mark, broken>>

\* Summarization drops the read result, and its mark with it.
Summarize(a) ==
    /\ Turn(a) = {} /\ mark[a] # Missing
    /\ mark' = [mark EXCEPT ![a] = Missing]
    /\ UNCHANGED <<disk, gate, flock, fop, broken>>

GateNext ==
    \/ \E a \in Agents : StartTurn(a) \/ EndTurn(a) \/ CancelTurn(a) \/ Summarize(a)
    \/ \E c \in Ops : \/ EntersGate(c) \/ OrphanLocks(c) \/ Check(c) \/ ShowsFile(c)
                      \/ AttachReadMark(c) \/ WriteFile(c) \/ ReplaceRead(c) \/ ReplaceWrite(c)
                      \/ Bash(c)

GateSpec == GateInit /\ [][GateNext]_gateVars

-----------------------------------------------------------------------------
\* A write that went through the gate overwrote exactly the content its conversation
\* had read last, or created the file, unless the gate could not inspect the file or
\* someone wrote outside the gate: two calls of one turn, or of a lead and its
\* subagent, never both change the file on one reading of it.
OverwritesWhatWasRead == "overwrite" \notin broken

\* str_replace writes back the content it read, changed in one place: only bash can
\* come between its read and its write, not even the leftover of a cancelled run.
ReplacesWhatItRead == "replace" \notin broken

\* The mark on a read_file result that shows the file is of the content it shows.
MarkIsShown == "mark" \notin broken

=============================================================================
