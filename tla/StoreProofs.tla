----------------------------- MODULE StoreProofs ----------------------------
(***************************************************************************)
(* Proofs about the stores several calls share, for any number of threads, *)
(* conversations, tool calls and contents.                                 *)
(*                                                                         *)
(* MemoryFile.  The cache never holds what was not on disk, because what a *)
(* thread has between its read or write of the file and its write of the   *)
(* cache has been on disk (InHand).  A hit is fresh because no time in     *)
(* hand is newer than the file's (TimesPast), and facts in hand with the   *)
(* file's time, or waiting for it, are the file's unless another save      *)
(* crossed (Paired).                                                       *)
(*                                                                         *)
(* MemoryFacts.  An update explains every fact it takes away because each  *)
(* of its passes does (Stages): the removals by the answer, the stale ones *)
(* by their age, the limit by as many facts as confident (TrimmedKeeps),   *)
(* the consolidation by the fact a source lives on in (ConsolidatedKeeps). *)
(*                                                                         *)
(* McpSessions.  No owner task leaks and no ended session is handed out,   *)
(* because what is evicted is out of the pool until its owner is told      *)
(* (PendingIsGone), what is being created is awaited by its creator and    *)
(* not told to stop (InflightIsAwaited), and an owner belongs to the call  *)
(* that created it (OwnersAreCreators).                                    *)
(*                                                                         *)
(* ReadGate.  A call that went through the gate writes over what the gate  *)
(* saw because a call of a live run is inside only while it holds the gate *)
(* (HoldsGate), so that what it saw stays on disk until somebody writes    *)
(* outside the gate (SeesDisk); str_replace writes over what it read       *)
(* because it keeps the file's lock meanwhile (HoldsFile, FoundOnDisk).    *)
(*                                                                         *)
(* ToolProgress.  A call that finishes late does not unblock a tool, and a *)
(* block has its cause in what came back in that run of the thread, as a   *)
(* thread the table has forgotten has no blocked tool and no hints         *)
(* (Unblocked, NoHintsLeft).                                               *)
(*                                                                         *)
(* AgentTurns.  Every request is accepted because in every thread, kept or *)
(* compacted, an id is of one call and only results lie between a result   *)
(* and its answer (Transcript); then each message becomes a piece that is  *)
(* well formed by itself, and joining keeps that (PatchedIsWellFormed).    *)
(* No call of a cut answer runs, and none past the budget, because behind  *)
(* the safety filter and the budget the last answer has no such call left  *)
(* (LastAnswerKnown), and an answer since the stop is paid for by a        *)
(* reminder (Budget).                                                      *)
(***************************************************************************)
EXTENDS MemoryFile, MemoryFacts, McpSessions, ReadGate, ToolProgress, AgentTurns, FilterProofs,
        FiniteSetTheorems, SequenceTheorems

InHand ==
    /\ file.facts \in held
    /\ \A w \in Writers : op[w].at \in {"cache", "have", "saved", "stamp"} => op[w].facts \in held

FileInv == FileTypeOK /\ InHand /\ CacheWasOnDisk

FileOp == [at : {"idle", "look", "read", "cache", "have", "saved", "stamp"},
           mtime : 0 .. MaxSaves, facts : SUBSET Facts]

LEMMA FileInitInv == FileInit => FileInv
  BY MemoryFileBounds
     DEF FileInit, FileInv, FileTypeOK, InHand, CacheWasOnDisk, NoCache, Idle, MemoryFileBounds

\* A thread whose new state is o, and which holds nothing that was not on disk,
\* keeps the invariant as long as file and cache stay.
LEMMA ThreadInv ==
  ASSUME FileInv, NEW w \in Writers, NEW o \in FileOp,
         op' = [op EXCEPT ![w] = o],
         o.at \in {"cache", "have", "saved", "stamp"} => o.facts \in held,
         UNCHANGED <<file, cached, held, crossed>>
  PROVE  FileInv'
  <1>1. FileTypeOK'
    BY DEF FileInv, FileTypeOK, FileOp
  <1>2. InHand'
    BY DEF FileInv, FileTypeOK, InHand
  <1>3. CacheWasOnDisk'
    BY DEF FileInv, CacheWasOnDisk
  <1> QED BY <1>1, <1>2, <1>3 DEF FileInv

\* What a thread read or wrote goes into the cache, with some time.
LEMMA CachingInv ==
  ASSUME FileInv, NEW w \in Writers, NEW o \in FileOp,
         op[w].at \in {"cache", "stamp"},
         cached' = [facts |-> op[w].facts, mtime |-> op[w].mtime],
         op' = [op EXCEPT ![w] = o],
         o.at = "have" => o.facts = op[w].facts,
         o.at \in {"idle", "have"},
         UNCHANGED <<file, held, crossed>>
  PROVE  FileInv'
  <1>1. op[w] \in FileOp /\ op[w].facts \in held /\ MaxSaves \in Nat
    BY MemoryFileBounds DEF FileInv, FileTypeOK, FileOp, InHand, MemoryFileBounds
  <1>2. cached' \in [facts : SUBSET Facts, mtime : 0 .. MaxSaves + 1] /\ cached'.facts = op[w].facts
    BY <1>1 DEF FileOp
  <1>3. FileTypeOK'
    BY <1>2 DEF FileInv, FileTypeOK, FileOp
  <1>4. InHand'
    BY <1>1 DEF FileInv, FileTypeOK, InHand
  <1>5. CacheWasOnDisk'
    BY <1>1, <1>2 DEF CacheWasOnDisk
  <1> QED BY <1>3, <1>4, <1>5 DEF FileInv

LEMMA ReplaceInv ==
  ASSUME FileInv, NEW w \in Writers, Replace(w)
  PROVE  FileInv'
  <1>1. PICK fs \in Edited(op[w].facts) :
           /\ file' = [facts |-> fs, mtime |-> file.mtime + 1]
           /\ op' = [op EXCEPT ![w] = [@ EXCEPT !.at = "saved", !.facts = fs]]
           /\ held' = held \cup {fs}
    BY DEF Replace
  <1>a. crossed' \subseteq 0 .. MaxSaves
    BY MemoryFileBounds DEF FileInv, FileTypeOK, MemoryFileBounds, Replace
  <1>2. op[w] \in FileOp /\ MaxSaves \in Nat /\ file.mtime \in 0 .. MaxSaves /\ file.mtime < MaxSaves
    BY MemoryFileBounds DEF FileInv, FileTypeOK, FileOp, MemoryFileBounds, Replace
  <1>3. fs \in SUBSET Facts
    BY <1>1, <1>2 DEF Edited, FileOp
  <1>4. PICK o : o = [op[w] EXCEPT !.at = "saved", !.facts = fs]
    OBVIOUS
  <1>5. o \in FileOp /\ o.facts = fs
    BY <1>2, <1>3, <1>4 DEF FileOp
  <1>6. op' = [op EXCEPT ![w] = o]
    BY <1>1, <1>4
  <1>7. FileTypeOK'
    <2>1. file' \in [facts : SUBSET Facts, mtime : 0 .. MaxSaves]
      BY <1>1, <1>2, <1>3
    <2> QED BY <1>a, <1>1, <1>3, <1>5, <1>6, <2>1 DEF FileInv, FileTypeOK, FileOp, Replace
  <1>8. InHand'
    BY <1>1, <1>5, <1>6 DEF FileInv, FileTypeOK, InHand
  <1>9. CacheWasOnDisk'
    BY <1>1 DEF FileInv, CacheWasOnDisk, Replace
  <1> QED BY <1>7, <1>8, <1>9 DEF FileInv

LEMMA FileNextInv == FileInv /\ [FileNext]_fileVars => FileInv'
  <1> SUFFICES ASSUME FileInv, [FileNext]_fileVars PROVE FileInv'
    OBVIOUS
  <1>0. MaxSaves \in Nat /\ file.mtime \in 0 .. MaxSaves /\ file.facts \in SUBSET Facts
        /\ file.facts \in held
    BY MemoryFileBounds DEF MemoryFileBounds, FileInv, FileTypeOK, InHand
  <1>1. ASSUME NEW w \in Writers,
               Load(w) \/ Reload(w) \/ ReadFile(w) \/ Stamp(w)
        PROVE  FileInv'
    <2>1. op[w] \in FileOp
      BY DEF FileInv, FileTypeOK, FileOp
    <2>2. PICK o : /\ op' = [op EXCEPT ![w] = o]
                   /\ \/ o = [at |-> "look", mtime |-> file.mtime, facts |-> {}]
                      \/ o = [op[w] EXCEPT !.at = "saved", !.facts = file.facts]
                      \/ o = [op[w] EXCEPT !.at = "cache", !.facts = file.facts]
                      \/ op[w].at = "saved" /\ o = [op[w] EXCEPT !.at = "stamp", !.mtime = file.mtime]
      <3>1. CASE Load(w)
        BY <3>1 DEF Load
      <3>2. CASE Reload(w)
        BY <3>2 DEF Reload
      <3>3. CASE ReadFile(w)
        BY <3>3 DEF ReadFile
      <3>4. CASE Stamp(w)
        BY <3>4 DEF Stamp
      <3> QED BY <1>1, <3>1, <3>2, <3>3, <3>4
    <2>3. o \in FileOp /\ (o.at \in {"cache", "have", "saved", "stamp"} => o.facts \in held)
      <3>1. CASE o = [at |-> "look", mtime |-> file.mtime, facts |-> {}]
        BY <1>0, <3>1 DEF FileOp
      <3>2. CASE o = [op[w] EXCEPT !.at = "saved", !.facts = file.facts]
        BY <1>0, <2>1, <3>2 DEF FileOp
      <3>3. CASE o = [op[w] EXCEPT !.at = "cache", !.facts = file.facts]
        BY <1>0, <2>1, <3>3 DEF FileOp
      <3>4. CASE op[w].at = "saved" /\ o = [op[w] EXCEPT !.at = "stamp", !.mtime = file.mtime]
        <4>1. op[w].facts \in held
          BY <3>4 DEF FileInv, InHand
        <4> QED BY <1>0, <2>1, <3>4, <4>1 DEF FileOp
      <3> QED BY <2>2, <3>1, <3>2, <3>3, <3>4
    <2> QED BY <1>1, <2>2, <2>3, ThreadInv DEF Load, Reload, ReadFile, Stamp
  <1>2. ASSUME NEW w \in Writers, LookUp(w) PROVE FileInv'
    <2>1. op[w] \in FileOp /\ cached.facts \in SUBSET Facts
      BY DEF FileInv, FileTypeOK, FileOp
    <2>2. PICK o : /\ op' = [op EXCEPT ![w] = o]
                   /\ o = IF cached.mtime = op[w].mtime
                          THEN [op[w] EXCEPT !.at = "have", !.facts = cached.facts]
                          ELSE [op[w] EXCEPT !.at = "read"]
      BY <1>2 DEF LookUp
    <2>3. o \in FileOp /\ (o.at \in {"cache", "have", "saved", "stamp"} => o.facts \in held)
      <3>1. CASE cached.mtime = op[w].mtime
        <4>1. cached.facts \in held
          BY <1>0, <2>1, <3>1 DEF FileInv, CacheWasOnDisk, FileOp
        <4> QED BY <2>1, <2>2, <3>1, <4>1 DEF FileOp
      <3>2. CASE cached.mtime # op[w].mtime
        BY <2>1, <2>2, <3>2 DEF FileOp
      <3> QED BY <3>1, <3>2
    <2> QED BY <1>2, <2>2, <2>3, ThreadInv DEF LookUp
  <1>3. ASSUME NEW w \in Writers, Returned(w) \/ SaveFails(w) PROVE FileInv'
    <2>1. Idle \in FileOp /\ Idle.at = "idle"
      BY <1>0 DEF Idle, FileOp
    <2> QED BY <1>3, <2>1, ThreadInv DEF Returned, SaveFails
  <1>4. ASSUME NEW w \in Writers, FillCache(w) \/ CacheSaved(w) PROVE FileInv'
    <2>1. op[w] \in FileOp /\ op[w].at \in {"cache", "stamp"}
      BY <1>4 DEF FileInv, FileTypeOK, FileOp, FillCache, CacheSaved
    <2>2. PICK o : /\ op' = [op EXCEPT ![w] = o]
                   /\ o = Idle \/ o = [op[w] EXCEPT !.at = "have"]
      BY <1>4 DEF FillCache, CacheSaved
    <2>3. o \in FileOp /\ o.at \in {"idle", "have"} /\ (o.at = "have" => o.facts = op[w].facts)
      BY <1>0, <2>1, <2>2 DEF Idle, FileOp
    <2>4. cached' = [facts |-> op[w].facts, mtime |-> op[w].mtime] /\ UNCHANGED <<file, held, crossed>>
      BY <1>4 DEF FillCache, CacheSaved
    <2> QED BY <2>1, <2>2, <2>3, <2>4, CachingInv
  <1>5. CASE UNCHANGED fileVars
    BY <1>5 DEF fileVars, FileInv, FileTypeOK, InHand, CacheWasOnDisk
  <1> QED BY <1>1, <1>2, <1>3, <1>4, <1>5, ReplaceInv DEF FileNext

\* FileMemoryStorage keeps the invariant of file, cache and calls in hand.
THEOREM FileInvariant == FileSpec => []FileInv
  BY FileInitInv, FileNextInv, PTL DEF FileSpec

\* FileMemoryStorage: whatever loads, saves, failed saves and reloads interleave
\* between file and cache, the cache holds a content the file has had.
THEOREM CacheFromDisk == FileSpec => []CacheWasOnDisk
  <1>1. FileInv => CacheWasOnDisk
    BY DEF FileInv
  <1> QED BY <1>1, FileInvariant, PTL

\* No time in hand or in the cache is newer than the file's.
TimesPast ==
    /\ cached.mtime <= file.mtime \/ cached.mtime = MaxSaves + 1
    /\ \A w \in Writers : op[w].mtime <= file.mtime

\* What a thread is about to cache, with the file's time, is the file's content; what
\* it has written or read, before it asks for the time, still is, unless a save crossed.
PairedOp(o, f, x) ==
    /\ o.at = "cache" /\ o.mtime = f.mtime => o.facts = f.facts
    /\ o.at = "stamp" /\ o.mtime = f.mtime => o.facts = f.facts \/ f.mtime \in x
    /\ o.at = "saved" => o.facts = f.facts \/ f.mtime \in x

Paired == \A w \in Writers : PairedOp(op[w], file, crossed)

FreshInv == TimesPast /\ Paired /\ HitIsFresh

LEMMA FreshInit == FileInit => FreshInv
  BY MemoryFileBounds
     DEF FileInit, FreshInv, TimesPast, Paired, PairedOp, HitIsFresh, NoCache, Idle, MemoryFileBounds

\* A thread whose new state is o, while file and cache stay.
LEMMA FreshThread ==
  ASSUME FileInv, FreshInv, NEW w \in Writers, NEW o \in FileOp,
         op' = [op EXCEPT ![w] = o], o.mtime <= file.mtime, PairedOp(o, file, crossed),
         UNCHANGED <<file, cached, crossed>>
  PROVE  FreshInv'
  <1>1. op'[w] = o /\ \A x \in Writers \ {w} : op'[x] = op[x]
    BY DEF FileInv, FileTypeOK
  <1>2. TimesPast'
    BY <1>1 DEF FreshInv, TimesPast
  <1>3. Paired'
    BY <1>1 DEF FreshInv, Paired
  <1>4. HitIsFresh'
    BY DEF FreshInv, HitIsFresh
  <1> QED BY <1>2, <1>3, <1>4 DEF FreshInv

\* What a thread has goes into the cache.
LEMMA FreshCaching ==
  ASSUME FileInv, FreshInv, NEW w \in Writers, NEW o \in FileOp,
         op[w].at \in {"cache", "stamp"},
         cached' = [facts |-> op[w].facts, mtime |-> op[w].mtime],
         op' = [op EXCEPT ![w] = o], o.mtime <= file.mtime, o.at \in {"idle", "have"},
         UNCHANGED <<file, crossed>>
  PROVE  FreshInv'
  <1>1. op'[w] = o /\ \A x \in Writers \ {w} : op'[x] = op[x]
    BY DEF FileInv, FileTypeOK
  <1>2. cached'.facts = op[w].facts /\ cached'.mtime = op[w].mtime
    OBVIOUS
  <1>3. TimesPast'
    BY <1>1, <1>2 DEF FreshInv, TimesPast
  <1>4. Paired'
    BY <1>1 DEF FreshInv, Paired, PairedOp
  <1>5. HitIsFresh'
    BY <1>2 DEF FreshInv, Paired, PairedOp, HitIsFresh
  <1> QED BY <1>3, <1>4, <1>5 DEF FreshInv

\* A save makes every time in hand old, and crosses whoever waits for the file's.
LEMMA FreshReplace ==
  ASSUME FileInv, FreshInv, NEW w \in Writers, Replace(w)
  PROVE  FreshInv'
  <1>1. PICK fs \in Edited(op[w].facts) :
           /\ file' = [facts |-> fs, mtime |-> file.mtime + 1]
           /\ op' = [op EXCEPT ![w] = [@ EXCEPT !.at = "saved", !.facts = fs]]
    BY DEF Replace
  <1>2. /\ op[w] \in FileOp /\ MaxSaves \in Nat /\ file.mtime \in Nat /\ file.mtime < MaxSaves
        /\ \A x \in Writers : op[x] \in FileOp /\ op[x].mtime \in Nat
        /\ cached.mtime \in Nat
    BY MemoryFileBounds DEF FileInv, FileTypeOK, FileOp, MemoryFileBounds, Replace
  <1>3. PICK o : o = [op[w] EXCEPT !.at = "saved", !.facts = fs]
    OBVIOUS
  <1>4. o.at = "saved" /\ o.facts = fs /\ o.mtime = op[w].mtime
    BY <1>2, <1>3 DEF FileOp
  <1>5. op' = [op EXCEPT ![w] = o]
    BY <1>1, <1>3
  <1>6. op'[w] = o /\ \A x \in Writers \ {w} : op'[x] = op[x]
    BY <1>5 DEF FileInv, FileTypeOK
  <1>7. file'.facts = fs /\ file'.mtime = file.mtime + 1 /\ cached' = cached
    BY <1>1 DEF Replace
  <1>8. TimesPast'
    BY <1>2, <1>4, <1>6, <1>7 DEF FreshInv, TimesPast
  <1>9. \A x \in Writers \ {w} : op[x].at = "saved" => file'.mtime \in crossed'
    BY <1>7 DEF Replace
  <1>10. \A x \in Writers : op[x].mtime # file'.mtime
    BY <1>2, <1>7 DEF FreshInv, TimesPast
  <1>11. Paired'
    BY <1>4, <1>6, <1>7, <1>9, <1>10 DEF Paired, PairedOp
  <1>12. cached.mtime # file'.mtime
    BY <1>2, <1>7 DEF FreshInv, TimesPast
  <1>13. HitIsFresh'
    BY <1>7, <1>12 DEF HitIsFresh
  <1> QED BY <1>8, <1>11, <1>13 DEF FreshInv

LEMMA FreshNext == FileInv /\ FreshInv /\ [FileNext]_fileVars => FreshInv'
  <1> SUFFICES ASSUME FileInv, FreshInv, [FileNext]_fileVars PROVE FreshInv'
    OBVIOUS
  <1>0. /\ MaxSaves \in Nat /\ file.mtime \in 0 .. MaxSaves /\ file.facts \in SUBSET Facts
        /\ cached.facts \in SUBSET Facts /\ 0 <= file.mtime /\ file.mtime <= file.mtime
        /\ \A w \in Writers : op[w] \in FileOp /\ op[w].mtime <= file.mtime
    BY MemoryFileBounds DEF MemoryFileBounds, FileInv, FileTypeOK, FileOp, FreshInv, TimesPast
  <1>1. ASSUME NEW w \in Writers,
               Load(w) \/ Reload(w) \/ LookUp(w) \/ Returned(w) \/ SaveFails(w)
        PROVE  FreshInv'
    <2>1. PICK o : /\ op' = [op EXCEPT ![w] = o]
                   /\ \/ o = [at |-> "look", mtime |-> file.mtime, facts |-> {}]
                      \/ o = [op[w] EXCEPT !.at = "saved", !.facts = file.facts]
                      \/ o = [op[w] EXCEPT !.at = "have", !.facts = cached.facts]
                      \/ o = [op[w] EXCEPT !.at = "read"]
                      \/ o = Idle
      <3>1. CASE Load(w)
        BY <3>1 DEF Load
      <3>2. CASE Reload(w)
        BY <3>2 DEF Reload
      <3>3. CASE LookUp(w)
        BY <3>3 DEF LookUp
      <3>4. CASE Returned(w) \/ SaveFails(w)
        BY <3>4 DEF Returned, SaveFails
      <3> QED BY <1>1, <3>1, <3>2, <3>3, <3>4
    <2>2. op[w] \in FileOp /\ op[w].mtime <= file.mtime
      BY <1>0
    <2>3. o \in FileOp /\ o.mtime <= file.mtime /\ (o.at = "saved" => o.facts = file.facts)
          /\ o.at \in {"idle", "look", "saved", "have", "read"}
      <3>1. CASE o = [at |-> "look", mtime |-> file.mtime, facts |-> {}]
        BY <1>0, <3>1 DEF FileOp
      <3>2. CASE o = [op[w] EXCEPT !.at = "saved", !.facts = file.facts]
        BY <1>0, <2>2, <3>2 DEF FileOp
      <3>3. CASE o = [op[w] EXCEPT !.at = "have", !.facts = cached.facts]
        BY <1>0, <2>2, <3>3 DEF FileOp
      <3>4. CASE o = [op[w] EXCEPT !.at = "read"]
        BY <2>2, <3>4 DEF FileOp
      <3>5. CASE o = Idle
        BY <1>0, <3>5 DEF FileOp, Idle
      <3> QED BY <2>1, <3>1, <3>2, <3>3, <3>4, <3>5
    <2>5. PairedOp(o, file, crossed)
      BY <2>3 DEF PairedOp
    <2>4. UNCHANGED <<file, cached, crossed>>
      BY <1>1 DEF Load, Reload, LookUp, Returned, SaveFails
    <2> QED BY <2>1, <2>3, <2>4, <2>5, FreshThread
  <1>2. ASSUME NEW w \in Writers, ReadFile(w) PROVE FreshInv'
    <2>1. PICK o : /\ op' = [op EXCEPT ![w] = o] /\ o = [op[w] EXCEPT !.at = "cache", !.facts = file.facts]
      BY <1>2 DEF ReadFile
    <2>2. o \in FileOp /\ o.mtime <= file.mtime /\ PairedOp(o, file, crossed)
      BY <1>0, <2>1 DEF FileOp, PairedOp
    <2> QED BY <1>2, <2>1, <2>2, FreshThread DEF ReadFile
  <1>3. ASSUME NEW w \in Writers, Stamp(w) PROVE FreshInv'
    <2>1. PICK o : /\ op' = [op EXCEPT ![w] = o] /\ o = [op[w] EXCEPT !.at = "stamp", !.mtime = file.mtime]
      BY <1>3 DEF Stamp
    <2>2. op[w].at = "saved" /\ PairedOp(op[w], file, crossed)
      BY <1>3 DEF Stamp, FreshInv, Paired
    <2>3. o \in FileOp /\ o.mtime <= file.mtime /\ o.at = "stamp" /\ o.facts = op[w].facts
      BY <1>0, <2>1 DEF FileOp
    <2>4. PairedOp(o, file, crossed)
      BY <2>2, <2>3 DEF PairedOp
    <2> QED BY <1>3, <2>1, <2>3, <2>4, FreshThread DEF Stamp
  <1>4. ASSUME NEW w \in Writers, FillCache(w) \/ CacheSaved(w) PROVE FreshInv'
    <2>1. PICK o : /\ op' = [op EXCEPT ![w] = o]
                   /\ o = Idle \/ o = [op[w] EXCEPT !.at = "have"]
      BY <1>4 DEF FillCache, CacheSaved
    <2>2. o \in FileOp /\ o.at \in {"idle", "have"} /\ o.mtime <= file.mtime
      BY <1>0, <2>1 DEF Idle, FileOp
    <2>3. /\ cached' = [facts |-> op[w].facts, mtime |-> op[w].mtime] /\ UNCHANGED <<file, crossed>>
          /\ op[w].at \in {"cache", "stamp"}
      BY <1>4 DEF FillCache, CacheSaved
    <2> QED BY <2>1, <2>2, <2>3, FreshCaching
  <1>5. CASE UNCHANGED fileVars
    BY <1>5 DEF fileVars, FreshInv, TimesPast, Paired, HitIsFresh
  <1> QED BY <1>1, <1>2, <1>3, <1>4, <1>5, FreshReplace DEF FileNext

\* FileMemoryStorage: when load finds the cache to be of the file's time, the cache holds
\* the file's facts, unless the file was replaced while another save or reload was between
\* its own write or read and its stat: then the cache may pair this time with older facts.
THEOREM HitsAreFresh == FileSpec => []HitIsFresh
  <1>1. FreshInv => HitIsFresh
    BY DEF FreshInv
  <1> QED BY <1>1, FileInvariant, FreshInit, FreshNext, PTL DEF FileSpec

----------------------------------------------------------------------------

PastGate == {"checking", "reading", "stamping", "running", "replacing"}

HoldsGate ==
    \A c \in Ops : fop[c].live /\ fop[c].kind # "bash" /\ fop[c].at \in PastGate => gate = c

ReadsLive ==
    \A c \in Ops :
        /\ fop[c].at \in {"waiting", "reading", "stamping"} => fop[c].live
        /\ fop[c].at \in {"reading", "stamping"} => fop[c].kind = "read"

HoldsFile == \A c \in Ops : fop[c].at = "replacing" => flock = c /\ fop[c].kind = "replace"

SeesDisk ==
    \A c \in Ops : fop[c].live /\ Inside(c) /\ fop[c].stray = {} => fop[c].basis \in {disk, Failed}

FoundOnDisk == \A c \in Ops : fop[c].at = "replacing" /\ "bash" \notin fop[c].stray => fop[c].found = disk

GateInv ==
    GateTypeOK /\ HoldsGate /\ ReadsLive /\ HoldsFile /\ SeesDisk /\ FoundOnDisk /\ broken = {}

ToolCall == [at : {"none", "waiting", "orphan", "checking", "reading", "stamping", "running",
                   "replacing", "done"},
             of : Agents \cup {Missing}, kind : Kinds, live : BOOLEAN, basis : Disk \cup {Failed},
             found : Disk, stamp : Disk, stray : SUBSET {"bash", "detached"}]

\* What the invariant says of a call whose record is x, in a state with this holder
\* of the gate, holder of the file's lock and content.
Fits(x, c, g, f, content) ==
    /\ x.live /\ x.kind # "bash" /\ x.at \in PastGate => g = c
    /\ x.at \in {"waiting", "reading", "stamping"} => x.live
    /\ x.at \in {"reading", "stamping"} => x.kind = "read"
    /\ x.at = "replacing" => f = c /\ x.kind = "replace"
    /\ x.live /\ x.at \in {"stamping", "running", "replacing"} /\ x.kind # "bash" /\ x.stray = {}
          => x.basis \in {content, Failed}
    /\ x.at = "replacing" /\ "bash" \notin x.stray => x.found = content

LEMMA GateInvFits ==
    GateInv <=> GateTypeOK /\ broken = {} /\ \A c \in Ops : Fits(fop[c], c, gate, flock, disk)
  BY DEF GateInv, HoldsGate, ReadsLive, HoldsFile, SeesDisk, FoundOnDisk, Fits, Inside

LEMMA GateInvFitsNext ==
    GateInv' <=> GateTypeOK' /\ broken' = {} /\ \A c \in Ops : Fits(fop'[c], c, gate', flock', disk')
  BY DEF GateInv, HoldsGate, ReadsLive, HoldsFile, SeesDisk, FoundOnDisk, Fits, Inside

LEMMA ToolCallTyped == GateInv => \A c \in Ops : fop[c] \in ToolCall
  BY DEF GateInv, GateTypeOK, ToolCall

LEMMA NoOpTyped == NoOp \in ToolCall /\ Spent \in ToolCall /\ NoOp.stray = {} /\ Spent.at = "done"
  BY DEF NoOp, Spent, ToolCall, Kinds, Disk

\* The record of a call that returns.
LEMMA ResultTyped ==
  ASSUME GateInv, NEW c \in Ops, NEW stamp \in Disk
  PROVE  Result(c, stamp) \in ToolCall /\ Result(c, stamp).at = "done"
  BY ToolCallTyped, NoOpTyped DEF Result, NoOp, ToolCall

LEMMA GateInitInv == GateInit => GateInv
  <1> SUFFICES ASSUME GateInit PROVE GateInv
    OBVIOUS
  <1>1. Lost \in Nat /\ MaxOps \in Nat /\ 0 \in 0 .. Lost /\ 0 \in 0 .. MaxOps
    BY GateAssumption DEF GateAssumption, Lost
  <1>2. \A c \in Ops : fop[c] \in ToolCall /\ fop[c].at = "none"
    BY NoOpTyped DEF GateInit, NoOp
  <1>3. GateTypeOK
    BY <1>1, <1>2 DEF GateInit, GateTypeOK, ToolCall, Disk
  <1>4. \A c \in Ops : Fits(fop[c], c, gate, flock, disk)
    BY <1>2 DEF Fits, PastGate
  <1> QED BY <1>3, <1>4, GateInvFits DEF GateInit

\* A step of one call that leaves the disk alone, and takes neither lock from another
\* call, needs to fit only that call.
LEMMA OneCallInv ==
  ASSUME GateInv, NEW c \in Ops, NEW x \in ToolCall,
         fop' = [fop EXCEPT ![c] = x],
         gate' \in 0 .. Lost, flock' \in 0 .. MaxOps,
         \A d \in Ops \ {c} : (gate = d => gate' = d) /\ (flock = d => flock' = d),
         Fits(x, c, gate', flock', disk),
         UNCHANGED <<disk, mark, broken>>
  PROVE  GateInv'
  <1>1. GateTypeOK'
    BY DEF GateInv, GateTypeOK, ToolCall
  <1>2. ASSUME NEW d \in Ops PROVE Fits(fop'[d], d, gate', flock', disk')
    <2>1. CASE d = c
      BY <2>1 DEF GateInv, GateTypeOK
    <2>2. CASE d # c
      <3>1. fop'[d] = fop[d] /\ Fits(fop[d], d, gate, flock, disk)
        BY <2>2, GateInvFits DEF GateInv, GateTypeOK
      <3> QED BY <2>2, <3>1 DEF Fits
    <2> QED BY <2>1, <2>2
  <1> QED BY <1>1, <1>2, GateInvFitsNext DEF GateInv

\* A call that is done holds nothing: it may return, and release the gate.
LEMMA ReturnInv ==
  ASSUME GateInv, NEW c \in Ops, NEW x \in ToolCall, x.at = "done",
         fop' = [fop EXCEPT ![c] = x],
         gate' \in {gate, IF gate = c THEN 0 ELSE gate}, flock' = flock \/ (flock = c /\ flock' = 0),
         UNCHANGED <<disk, mark, broken>>
  PROVE  GateInv'
  <1>1. gate' \in 0 .. Lost /\ flock' \in 0 .. MaxOps
    BY GateAssumption DEF GateInv, GateTypeOK, GateAssumption, Lost
  <1>2. \A d \in Ops \ {c} : (gate = d => gate' = d) /\ (flock = d => flock' = d)
    OBVIOUS
  <1>3. Fits(x, c, gate', flock', disk)
    BY DEF Fits, PastGate
  <1> QED BY <1>1, <1>2, <1>3, OneCallInv

LEMMA EntersGateInv ==
  ASSUME GateInv, NEW c \in Ops, EntersGate(c)
  PROVE  GateInv'
  <1>1. PICK x : x = [fop[c] EXCEPT !.at = IF fop[c].kind = "read" THEN "reading" ELSE "checking"]
    OBVIOUS
  <1>2. fop[c] \in ToolCall /\ Fits(fop[c], c, gate, flock, disk)
    BY ToolCallTyped, GateInvFits
  <1>3. /\ x \in ToolCall /\ x.at \in {"reading", "checking"} /\ (x.at = "reading" <=> x.kind = "read")
        /\ x.live = fop[c].live
    BY <1>1, <1>2 DEF ToolCall
  <1>4. fop' = [fop EXCEPT ![c] = x] /\ gate = 0 /\ gate' = c /\ fop[c].at = "waiting"
        /\ UNCHANGED <<disk, flock, mark, broken>>
    BY <1>1 DEF EntersGate, OpAt
  <1>5. gate' \in 0 .. Lost /\ flock' \in 0 .. MaxOps /\ \A d \in Ops : gate # d
    BY <1>4, GateAssumption DEF GateInv, GateTypeOK, GateAssumption, Lost, Ops
  <1>6. Fits(x, c, gate', flock', disk)
    BY <1>2, <1>3, <1>4 DEF Fits
  <1> QED BY <1>3, <1>4, <1>5, <1>6, OneCallInv

LEMMA OrphanLocksInv ==
  ASSUME GateInv, NEW c \in Ops, OrphanLocks(c)
  PROVE  GateInv'
  <1>1. PICK x : x = [fop[c] EXCEPT !.at = "done"]
    OBVIOUS
  <1>2. x \in ToolCall /\ x.at = "done"
    BY <1>1, ToolCallTyped DEF ToolCall
  <1>3. fop' = [fop EXCEPT ![c] = x] /\ gate = 0 /\ gate' \in {0, Lost}
        /\ UNCHANGED <<disk, flock, mark, broken>>
    BY <1>1 DEF OrphanLocks, OpAt
  <1>4. gate' \in 0 .. Lost /\ flock' \in 0 .. MaxOps /\ \A d \in Ops : gate # d
    BY <1>3, GateAssumption DEF GateInv, GateTypeOK, GateAssumption, Lost, Ops
  <1>5. Fits(x, c, gate', flock', disk)
    BY <1>2 DEF Fits, PastGate
  <1> QED BY <1>2, <1>3, <1>4, <1>5, OneCallInv

LEMMA CheckInv ==
  ASSUME GateInv, NEW c \in Ops, Check(c)
  PROVE  GateInv'
  <1>1. PICK seen \in {disk, Failed} :
           IF Allows(fop[c].of, seen)
           THEN /\ fop' = [fop EXCEPT ![c].at = "running", ![c].basis = seen]
                /\ UNCHANGED gate
           ELSE Return(c) /\ Unlock(c)
    BY DEF Check
  <1>2. UNCHANGED <<disk, flock, mark, broken>> /\ fop[c].at = "checking"
    BY DEF Check, OpAt
  <1>3. CASE Return(c) /\ Unlock(c)
    <2>1. Missing \in Disk
      BY DEF Disk
    <2> QED BY <1>2, <1>3, <2>1, ResultTyped, ReturnInv DEF Return, Unlock
  <1>4. CASE fop' = [fop EXCEPT ![c].at = "running", ![c].basis = seen] /\ UNCHANGED gate
    <2>1. PICK x : x = [fop[c] EXCEPT !.at = "running", !.basis = seen]
      OBVIOUS
    <2>2. fop[c] \in ToolCall /\ Fits(fop[c], c, gate, flock, disk) /\ seen \in Disk \cup {Failed}
      BY ToolCallTyped, GateInvFits DEF GateInv, GateTypeOK
    <2>3. x \in ToolCall /\ x.at = "running" /\ x.basis = seen /\ x.live = fop[c].live
          /\ x.kind = fop[c].kind
      BY <2>1, <2>2 DEF ToolCall
    <2>4. fop' = [fop EXCEPT ![c] = x]
      BY <1>4, <2>1
    <2>5. Fits(x, c, gate', flock', disk)
      BY <1>2, <1>4, <2>2, <2>3 DEF Fits, PastGate
    <2>6. gate' \in 0 .. Lost /\ flock' \in 0 .. MaxOps
      BY <1>2, <1>4 DEF GateInv, GateTypeOK
    <2> QED BY <1>2, <1>4, <2>3, <2>4, <2>5, <2>6, OneCallInv
  <1> QED BY <1>1, <1>3, <1>4

LEMMA ShowsFileInv ==
  ASSUME GateInv, NEW c \in Ops, ShowsFile(c)
  PROVE  GateInv'
  <1>1. PICK shown \in {disk, Failed} :
           fop' = [fop EXCEPT ![c].at = "stamping", ![c].basis = shown]
    BY DEF ShowsFile
  <1>2. UNCHANGED <<disk, gate, flock, mark, broken>> /\ fop[c].at = "reading"
    BY DEF ShowsFile, OpAt
  <1>3. PICK x : x = [fop[c] EXCEPT !.at = "stamping", !.basis = shown]
    OBVIOUS
  <1>4. fop[c] \in ToolCall /\ Fits(fop[c], c, gate, flock, disk) /\ shown \in Disk \cup {Failed}
    BY ToolCallTyped, GateInvFits DEF GateInv, GateTypeOK
  <1>5. x \in ToolCall /\ x.at = "stamping" /\ x.basis = shown /\ x.live = fop[c].live
        /\ x.kind = fop[c].kind
    BY <1>3, <1>4 DEF ToolCall
  <1>6. fop' = [fop EXCEPT ![c] = x]
    BY <1>1, <1>3
  <1>7. Fits(x, c, gate', flock', disk)
    BY <1>2, <1>4, <1>5 DEF Fits, PastGate
  <1>8. gate' \in 0 .. Lost /\ flock' \in 0 .. MaxOps
    BY <1>2 DEF GateInv, GateTypeOK
  <1> QED BY <1>2, <1>5, <1>6, <1>7, <1>8, OneCallInv

LEMMA AttachReadMarkInv ==
  ASSUME GateInv, NEW c \in Ops, AttachReadMark(c)
  PROVE  GateInv'
  <1>1. PICK seen \in {disk, Missing} :
           /\ fop' = [fop EXCEPT ![c] = Result(c, seen)]
           /\ broken' = IF seen # Missing /\ fop[c].basis \notin {seen, Failed} /\ fop[c].stray = {}
                        THEN broken \cup {"mark"} ELSE broken
    BY DEF AttachReadMark
  <1>2. Unlock(c) /\ UNCHANGED <<disk, flock, mark>> /\ fop[c].at = "stamping"
    BY DEF AttachReadMark, OpAt
  <1>3. broken' = broken
    <2>1. fop[c].stray = {} => fop[c].basis \in {disk, Failed}
      BY <1>2, GateInvFits DEF Fits
    <2> QED BY <1>1, <2>1
  <1>4. seen \in Disk
    BY DEF GateInv, GateTypeOK, Disk
  <1> QED BY <1>1, <1>2, <1>3, <1>4, ResultTyped, ReturnInv DEF Unlock

\* Who writes outside the gate is remembered by every call inside it.
LEMMA StrayedTyped ==
  ASSUME GateInv, NEW c \in Ops, NEW x \in ToolCall, x.at = "done", NEW who \in {"bash", "detached"},
         fop' = Strayed([fop EXCEPT ![c] = x], c, who)
  PROVE  /\ fop' \in [Ops -> ToolCall] /\ fop'[c].at = "done"
         /\ \A d \in Ops \ {c} :
               /\ ~Inside(d) => fop'[d] = fop[d]
               /\ Inside(d) => /\ fop'[d].at = fop[d].at /\ fop'[d].live = fop[d].live
                               /\ fop'[d].kind = fop[d].kind /\ who \in fop'[d].stray
  <1>1. fop'[c] = x
    BY DEF Strayed, GateInv, GateTypeOK
  <1>2. ASSUME NEW d \in Ops \ {c}, Inside(d)
        PROVE  /\ fop'[d] \in ToolCall /\ fop'[d].at = fop[d].at /\ fop'[d].live = fop[d].live
               /\ fop'[d].kind = fop[d].kind /\ who \in fop'[d].stray
    <2>1. fop[d] \in ToolCall
      BY ToolCallTyped
    <2>2. PICK more : more = fop[d].stray \cup {who}
      OBVIOUS
    <2>3. more \in SUBSET {"bash", "detached"} /\ who \in more
      BY <2>1, <2>2 DEF ToolCall
    <2>4. fop'[d] = [fop[d] EXCEPT !.stray = more]
      BY <1>2, <2>2 DEF Strayed, GateInv, GateTypeOK
    <2> QED BY <2>1, <2>3, <2>4, ZenonT(40) DEF ToolCall
  <1>3. ASSUME NEW d \in Ops \ {c}, ~Inside(d)
        PROVE  fop'[d] = fop[d] /\ fop[d] \in ToolCall
    BY <1>3, ToolCallTyped DEF Strayed, GateInv, GateTypeOK
  <1>4. fop' \in [Ops -> ToolCall]
    BY <1>1, <1>2, <1>3 DEF Strayed
  <1> QED BY <1>1, <1>2, <1>3, <1>4

\* A call lands its write and ends, inside the gate and with no other call writing
\* to the file, or outside the gate, where the calls inside learn of it.
LEMMA LandsInv ==
  ASSUME GateInv, NEW c \in Ops, Lands(c), UNCHANGED mark,
         fop[c].kind # "bash", fop[c].at \in {"running", "replacing"},
         fop[c].kind = "replace" => fop[c].at = "replacing",
         flock \in {0, c} /\ flock' = 0
  PROVE  GateInv'
  <1>1. PICK x : x = Result(c, Missing)
    OBVIOUS
  <1>2. x \in ToolCall /\ x.at = "done"
    BY <1>1, ResultTyped DEF Disk
  <1>3. /\ disk' \in Contents /\ gate' = IF gate = c THEN 0 ELSE gate
        /\ IF fop[c].live THEN fop' = [fop EXCEPT ![c] = x]
                          ELSE fop' = Strayed([fop EXCEPT ![c] = x], c, "detached")
    BY <1>1 DEF Lands, Unlock
  <1>4. fop[c] \in ToolCall /\ Fits(fop[c], c, gate, flock, disk) /\ broken = {}
    BY ToolCallTyped, GateInvFits
  <1>5. broken' = {}
    <2>1. ~(fop[c].live /\ fop[c].stray = {} /\ fop[c].basis \notin {disk, Failed})
      BY <1>4 DEF Fits
    <2>2. ~(fop[c].kind = "replace" /\ "bash" \notin fop[c].stray /\ fop[c].found # disk)
      BY <1>4 DEF Fits
    <2> QED BY <1>4, <2>1, <2>2 DEF Lands
  <1>6. gate' \in 0 .. Lost /\ flock' \in 0 .. MaxOps /\ disk' \in Disk
    <2>1. MaxOps \in Nat /\ Lost \in Nat /\ gate \in 0 .. Lost
      BY GateAssumption DEF GateInv, GateTypeOK, GateAssumption, Lost
    <2>2. disk' \in Disk
      BY <1>3 DEF Disk
    <2>3. gate' \in 0 .. Lost
      BY <1>3, <2>1
    <2> QED BY <2>1, <2>2, <2>3
  <1>7. \A d \in Ops \ {c} : fop[d].at # "replacing"
    BY GateInvFits, GateAssumption DEF Fits, GateAssumption, Ops
  <1>8. CASE fop[c].live
    <2>1. gate = c
      BY <1>4, <1>8 DEF Fits, PastGate
    <2>2. \A d \in Ops \ {c} : fop'[d] = fop[d] /\ Fits(fop[d], d, gate, flock, disk)
      BY <1>3, <1>8, GateInvFits DEF GateInv, GateTypeOK
    <2>3. \A d \in Ops \ {c} : Fits(fop'[d], d, gate', flock', disk')
      BY <1>7, <2>1, <2>2 DEF Fits, PastGate
    <2>4. fop'[c] = x /\ fop' \in [Ops -> ToolCall]
      BY <1>2, <1>3, <1>8 DEF GateInv, GateTypeOK, ToolCall
    <2>5. Fits(fop'[c], c, gate', flock', disk')
      BY <1>2, <2>4 DEF Fits, PastGate
    <2>6. GateTypeOK'
      BY <1>5, <1>6, <2>4 DEF GateInv, GateTypeOK, ToolCall
    <2> QED BY <1>5, <2>3, <2>5, <2>6, GateInvFitsNext
  <1>9. CASE ~fop[c].live
    <2>1. fop' = Strayed([fop EXCEPT ![c] = x], c, "detached")
      BY <1>3, <1>9
    <2>2. /\ fop' \in [Ops -> ToolCall] /\ fop'[c].at = "done"
          /\ \A d \in Ops \ {c} :
               /\ ~Inside(d) => fop'[d] = fop[d]
               /\ Inside(d) => /\ fop'[d].at = fop[d].at /\ fop'[d].live = fop[d].live
                               /\ fop'[d].kind = fop[d].kind /\ "detached" \in fop'[d].stray
      BY <1>2, <2>1, StrayedTyped
    <2>3. ASSUME NEW d \in Ops \ {c} PROVE Fits(fop'[d], d, gate', flock', disk')
      <3>1. Fits(fop[d], d, gate, flock, disk) /\ fop[d] \in ToolCall /\ (gate = d => gate' = d)
            /\ fop[d].at # "replacing"
        BY <1>3, <1>7, GateInvFits, ToolCallTyped
      <3>2. CASE Inside(d)
        <4>1. /\ fop'[d].at = fop[d].at /\ fop'[d].live = fop[d].live /\ fop'[d].kind = fop[d].kind
              /\ fop'[d].stray # {}
          BY <2>2, <3>2
        <4> QED BY <3>1, <4>1 DEF Fits
      <3>3. CASE ~Inside(d)
        BY <2>2, <3>1, <3>3 DEF Fits, Inside
      <3> QED BY <3>2, <3>3
    <2>4. Fits(fop'[c], c, gate', flock', disk')
      BY <2>2 DEF Fits, PastGate
    <2>5. GateTypeOK'
      BY <1>5, <1>6, <2>2 DEF GateInv, GateTypeOK, ToolCall
    <2> QED BY <1>5, <2>3, <2>4, <2>5, GateInvFitsNext
  <1> QED BY <1>8, <1>9

LEMMA WriteFileInv ==
  ASSUME GateInv, NEW c \in Ops, WriteFile(c)
  PROVE  GateInv'
  <1>1. CASE flock = 0 /\ Lands(c)
    BY <1>1, LandsInv DEF WriteFile, OpAt
  <1>2. CASE Return(c) /\ Unlock(c) /\ UNCHANGED <<disk, broken>>
    <2>1. Missing \in Disk
      BY DEF Disk
    <2> QED BY <1>2, <2>1, ResultTyped, ReturnInv DEF WriteFile, Return, Unlock
  <1> QED BY <1>1, <1>2 DEF WriteFile

LEMMA ReplaceReadInv ==
  ASSUME GateInv, NEW c \in Ops, ReplaceRead(c)
  PROVE  GateInv'
  <1>1. CASE Return(c) /\ Unlock(c) /\ UNCHANGED flock
    <2>1. Missing \in Disk
      BY DEF Disk
    <2> QED BY <1>1, <2>1, ResultTyped, ReturnInv DEF ReplaceRead, Return, Unlock
  <1>2. CASE /\ flock' = c /\ UNCHANGED gate
             /\ fop' = [fop EXCEPT ![c].at = "replacing", ![c].found = disk]
    <2>1. PICK x : x = [fop[c] EXCEPT !.at = "replacing", !.found = disk]
      OBVIOUS
    <2>2. fop[c] \in ToolCall /\ Fits(fop[c], c, gate, flock, disk) /\ disk \in Disk
      BY ToolCallTyped, GateInvFits DEF GateInv, GateTypeOK
    <2>3. x \in ToolCall /\ x.at = "replacing" /\ x.basis = fop[c].basis /\ x.live = fop[c].live
          /\ x.kind = fop[c].kind /\ x.stray = fop[c].stray /\ x.found = disk
      BY <2>1, <2>2 DEF ToolCall
    <2>4. fop' = [fop EXCEPT ![c] = x]
      BY <1>2, <2>1
    <2>5. fop[c].at = "running" /\ fop[c].kind = "replace" /\ flock = 0
          /\ UNCHANGED <<disk, mark, broken>>
      BY DEF ReplaceRead, OpAt
    <2>6. Fits(x, c, gate', flock', disk)
      BY <1>2, <2>2, <2>3, <2>5 DEF Fits, PastGate
    <2>7. gate' \in 0 .. Lost /\ flock' \in 0 .. MaxOps /\ \A d \in Ops : flock # d
      BY <1>2, <2>5, GateAssumption DEF GateInv, GateTypeOK, Ops, GateAssumption
    <2> QED BY <1>2, <2>3, <2>4, <2>5, <2>6, <2>7, OneCallInv
  <1> QED BY <1>1, <1>2 DEF ReplaceRead

LEMMA ReplaceWriteInv ==
  ASSUME GateInv, NEW c \in Ops, ReplaceWrite(c)
  PROVE  GateInv'
  <1>1. flock = c /\ flock' = 0 /\ fop[c].kind = "replace" /\ fop[c].at = "replacing" /\ UNCHANGED mark
    BY GateInvFits DEF Fits, ReplaceWrite, OpAt
  <1>2. CASE Lands(c)
    BY <1>1, <1>2, LandsInv
  <1>3. CASE Return(c) /\ Unlock(c) /\ UNCHANGED <<disk, broken>>
    <2>1. Missing \in Disk
      BY DEF Disk
    <2> QED BY <1>1, <1>3, <2>1, ResultTyped, ReturnInv DEF Return, Unlock
  <1> QED BY <1>2, <1>3 DEF ReplaceWrite

LEMMA BashInv ==
  ASSUME GateInv, NEW c \in Ops, Bash(c)
  PROVE  GateInv'
  <1>1. PICK x : x = Result(c, Missing)
    OBVIOUS
  <1>2. x \in ToolCall /\ x.at = "done"
    BY <1>1, ResultTyped DEF Disk
  <1>3. fop' = Strayed([fop EXCEPT ![c] = x], c, "bash") /\ disk' \in Disk
        /\ UNCHANGED <<gate, flock, mark, broken>>
    BY <1>1 DEF Bash
  <1>4. /\ fop' \in [Ops -> ToolCall] /\ fop'[c].at = "done"
        /\ \A d \in Ops \ {c} :
             /\ ~Inside(d) => fop'[d] = fop[d]
             /\ Inside(d) => /\ fop'[d].at = fop[d].at /\ fop'[d].live = fop[d].live
                             /\ fop'[d].kind = fop[d].kind /\ "bash" \in fop'[d].stray
    BY <1>2, <1>3, StrayedTyped
  <1>5. ASSUME NEW d \in Ops \ {c} PROVE Fits(fop'[d], d, gate', flock', disk')
    <2>1. Fits(fop[d], d, gate, flock, disk) /\ fop[d] \in ToolCall
      BY GateInvFits, ToolCallTyped
    <2>2. CASE Inside(d)
      <3>1. /\ fop'[d].at = fop[d].at /\ fop'[d].live = fop[d].live /\ fop'[d].kind = fop[d].kind
            /\ "bash" \in fop'[d].stray
        BY <1>4, <2>2
      <3>2. fop'[d].stray # {}
        BY <3>1
      <3> QED BY <1>3, <2>1, <3>1, <3>2 DEF Fits
    <2>3. CASE ~Inside(d)
      BY <1>3, <1>4, <2>1, <2>3 DEF Fits, Inside
    <2> QED BY <2>2, <2>3
  <1>6. Fits(fop'[c], c, gate', flock', disk')
    BY <1>4 DEF Fits, PastGate
  <1>7. GateTypeOK'
    BY <1>3, <1>4 DEF GateInv, GateTypeOK, ToolCall
  <1> QED BY <1>3, <1>5, <1>6, <1>7, GateInvFitsNext DEF GateInv

-----------------------------------------------------------------------------
\* A set of calls has a last one.
LEMMA LastCall ==
  ASSUME NEW calls \in SUBSET Ops, calls # {}
  PROVE  \E c \in calls : \A d \in calls : d <= c
  <1>1. MaxOps \in Nat /\ \A c \in calls : c \in Nat /\ MaxOps - c \in Nat
    BY GateAssumption DEF GateAssumption, Ops
  <1>2. PICK T : T = {MaxOps - c : c \in calls}
    OBVIOUS
  <1>3. T \subseteq Nat /\ T # {}
    BY <1>1, <1>2
  <1>4. PICK x \in T : \A y \in T : ~ (<<y, x>> \in OpToRel(<, Nat))
    BY <1>3, WFMin, NatLessThanWellFounded
  <1>5. \A y \in T : ~ (y < x)
    BY <1>3, <1>4 DEF OpToRel
  <1>6. PICK c \in calls : x = MaxOps - c
    BY <1>2
  <1>7. \A d \in calls : ~ (MaxOps - d < MaxOps - c)
    BY <1>2, <1>5, <1>6
  <1>8. \A d \in calls : d <= c
    BY <1>1, <1>7
  <1> QED BY <1>8

\* A step that moves several calls to records that hold no lock and leaves the
\* others, the disk and the file's lock alone.
LEMMA TurnInv ==
  ASSUME GateInv, NEW calls \in SUBSET Ops,
         fop' \in [Ops -> ToolCall],
         \A d \in Ops \ calls : fop'[d] = fop[d] /\ (gate = d => gate' = d),
         \A d \in calls : Fits(fop'[d], d, gate', flock, disk),
         gate' \in 0 .. Lost, mark' \in [Agents -> Disk],
         UNCHANGED <<disk, flock, broken>>
  PROVE  GateInv'
  <1>1. GateTypeOK'
    BY DEF GateInv, GateTypeOK, ToolCall
  <1>2. ASSUME NEW d \in Ops \ calls PROVE Fits(fop'[d], d, gate', flock', disk')
    <2>1. Fits(fop[d], d, gate, flock, disk)
      BY GateInvFits
    <2> QED BY <2>1 DEF Fits
  <1> QED BY <1>1, <1>2, GateInvFitsNext DEF GateInv

LEMMA StartTurnInv ==
  ASSUME GateInv, NEW a \in Agents, StartTurn(a)
  PROVE  GateInv'
  <1>0. PICK calls \in SUBSET Ops :
           \E k \in [calls -> Kinds] :
             fop' = [c \in Ops |->
                       IF c \in calls
                       THEN [NoOp EXCEPT !.of = a, !.kind = k[c], !.live = TRUE,
                                 !.at = IF k[c] = "bash" THEN "running" ELSE "waiting"]
                       ELSE fop[c]]
    BY DEF StartTurn
  <1>1. PICK k \in [calls -> Kinds] :
           fop' = [c \in Ops |->
                     IF c \in calls
                     THEN [NoOp EXCEPT !.of = a, !.kind = k[c], !.live = TRUE,
                               !.at = IF k[c] = "bash" THEN "running" ELSE "waiting"]
                     ELSE fop[c]]
    BY <1>0
  <1>2. UNCHANGED <<disk, gate, flock, mark, broken>>
    BY DEF StartTurn
  <1>3. ASSUME NEW c \in calls
        PROVE  fop'[c] \in ToolCall /\ Fits(fop'[c], c, gate', flock, disk)
    <2>1. PICK kind \in Kinds : kind = k[c]
      OBVIOUS
    <2>2. PICK where \in {"running", "waiting"} : where = IF kind = "bash" THEN "running" ELSE "waiting"
      OBVIOUS
    <2>3. fop'[c] = [NoOp EXCEPT !.of = a, !.kind = kind, !.live = TRUE, !.at = where]
      BY <1>1, <2>1, <2>2
    <2>4. fop'[c] \in ToolCall /\ fop'[c].kind = kind /\ fop'[c].live /\ fop'[c].at = where
      BY <2>3, NoOpTyped, ZenonT(40) DEF ToolCall
    <2> QED BY <2>2, <2>4 DEF Fits, PastGate
  <1>4. \A d \in Ops \ calls : fop'[d] = fop[d] /\ fop[d] \in ToolCall
    BY <1>1, ToolCallTyped
  <1>5. fop' \in [Ops -> ToolCall]
    BY <1>1, <1>3, <1>4
  <1>6. gate' \in 0 .. Lost /\ mark' \in [Agents -> Disk]
    BY <1>2 DEF GateInv, GateTypeOK
  <1> QED BY <1>2, <1>3, <1>4, <1>5, <1>6, TurnInv

LEMMA EndTurnInv ==
  ASSUME GateInv, NEW a \in Agents, EndTurn(a)
  PROVE  GateInv'
  <1>1. PICK calls \in SUBSET Ops : calls = Turn(a)
    BY DEF Turn
  <1>2. fop' = [c \in Ops |-> IF c \in calls THEN Spent ELSE fop[c]]
        /\ UNCHANGED <<disk, gate, flock, broken>>
    BY <1>1 DEF EndTurn
  <1>3. mark' \in [Agents -> Disk]
    <2>1. PICK marks \in SUBSET Ops : marks = {c \in Turn(a) : fop[c].stamp # Missing}
      BY DEF Turn
    <2>2. mark' = [mark EXCEPT ![a] =
                     IF marks = {} THEN @
                     ELSE fop[CHOOSE c \in marks : \A d \in marks : d <= c].stamp]
      BY <2>1 DEF EndTurn
    <2>3. mark \in [Agents -> Disk]
      BY DEF GateInv, GateTypeOK
    <2>4. CASE marks = {}
      BY <2>2, <2>3, <2>4
    <2>5. CASE marks # {}
      <3>1. PICK c : c = CHOOSE e \in marks : \A d \in marks : d <= e
        OBVIOUS
      <3>2. c \in marks
        BY <2>5, <3>1, LastCall
      <3>3. fop[c].stamp \in Disk
        BY <3>2, ToolCallTyped DEF ToolCall
      <3>4. mark' = [mark EXCEPT ![a] = fop[c].stamp]
        BY <2>2, <2>5, <3>1
      <3> QED BY <2>3, <3>3, <3>4
    <2> QED BY <2>4, <2>5
  <1>4. fop' \in [Ops -> ToolCall]
    BY <1>2, NoOpTyped, ToolCallTyped
  <1>5. \A d \in calls : Fits(fop'[d], d, gate', flock, disk)
    BY <1>2, NoOpTyped DEF Fits, PastGate
  <1>6. gate' \in 0 .. Lost
    BY <1>2 DEF GateInv, GateTypeOK
  <1> QED BY <1>2, <1>3, <1>4, <1>5, <1>6, TurnInv

LEMMA CancelTurnInv ==
  ASSUME GateInv, NEW a \in Agents, CancelTurn(a)
  PROVE  GateInv'
  <1>1. PICK orphans \in SUBSET {c \in Turn(a) : OpAt(c, "waiting")},
             detached \in SUBSET {c \in Turn(a) : OpAt(c, "running")} :
          LET calls == [c \in Ops |->
                 IF c \notin Turn(a) THEN fop[c]
                 ELSE IF c \in orphans THEN [NoOp EXCEPT !.at = "orphan"]
                 ELSE IF c \in detached \/ OpAt(c, "replacing") THEN [fop[c] EXCEPT !.live = FALSE]
                 ELSE Spent]
          IN  /\ fop' = calls
              /\ gate' = IF gate \in Turn(a) \/ (gate = Lost /\ ~Holding(calls, {}))
                         THEN 0 ELSE gate
    BY DEF CancelTurn
  <1>2. PICK calls \in SUBSET Ops : calls = Turn(a)
    BY DEF Turn
  <1>3. fop' = [c \in Ops |->
                 IF c \notin calls THEN fop[c]
                 ELSE IF c \in orphans THEN [NoOp EXCEPT !.at = "orphan"]
                 ELSE IF c \in detached \/ OpAt(c, "replacing") THEN [fop[c] EXCEPT !.live = FALSE]
                 ELSE Spent]
    BY <1>1, <1>2
  <1>4. gate' = gate \/ (gate' = 0 /\ (gate \in calls \/ gate = Lost))
    BY <1>1, <1>2
  <1>5. UNCHANGED <<disk, flock, mark, broken>>
    BY DEF CancelTurn
  <1>6. ASSUME NEW c \in calls
        PROVE  fop'[c] \in ToolCall /\ Fits(fop'[c], c, gate', flock, disk)
    <2>1. CASE fop'[c] = [NoOp EXCEPT !.at = "orphan"]
      <3>1. fop'[c] \in ToolCall /\ fop'[c].at = "orphan"
        BY <2>1, NoOpTyped DEF ToolCall
      <3> QED BY <3>1 DEF Fits, PastGate
    <2>2. CASE /\ fop[c].at \in {"running", "replacing"}
               /\ fop'[c] = [fop[c] EXCEPT !.live = FALSE]
      <3>1. fop[c] \in ToolCall /\ Fits(fop[c], c, gate, flock, disk)
        BY ToolCallTyped, GateInvFits
      <3>2. /\ fop'[c] \in ToolCall /\ fop'[c].at = fop[c].at /\ ~fop'[c].live
            /\ fop'[c].kind = fop[c].kind /\ fop'[c].stray = fop[c].stray
            /\ fop'[c].found = fop[c].found
        BY <2>2, <3>1 DEF ToolCall
      <3> QED BY <2>2, <3>1, <3>2 DEF Fits
    <2>3. CASE fop'[c] = Spent
      BY <2>3, NoOpTyped DEF Fits, PastGate
    <2> QED BY <1>2, <1>3, <2>1, <2>2, <2>3 DEF OpAt
  <1>7. \A d \in Ops \ calls : fop'[d] = fop[d] /\ fop[d] \in ToolCall
    BY <1>3, ToolCallTyped
  <1>8. \A d \in Ops \ calls : gate = d => gate' = d
    BY <1>4, GateAssumption DEF GateAssumption, Ops, Lost
  <1>9. fop' \in [Ops -> ToolCall]
    BY <1>3, <1>6, <1>7
  <1>10. gate' \in 0 .. Lost /\ mark' \in [Agents -> Disk]
    BY <1>4, <1>5, GateAssumption DEF GateInv, GateTypeOK, GateAssumption, Lost
  <1> QED BY <1>5, <1>6, <1>7, <1>8, <1>9, <1>10, TurnInv

LEMMA SummarizeInv ==
  ASSUME GateInv, NEW a \in Agents, Summarize(a)
  PROVE  GateInv'
  <1>1. GateTypeOK'
    BY DEF Summarize, GateInv, GateTypeOK, Disk
  <1>2. UNCHANGED <<disk, gate, flock, fop, broken>>
    BY DEF Summarize
  <1> QED BY <1>1, <1>2, GateInvFits, GateInvFitsNext

LEMMA GateNextInv == GateInv /\ [GateNext]_gateVars => GateInv'
  <1> SUFFICES ASSUME GateInv, [GateNext]_gateVars PROVE GateInv'
    OBVIOUS
  <1>1. ASSUME NEW a \in Agents,
               StartTurn(a) \/ EndTurn(a) \/ CancelTurn(a) \/ Summarize(a)
        PROVE  GateInv'
    BY <1>1, StartTurnInv, EndTurnInv, CancelTurnInv, SummarizeInv
  <1>2. ASSUME NEW c \in Ops,
               \/ EntersGate(c) \/ OrphanLocks(c) \/ Check(c) \/ ShowsFile(c)
               \/ AttachReadMark(c) \/ WriteFile(c) \/ ReplaceRead(c) \/ ReplaceWrite(c)
               \/ Bash(c)
        PROVE  GateInv'
    BY <1>2, EntersGateInv, OrphanLocksInv, CheckInv, ShowsFileInv, AttachReadMarkInv,
       WriteFileInv, ReplaceReadInv, ReplaceWriteInv, BashInv
  <1>3. CASE UNCHANGED gateVars
    <2>1. GateTypeOK'
      BY <1>3 DEF gateVars, GateInv, GateTypeOK
    <2>2. UNCHANGED <<disk, gate, flock, fop, broken>>
      BY <1>3 DEF gateVars
    <2> QED BY <2>1, <2>2, GateInvFits, GateInvFitsNext
  <1> QED BY <1>1, <1>2, <1>3 DEF GateNext

\* The gate, the file tools and bash keep the gate's inductive invariant.
THEOREM GateInvariant == GateSpec => []GateInv
  BY GateInitInv, GateNextInv, PTL DEF GateSpec

\* ReadBeforeWriteMiddleware: whatever conversations and calls of one turn run side
\* by side, and wherever runs are cancelled, a write that went through the gate
\* overwrites what the gate saw, unless someone wrote outside the gate.
THEOREM GatedWritesSeeDisk == GateSpec => []OverwritesWhatWasRead
  <1>1. GateInv => OverwritesWhatWasRead
    BY DEF GateInv, OverwritesWhatWasRead
  <1> QED BY <1>1, GateInvariant, PTL

\* str_replace_tool: under the file's lock only bash comes between its read and its
\* write, even when the run it belonged to has been cancelled.
THEOREM ReplaceIsAtomic == GateSpec => []ReplacesWhatItRead
  <1>1. GateInv => ReplacesWhatItRead
    BY DEF GateInv, ReplacesWhatItRead
  <1> QED BY <1>1, GateInvariant, PTL

\* _attach_read_mark, which reads the file again, marks what read_file showed.
THEOREM MarksWhatWasShown == GateSpec => []MarkIsShown
  <1>1. GateInv => MarkIsShown
    BY DEF GateInv, MarkIsShown
  <1> QED BY <1>1, GateInvariant, PTL

----------------------------------------------------------------------------

\* A closer has evicted c and has yet to tell its owner.
Pending(c) == \E d \in Calls : \E b \in BOOLEAN : <<c, b>> \in call[d].evicted

OwnersAreCreators ==
    \A c \in Calls :
        /\ owner[c].at # "none" => call[c].at # "idle" /\ call[c].on = c
        /\ owner[c].ready = "error" => owner[c].at = "done"
        /\ owner[c].at \in {"new", "connecting"} => owner[c].ready = "pending"
        /\ call[c].at = "idle" => call[c].evicted = {}
        /\ call[c].at # "idle" => call[c].key \in Scopes

RegisteredGot == \A c \in Registered : call[c].at = "got"

InflightIsAwaited ==
    \A k \in Scopes, c \in Calls : inflight[k] = c =>
        /\ call[c].key = k /\ call[c].on = c /\ call[c].at \in {"wait", "unwind"}
        /\ call[c].at = "wait" => ~owner[c].close /\ ~owner[c].cancel

PendingIsGone ==
    \A c \in Calls : Pending(c) =>
        /\ c \notin Registered /\ call[c].at # "idle"
        /\ \A k \in Scopes : inflight[k] # c

McpInv ==
    /\ McpTypeOK /\ OwnersAreCreators /\ RegisteredGot /\ InflightIsAwaited /\ PendingIsGone
    /\ EntryIsLive /\ NoLostOwner

McpOwner == [at : {"none", "new", "connecting", "serving", "done"},
             ready : {"pending", "session", "error"}, close : BOOLEAN, cancel : BOOLEAN]
McpCall == [at : {"idle", "wait", "unwind", "got", "raised"},
            key : Scopes \cup {None}, loop : Loops \cup {None},
            evicted : SUBSET (Calls \X BOOLEAN), on : Calls \cup {None}]

LEMMA McpInitInv == McpInit => McpInv
<1> SUFFICES ASSUME McpInit PROVE McpInv
  OBVIOUS
<1>1. Registered = {}
  BY DEF McpInit, Registered, Members
<1>2. \A c \in Calls : call[c] = NoCall /\ owner[c] = NoOwner
  BY DEF McpInit
<1>3. NoCall \in McpCall /\ NoOwner \in McpOwner
  BY DEF NoCall, NoOwner, McpCall, McpOwner, Loops
<1>4. McpTypeOK
  BY McpAssumption, <1>3 DEF McpInit, McpTypeOK, McpCall, McpOwner, McpAssumption
<1>5. \A k \in Scopes, c \in Calls : inflight[k] # c
  BY McpAssumption DEF McpInit, McpAssumption
<1>6. \A c \in Calls : /\ call[c].at = "idle" /\ call[c].evicted = {}
                      /\ owner[c].at = "none" /\ owner[c].ready = "pending"
  BY <1>2 DEF NoCall, NoOwner
<1>8. OwnersAreCreators
  BY <1>6 DEF OwnersAreCreators
<1>9. RegisteredGot /\ InflightIsAwaited
  BY <1>1, <1>5 DEF RegisteredGot, InflightIsAwaited
<1>10. PendingIsGone
  BY <1>6, Zenon DEF PendingIsGone, Pending
<1>7. EntryIsLive /\ NoLostOwner
  BY <1>1, <1>2 DEF EntryIsLive, NoLostOwner, Alive, NoOwner
<1> QED
  BY <1>4, <1>7, <1>8, <1>9, <1>10 DEF McpInv

\* What an owner that is signalled looks like.
LEMMA SignalledOwner ==
  ASSUME McpInv, NEW c \in Calls, NEW b \in BOOLEAN, owner' = Signalled(c, b)
  PROVE  /\ owner' \in [Calls -> McpOwner]
         /\ \A x \in Calls : x # c => owner'[x] = owner[x]
         /\ owner'[c].at = owner[c].at /\ owner'[c].ready = owner[c].ready /\ owner'[c].close
<1>0. owner \in [Calls -> McpOwner]
  BY DEF McpInv, McpTypeOK, McpOwner
<1>1. PICK d \in BOOLEAN : d = (owner[c].cancel \/ b)
  BY Zenon
<1>2. PICK o : o = [owner[c] EXCEPT !.close = TRUE, !.cancel = d]
  OBVIOUS
<1>3. o \in McpOwner /\ o.at = owner[c].at /\ o.ready = owner[c].ready /\ o.close = TRUE
  BY <1>0, <1>1, <1>2 DEF McpOwner
<1>4. owner' = [owner EXCEPT ![c] = o]
  BY <1>0, <1>1, <1>2 DEF Signalled, McpOwner
<1> QED
  BY <1>0, <1>3, <1>4

\* An owner that moves on by itself: it stays signalled or not, it never comes
\* back to life, and what it has reported stays.
LEMMA OwnerMoves ==
  ASSUME McpInv, NEW c \in Calls, NEW o \in McpOwner,
         owner' = [owner EXCEPT ![c] = o],
         owner[c].at # "none",
         o.close = owner[c].close, o.cancel = owner[c].cancel,
         o.ready = "error" => o.at = "done",
         o.at \in {"new", "connecting"} => o.ready = "pending",
         o.at \in {"new", "connecting", "serving"} => Alive(c),
         owner[c].ready = "session" => o.ready = "session",
         UNCHANGED <<entries, inflight, call, open, closes>>
  PROVE  McpInv'
<1>0. owner \in [Calls -> McpOwner]
  BY DEF McpInv, McpTypeOK, McpOwner
<1>1. owner'[c] = o /\ \A x \in Calls : x # c => owner'[x] = owner[x]
  BY <1>0
<1>2. owner' \in [Calls -> McpOwner]
  BY <1>0
<1>3. McpTypeOK'
  BY <1>2 DEF McpInv, McpTypeOK, McpOwner
<1>4. UNCHANGED <<Registered, entries, inflight, call, open>>
  BY DEF Registered
<1>5. \A x \in Calls : owner'[x].close = owner[x].close /\ owner'[x].cancel = owner[x].cancel
  BY <1>1
<1>6. \A x \in Calls :
         /\ owner'[x].at # "none" => owner[x].at # "none"
         /\ owner'[x].ready = "error" => owner'[x].at = "done"
         /\ owner'[x].at \in {"new", "connecting"} => owner'[x].ready = "pending"
  BY <1>1 DEF McpInv, OwnersAreCreators
<1>7. OwnersAreCreators'
  BY <1>4, <1>6 DEF McpInv, OwnersAreCreators
<1>8. RegisteredGot' /\ PendingIsGone'
  BY <1>4 DEF McpInv, RegisteredGot, PendingIsGone, Pending
<1>9. InflightIsAwaited'
  BY <1>4, <1>5 DEF McpInv, InflightIsAwaited
<1>10. Registered \subseteq Calls
  BY DEF McpInv, McpTypeOK, Registered, Members
<1>11. EntryIsLive'
  BY <1>4, <1>5, <1>10 DEF McpInv, EntryIsLive
<1>12. \A x \in Calls : Alive(x)' => Alive(x)
  BY <1>1 DEF Alive
<1>13. \A x \in Calls : Waits(x) /\ owner[x].ready = "session"
                         => Waits(x)' /\ owner'[x].ready = "session"
  BY <1>1, <1>4 DEF Waits
<1>14. NoLostOwner'
  BY <1>4, <1>5, <1>12, <1>13 DEF McpInv, NoLostOwner
<1> QED
  BY <1>3, <1>7, <1>8, <1>9, <1>11, <1>14 DEF McpInv

LEMMA OwnerSteps ==
  ASSUME McpInv, NEW c \in Calls, OwnerStarts(c) \/ OwnerConnects(c) \/ OwnerExits(c)
  PROVE  McpInv'
<1>0. owner \in [Calls -> McpOwner] /\ owner[c] \in McpOwner
  BY DEF McpInv, McpTypeOK, McpOwner
<1>1. CASE OwnerStarts(c)
  <2>1. PICK a \in {"done", "connecting"} : a = IF owner[c].cancel THEN "done" ELSE "connecting"
    OBVIOUS
  <2>2. PICK o : o = [owner[c] EXCEPT !.at = a]
    OBVIOUS
  <2>3. /\ o \in McpOwner /\ o.at = a /\ o.close = owner[c].close /\ o.cancel = owner[c].cancel
        /\ o.ready = owner[c].ready
    BY <1>0, <2>1, <2>2 DEF McpOwner
  <2>4. owner' = [owner EXCEPT ![c] = o]
    BY <1>0, <1>1, <2>1, <2>2 DEF OwnerStarts
  <2>5. owner[c].at = "new" /\ owner[c].ready = "pending" /\ Alive(c)
    BY <1>1 DEF OwnerStarts, McpInv, OwnersAreCreators, Alive
  <2>6. UNCHANGED <<entries, inflight, call, open, closes>>
    BY <1>1 DEF OwnerStarts
  <2> QED
    BY <2>3, <2>4, <2>5, <2>6, OwnerMoves
<1>2. CASE OwnerConnects(c)
  <2>1. PICK o \in McpOwner :
           /\ owner' = [owner EXCEPT ![c] = o]
           /\ o.close = owner[c].close /\ o.cancel = owner[c].cancel
           /\ \/ o.at = "serving" /\ o.ready = "session"
              \/ o.at = "done" /\ o.ready = "error"
    <3>1. PICK p : p = [owner[c] EXCEPT !.at = "serving", !.ready = "session"]
      OBVIOUS
    <3>2. PICK q : q = [owner[c] EXCEPT !.at = "done", !.ready = "error"]
      OBVIOUS
    <3>3. /\ p \in McpOwner /\ p.close = owner[c].close /\ p.cancel = owner[c].cancel
          /\ p.at = "serving" /\ p.ready = "session"
      BY <1>0, <3>1 DEF McpOwner
    <3>4. /\ q \in McpOwner /\ q.close = owner[c].close /\ q.cancel = owner[c].cancel
          /\ q.at = "done" /\ q.ready = "error"
      BY <1>0, <3>2 DEF McpOwner
    <3>5. owner' = [owner EXCEPT ![c] = p] \/ owner' = [owner EXCEPT ![c] = q]
      BY <1>0, <1>2, <3>1, <3>2 DEF OwnerConnects
    <3> QED
      BY <3>3, <3>4, <3>5
  <2>3. owner[c].at = "connecting" /\ Alive(c)
    BY <1>2 DEF OwnerConnects, Alive
  <2>4. UNCHANGED <<entries, inflight, call, open, closes>>
    BY <1>2 DEF OwnerConnects
  <2>5. owner[c].ready # "session"
    BY <2>3 DEF McpInv, OwnersAreCreators
  <2> QED
    BY <2>1, <2>3, <2>4, <2>5, OwnerMoves
<1>3. CASE OwnerExits(c)
  <2>1. PICK r \in {"pending", "session", "error"} :
           /\ r = IF owner[c].ready = "pending" THEN "error" ELSE owner[c].ready
           /\ owner[c].ready = "session" => r = "session"
    BY <1>0 DEF McpOwner
  <2>2. PICK o : o = [owner[c] EXCEPT !.at = "done", !.ready = r]
    OBVIOUS
  <2>3. /\ o \in McpOwner /\ o.at = "done" /\ o.close = owner[c].close /\ o.cancel = owner[c].cancel
        /\ o.ready = r
    BY <1>0, <2>1, <2>2 DEF McpOwner
  <2>4. owner' = [owner EXCEPT ![c] = o]
    BY <1>0, <1>3, <2>1, <2>2 DEF OwnerExits
  <2>5. owner[c].at # "none" /\ UNCHANGED <<entries, inflight, call, open, closes>>
    BY <1>3 DEF OwnerExits
  <2> QED
    BY <2>1, <2>3, <2>4, <2>5, OwnerMoves
<1> QED
  BY <1>1, <1>2, <1>3

\* The record of c, where there is one, is that of its key.
LEMMA OursDropped ==
  ASSUME McpInv, NEW c \in Calls, inflight' = DropOurs(c)
  PROVE  /\ inflight' \in [Scopes -> Calls \cup {None}]
         /\ \A k \in Scopes : inflight'[k] = IF inflight[k] = c THEN None ELSE inflight[k]
<1>1. inflight \in [Scopes -> Calls \cup {None}]
  BY DEF McpInv, McpTypeOK
<1>2. \A k \in Scopes : inflight[k] = c => call[c].key = k
  BY DEF McpInv, InflightIsAwaited
<1>3. PICK v : v = IF inflight[call[c].key] = c THEN None ELSE inflight[call[c].key]
  OBVIOUS
<1>4. inflight' = [inflight EXCEPT ![call[c].key] = v]
  BY <1>3 DEF DropOurs
<1>5. CASE call[c].key \in Scopes
  BY <1>1, <1>2, <1>3, <1>4, <1>5
<1>6. CASE call[c].key \notin Scopes
  BY <1>1, <1>2, <1>4, <1>6
<1> QED
  BY <1>5, <1>6

\* A call without a live owner ends, and with it its record.
LEMMA CallEnds ==
  ASSUME McpInv, NEW c \in Calls, NEW v \in {"got", "raised"},
         call[c].at \in {"wait", "unwind"},
         call' = [call EXCEPT ![c].at = v],
         inflight' \in [Scopes -> Calls \cup {None}],
         \A k \in Scopes : inflight'[k] = IF inflight[k] = c THEN None ELSE inflight[k],
         owner[c].at \in {"none", "done"},
         UNCHANGED <<entries, owner, open, closes>>
  PROVE  McpInv'
<1>0. call \in [Calls -> McpCall] /\ call[c] \in McpCall
  BY DEF McpInv, McpTypeOK, McpCall
<1>1. PICK d : d = [call[c] EXCEPT !.at = v]
  OBVIOUS
<1>2. /\ d \in McpCall /\ d.at = v /\ d.key = call[c].key /\ d.loop = call[c].loop
      /\ d.evicted = call[c].evicted /\ d.on = call[c].on
  BY <1>0, <1>1 DEF McpCall
<1>3. call' = [call EXCEPT ![c] = d]
  BY <1>0, <1>1
<1>4. /\ call' \in [Calls -> McpCall] /\ call'[c] = d
      /\ \A x \in Calls : x # c => call'[x] = call[x]
  BY <1>0, <1>2, <1>3
<1>5. \A x \in Calls :
         /\ call'[x].evicted = call[x].evicted /\ call'[x].loop = call[x].loop
         /\ call'[x].on = call[x].on /\ call'[x].key = call[x].key
         /\ call'[x].at = "idle" <=> call[x].at = "idle"
  BY <1>2, <1>4
<1>6. UNCHANGED <<Registered, owner, open>>
  BY DEF Registered
<1>7. McpTypeOK'
  BY <1>4 DEF McpInv, McpTypeOK, McpCall
<1>8. OwnersAreCreators'
  BY <1>5, <1>6 DEF McpInv, OwnersAreCreators
<1>9. \A x \in Registered : x \in Calls /\ x # c
  BY DEF McpInv, McpTypeOK, Registered, Members, RegisteredGot
<1>10. RegisteredGot' /\ EntryIsLive'
  BY <1>4, <1>6, <1>9 DEF McpInv, RegisteredGot, EntryIsLive
<1>11. \A k \in Scopes, x \in Calls : inflight'[k] = x => inflight[k] = x /\ x # c
  BY McpAssumption DEF McpAssumption
<1>12. InflightIsAwaited'
  BY <1>4, <1>6, <1>11 DEF McpInv, InflightIsAwaited
<1>13. \A x \in Calls : Pending(x)' <=> Pending(x)
  BY <1>5 DEF Pending
<1>14. PendingIsGone'
  BY <1>5, <1>6, <1>11, <1>13 DEF McpInv, PendingIsGone
<1>15. ASSUME NEW x \in Calls, Alive(x)', ~owner'[x].close, ~owner'[x].cancel
       PROVE  x \in Registered' \/ (\E k \in Scopes : inflight'[k] = x) \/ Pending(x)'
                \/ (Waits(x)' /\ owner'[x].ready = "session")
  <2>1. x # c /\ Alive(x) /\ ~owner[x].close /\ ~owner[x].cancel
    BY <1>6, <1>15 DEF Alive
  <2>2. x \in Registered \/ (\E k \in Scopes : inflight[k] = x) \/ Pending(x)
          \/ (Waits(x) /\ owner[x].ready = "session")
    BY <2>1 DEF McpInv, NoLostOwner, Pending
  <2>3. Waits(x)' <=> Waits(x)
    BY <1>4, <2>1 DEF Waits
  <2> QED
    BY <1>6, <1>13, <2>1, <2>2, <2>3
<1>16. NoLostOwner'
  BY <1>15 DEF NoLostOwner, Pending
<1> QED
  BY <1>7, <1>8, <1>10, <1>12, <1>14, <1>16 DEF McpInv

LEMMA CallEndsSteps ==
  ASSUME McpInv, NEW c \in Calls, Joined(c) \/ CreationFails(c) \/ Unwound(c)
  PROVE  McpInv'
<1>0. inflight \in [Scopes -> Calls \cup {None}]
  BY DEF McpInv, McpTypeOK
<1>1. CASE Joined(c)
  <2>1. PICK v \in {"got", "raised"} : call' = [call EXCEPT ![c].at = v]
    <3>1. PICK v \in {"got", "raised"} :
             v = IF owner[call[c].on].ready = "session" THEN "got" ELSE "raised"
      OBVIOUS
    <3> QED
      BY <1>1, <3>1 DEF Joined
  <2>2. /\ call[c].at = "wait" /\ call[c].on # c
        /\ UNCHANGED <<entries, inflight, owner, open, closes>>
    BY <1>1 DEF Joined, Waits
  <2>3. owner[c].at = "none" /\ \A k \in Scopes : inflight[k] # c
    BY <2>2 DEF McpInv, OwnersAreCreators, InflightIsAwaited
  <2> QED
    BY <1>0, <2>1, <2>2, <2>3, CallEnds
<1>2. CASE CreationFails(c)
  <2>1. /\ call[c].at = "wait" /\ owner[c].ready = "error" /\ inflight' = DropOurs(c)
        /\ call' = [call EXCEPT ![c].at = "raised"]
        /\ UNCHANGED <<entries, owner, open, closes>>
    BY <1>2 DEF CreationFails, Waits
  <2>2. owner[c].at = "done"
    BY <2>1 DEF McpInv, OwnersAreCreators
  <2> QED
    BY <2>1, <2>2, OursDropped, CallEnds
<1>3. CASE Unwound(c)
  <2>1. /\ call[c].at = "unwind" /\ owner[c].at = "done" /\ inflight' = DropOurs(c)
        /\ call' = [call EXCEPT ![c].at = "raised"]
        /\ UNCHANGED <<entries, owner, open, closes>>
    BY <1>3 DEF Unwound
  <2> QED
    BY <2>1, OursDropped, CallEnds
<1> QED
  BY <1>1, <1>2, <1>3

\* A waiting call tells its own owner to stop, and waits for that or raises.
LEMMA CallSignals ==
  ASSUME McpInv, NEW c \in Calls, NEW v \in {"unwind", "raised"}, NEW b \in BOOLEAN,
         call[c].at = "wait",
         call' = [call EXCEPT ![c].at = v], owner' = Signalled(c, b),
         v = "raised" => \A k \in Scopes : inflight[k] # c,
         UNCHANGED <<entries, inflight, open, closes>>
  PROVE  McpInv'
<1>0. call \in [Calls -> McpCall] /\ call[c] \in McpCall
  BY DEF McpInv, McpTypeOK, McpCall
<1>1. PICK d : d = [call[c] EXCEPT !.at = v]
  OBVIOUS
<1>2. /\ d \in McpCall /\ d.at = v /\ d.key = call[c].key /\ d.loop = call[c].loop
      /\ d.evicted = call[c].evicted /\ d.on = call[c].on
  BY <1>0, <1>1 DEF McpCall
<1>3. call' = [call EXCEPT ![c] = d]
  BY <1>0, <1>1
<1>4. /\ call' \in [Calls -> McpCall] /\ call'[c] = d
      /\ \A x \in Calls : x # c => call'[x] = call[x]
  BY <1>0, <1>2, <1>3
<1>5. \A x \in Calls :
         /\ call'[x].evicted = call[x].evicted /\ call'[x].loop = call[x].loop
         /\ call'[x].on = call[x].on /\ call'[x].key = call[x].key
         /\ call'[x].at = "idle" <=> call[x].at = "idle"
  BY <1>2, <1>4
<1>6. UNCHANGED <<Registered, inflight, open>>
  BY DEF Registered
<1>7. /\ owner' \in [Calls -> McpOwner]
      /\ \A x \in Calls : x # c => owner'[x] = owner[x]
      /\ owner'[c].at = owner[c].at /\ owner'[c].ready = owner[c].ready /\ owner'[c].close
  BY SignalledOwner
<1>8. McpTypeOK'
  BY <1>4, <1>7 DEF McpInv, McpTypeOK, McpCall, McpOwner
<1>9. \A x \in Calls : owner'[x].at = owner[x].at /\ owner'[x].ready = owner[x].ready
  BY <1>7
<1>10. OwnersAreCreators'
  BY <1>5, <1>9 DEF McpInv, OwnersAreCreators
<1>11. \A x \in Registered : x \in Calls /\ x # c
  BY DEF McpInv, McpTypeOK, Registered, Members, RegisteredGot
<1>12. RegisteredGot' /\ EntryIsLive'
  BY <1>4, <1>6, <1>7, <1>11 DEF McpInv, RegisteredGot, EntryIsLive
<1>13. InflightIsAwaited'
  <2> SUFFICES ASSUME NEW k \in Scopes, NEW x \in Calls, inflight'[k] = x
               PROVE  /\ call'[x].key = k /\ call'[x].on = x /\ call'[x].at \in {"wait", "unwind"}
                      /\ call'[x].at = "wait" => ~owner'[x].close /\ ~owner'[x].cancel
    BY DEF InflightIsAwaited
  <2>1. /\ call[x].key = k /\ call[x].on = x /\ call[x].at \in {"wait", "unwind"}
        /\ call[x].at = "wait" => ~owner[x].close /\ ~owner[x].cancel
    BY DEF McpInv, InflightIsAwaited
  <2>2. CASE x = c
    BY <1>2, <1>4, <2>1, <2>2
  <2>3. CASE x # c
    BY <1>4, <1>7, <2>1, <2>3
  <2> QED
    BY <2>2, <2>3
<1>14. \A x \in Calls : Pending(x)' <=> Pending(x)
  BY <1>5 DEF Pending
<1>15. PendingIsGone'
  BY <1>5, <1>6, <1>14 DEF McpInv, PendingIsGone
<1>16. ASSUME NEW x \in Calls, Alive(x)', ~owner'[x].close, ~owner'[x].cancel
       PROVE  x \in Registered' \/ (\E k \in Scopes : inflight'[k] = x) \/ Pending(x)'
                \/ (Waits(x)' /\ owner'[x].ready = "session")
  <2>1. x # c
    BY <1>7, <1>16
  <2>2. Alive(x) /\ ~owner[x].close /\ ~owner[x].cancel
    BY <1>7, <1>16, <2>1 DEF Alive
  <2>3. x \in Registered \/ (\E k \in Scopes : inflight[k] = x) \/ Pending(x)
          \/ (Waits(x) /\ owner[x].ready = "session")
    BY <2>2 DEF McpInv, NoLostOwner, Pending
  <2>4. Waits(x)' <=> Waits(x)
    BY <1>4, <2>1 DEF Waits
  <2> QED
    BY <1>6, <1>9, <1>14, <2>3, <2>4
<1>17. NoLostOwner'
  BY <1>16 DEF NoLostOwner, Pending
<1> QED
  BY <1>8, <1>10, <1>12, <1>13, <1>15, <1>17 DEF McpInv

LEMMA CancelStep ==
  ASSUME McpInv, NEW c \in Calls, Cancel(c)
  PROVE  McpInv'
<1>1. call[c].at = "wait" /\ UNCHANGED <<entries, inflight, open, closes>>
  BY DEF Cancel, Waits
<1>2. CASE call[c].on = c
  <2>1. owner' = Signalled(c, TRUE) /\ call' = [call EXCEPT ![c].at = "unwind"]
    BY <1>2 DEF Cancel
  <2> QED
    BY <1>1, <2>1, CallSignals
<1>3. CASE call[c].on # c
  <2>1. UNCHANGED owner /\ call' = [call EXCEPT ![c].at = "raised"]
    BY <1>3 DEF Cancel
  <2>2. owner[c].at = "none" /\ \A k \in Scopes : inflight[k] # c
    BY <1>3 DEF McpInv, OwnersAreCreators, InflightIsAwaited
  <2>3. inflight \in [Scopes -> Calls \cup {None}]
    BY DEF McpInv, McpTypeOK
  <2> QED
    BY <1>1, <2>1, <2>2, <2>3, CallEnds
<1> QED
  BY <1>2, <1>3

LEMMA PromoteStep ==
  ASSUME McpInv, NEW c \in Calls, Promote(c)
  PROVE  McpInv'
<1>0. call \in [Calls -> McpCall] /\ call[c] \in McpCall
  BY DEF McpInv, McpTypeOK, McpCall
<1>1. Waits(c) /\ call[c].at = "wait" /\ call[c].on = c /\ owner[c].ready = "session"
      /\ UNCHANGED <<open, closes>>
  BY DEF Promote, Waits
<1>2. CASE inflight[call[c].key] # c
  <2>1. \A k \in Scopes : inflight[k] # c
    BY <1>2 DEF McpInv, InflightIsAwaited
  <2>2. /\ owner' = Signalled(c, FALSE) /\ call' = [call EXCEPT ![c].at = "raised"]
        /\ UNCHANGED <<entries, inflight>>
    BY <1>2 DEF Promote
  <2> QED
    BY <1>1, <2>1, <2>2, CallSignals
<1>3. CASE inflight[call[c].key] = c
  <2>1. /\ entries' = Append(entries, c) /\ inflight' = DropOurs(c)
        /\ call' = [call EXCEPT ![c].at = "got"] /\ UNCHANGED owner
    BY <1>3 DEF Promote
  <2>2. /\ inflight' \in [Scopes -> Calls \cup {None}]
        /\ \A k \in Scopes : inflight'[k] = IF inflight[k] = c THEN None ELSE inflight[k]
    BY <2>1, OursDropped
  <2>3. entries' \in Seq(Calls) /\ Registered' = Registered \cup {c}
    <3>1. entries \in Seq(Calls)
      BY DEF McpInv, McpTypeOK
    <3> QED
      BY <2>1, <3>1, AppendAdds DEF Registered
  <2>4. PICK d : d = [call[c] EXCEPT !.at = "got"]
    OBVIOUS
  <2>5. /\ d \in McpCall /\ d.at = "got" /\ d.key = call[c].key /\ d.loop = call[c].loop
        /\ d.evicted = call[c].evicted /\ d.on = call[c].on
    BY <1>0, <2>4 DEF McpCall
  <2>6. call' = [call EXCEPT ![c] = d]
    BY <1>0, <2>1, <2>4
  <2>7. /\ call' \in [Calls -> McpCall] /\ call'[c] = d
        /\ \A x \in Calls : x # c => call'[x] = call[x]
    BY <1>0, <2>5, <2>6
  <2>8. \A x \in Calls :
           /\ call'[x].evicted = call[x].evicted /\ call'[x].loop = call[x].loop
           /\ call'[x].on = call[x].on /\ call'[x].key = call[x].key
           /\ call'[x].at = "idle" <=> call[x].at = "idle"
    BY <1>1, <2>5, <2>7
  <2>9. McpTypeOK'
    BY <1>1, <2>1, <2>2, <2>3, <2>7 DEF McpInv, McpTypeOK, McpCall
  <2>10. OwnersAreCreators'
    BY <2>1, <2>8 DEF McpInv, OwnersAreCreators
  <2>11. Registered \subseteq Calls
    BY DEF McpInv, McpTypeOK, Registered, Members
  <2>12. RegisteredGot'
    BY <2>3, <2>5, <2>7, <2>11 DEF McpInv, RegisteredGot
  <2>13. PICK k \in Scopes : inflight[k] = c
    <3>1. call[c].key \in Scopes
      BY <1>1 DEF McpInv, OwnersAreCreators
    <3> QED
      BY <1>3, <3>1
  <2>14. ~owner[c].close /\ ~owner[c].cancel
    BY <1>1, <2>13 DEF McpInv, InflightIsAwaited
  <2>15. EntryIsLive'
    BY <1>1, <2>1, <2>3, <2>8, <2>11, <2>14 DEF McpInv, EntryIsLive
  <2>16. \A j \in Scopes, x \in Calls : inflight'[j] = x => inflight[j] = x /\ x # c
    BY <2>2, McpAssumption DEF McpAssumption
  <2>17. InflightIsAwaited'
    BY <2>1, <2>7, <2>16 DEF McpInv, InflightIsAwaited
  <2>18. \A x \in Calls : Pending(x)' <=> Pending(x)
    BY <2>8 DEF Pending
  <2>19. PendingIsGone'
    BY <2>3, <2>8, <2>13, <2>16, <2>18 DEF McpInv, PendingIsGone
  <2>20. ASSUME NEW x \in Calls, Alive(x)', ~owner'[x].close, ~owner'[x].cancel
         PROVE  x \in Registered' \/ (\E j \in Scopes : inflight'[j] = x) \/ Pending(x)'
                  \/ (Waits(x)' /\ owner'[x].ready = "session")
    <3>1. CASE x = c
      BY <2>3, <3>1
    <3>2. CASE x # c
      <4>1. Alive(x) /\ ~owner[x].close /\ ~owner[x].cancel
        BY <2>1, <2>20 DEF Alive
      <4>2. x \in Registered \/ (\E j \in Scopes : inflight[j] = x) \/ Pending(x)
              \/ (Waits(x) /\ owner[x].ready = "session")
        BY <4>1 DEF McpInv, NoLostOwner, Pending
      <4>3. Waits(x)' <=> Waits(x)
        BY <2>7, <3>2 DEF Waits
      <4> QED
        BY <2>1, <2>2, <2>3, <2>18, <3>2, <4>2, <4>3
    <3> QED
      BY <3>1, <3>2
  <2>21. NoLostOwner'
    BY <2>20 DEF NoLostOwner, Pending
  <2> QED
    BY <2>9, <2>10, <2>12, <2>15, <2>17, <2>19, <2>21 DEF McpInv
<1> QED
  BY <1>2, <1>3

LEMMA EvictStep ==
  ASSUME McpInv, NEW c \in Calls, Evict(c)
  PROVE  McpInv'
<1>0. /\ call \in [Calls -> McpCall] /\ call[c] \in McpCall
      /\ call[c].evicted \subseteq Calls \X BOOLEAN
  BY DEF McpInv, McpTypeOK, McpCall
<1>1. PICK z \in call[c].evicted :
         /\ owner' = Signalled(z[1], z[2])
         /\ call' = [call EXCEPT ![c].evicted = @ \ {z}]
  BY DEF Evict
<1>2. PICK e \in Calls, b \in BOOLEAN : z = <<e, b>>
  BY <1>0
<1>3. UNCHANGED <<Registered, entries, inflight, open, closes>>
  BY DEF Evict, Registered
<1>4. PICK s : s = call[c].evicted \ {z}
  OBVIOUS
<1>5. PICK d : d = [call[c] EXCEPT !.evicted = s]
  OBVIOUS
<1>6. /\ d \in McpCall /\ d.at = call[c].at /\ d.key = call[c].key /\ d.loop = call[c].loop
      /\ d.evicted = s /\ d.on = call[c].on
  BY <1>0, <1>4, <1>5 DEF McpCall
<1>7. call' = [call EXCEPT ![c] = d]
  BY <1>0, <1>1, <1>4, <1>5
<1>8. /\ call' \in [Calls -> McpCall] /\ call'[c] = d
      /\ \A x \in Calls : x # c => call'[x] = call[x]
  BY <1>0, <1>6, <1>7
<1>9. \A x \in Calls :
         /\ call'[x].at = call[x].at /\ call'[x].loop = call[x].loop
         /\ call'[x].on = call[x].on /\ call'[x].key = call[x].key
         /\ call'[x].evicted \subseteq call[x].evicted
  BY <1>4, <1>6, <1>8
<1>10. owner' = Signalled(e, b)
  BY <1>1, <1>2
<1>11. /\ owner' \in [Calls -> McpOwner]
       /\ \A x \in Calls : x # e => owner'[x] = owner[x]
       /\ owner'[e].at = owner[e].at /\ owner'[e].ready = owner[e].ready /\ owner'[e].close
  BY <1>10, SignalledOwner
<1>12. McpTypeOK'
  BY <1>3, <1>8, <1>11 DEF McpInv, McpTypeOK, McpCall, McpOwner
<1>13. \A x \in Calls : owner'[x].at = owner[x].at /\ owner'[x].ready = owner[x].ready
  BY <1>11
<1>14. OwnersAreCreators'
  BY <1>9, <1>13 DEF McpInv, OwnersAreCreators
<1>15. Pending(e)
  BY <1>2 DEF Pending
<1>16. e \notin Registered /\ \A k \in Scopes : inflight[k] # e
  BY <1>15 DEF McpInv, PendingIsGone
<1>17. Registered \subseteq Calls
  BY DEF McpInv, McpTypeOK, Registered, Members
<1>18. RegisteredGot' /\ EntryIsLive'
  <2>1. RegisteredGot'
    BY <1>3, <1>9, <1>17 DEF McpInv, RegisteredGot
  <2>2. \A x \in Registered : owner'[x] = owner[x] /\ call'[x].loop = call[x].loop
    BY <1>9, <1>11, <1>16, <1>17
  <2>3. EntryIsLive'
    BY <1>3, <2>2 DEF McpInv, EntryIsLive
  <2> QED
    BY <2>1, <2>3
<1>19. InflightIsAwaited'
  BY <1>3, <1>9, <1>11, <1>16 DEF McpInv, InflightIsAwaited
<1>20. \A x \in Calls : Pending(x)' => Pending(x)
  BY <1>9 DEF Pending
<1>21. PendingIsGone'
  BY <1>3, <1>9, <1>20 DEF McpInv, PendingIsGone
<1>22. ASSUME NEW x \in Calls, Alive(x)', ~owner'[x].close, ~owner'[x].cancel
       PROVE  x \in Registered' \/ (\E k \in Scopes : inflight'[k] = x) \/ Pending(x)'
                \/ (Waits(x)' /\ owner'[x].ready = "session")
  <2>1. x # e
    BY <1>11, <1>22
  <2>2. Alive(x) /\ ~owner[x].close /\ ~owner[x].cancel
    BY <1>11, <1>22, <2>1 DEF Alive
  <2>3. x \in Registered \/ (\E k \in Scopes : inflight[k] = x) \/ Pending(x)
          \/ (Waits(x) /\ owner[x].ready = "session")
    BY <2>2 DEF McpInv, NoLostOwner, Pending
  <2>4. Pending(x) => Pending(x)'
    <3>1. \A y \in Calls, a \in BOOLEAN : <<x, a>> \in call[y].evicted => <<x, a>> \in call'[y].evicted
      BY <1>2, <1>4, <1>6, <1>8, <2>1
    <3> QED
      BY <3>1 DEF Pending
  <2>5. Waits(x) => Waits(x)'
    BY <1>4, <1>6, <1>8 DEF Waits
  <2> QED
    BY <1>3, <1>13, <2>3, <2>4, <2>5
<1>23. NoLostOwner'
  BY <1>22 DEF NoLostOwner, Pending
<1> QED
  BY <1>12, <1>14, <1>18, <1>19, <1>21, <1>23 DEF McpInv

LEMMA HitStep ==
  ASSUME McpInv, NEW c \in Calls, NEW k \in Scopes, NEW l \in Loops, Hit(c, k, l)
  PROVE  McpInv'
<1>0. call \in [Calls -> McpCall] /\ entries \in Seq(Calls)
  BY DEF McpInv, McpTypeOK, McpCall
<1>1. PICK e \in Entry(k) :
         /\ entries' = Append(Kept(entries, Calls \ {e}), e)
         /\ call' = [call EXCEPT ![c] = [NoCall EXCEPT !.at = "got", !.key = k, !.loop = l, !.on = e]]
  BY DEF Hit
<1>2. call[c].at = "idle" /\ UNCHANGED <<inflight, owner, open, closes>>
  BY DEF Hit
<1>3. e \in Registered /\ Registered \subseteq Calls /\ e \in Calls
  BY DEF McpInv, McpTypeOK, Registered, Members, Entry
<1>4. entries' \in Seq(Calls) /\ Registered' = Registered
  <2>1. /\ Kept(entries, Calls \ {e}) \in Seq(Calls)
        /\ Members(Kept(entries, Calls \ {e})) = Registered \cap (Calls \ {e})
    BY <1>0, KeptProperties DEF Registered
  <2>2. PICK t \in Seq(Calls) : t = Kept(entries, Calls \ {e})
    BY <2>1
  <2>3. Append(t, e) \in Seq(Calls) /\ Members(Append(t, e)) = Members(t) \cup {e}
    BY <1>3, AppendAdds
  <2>4. entries' \in Seq(Calls) /\ Members(entries') = Members(t) \cup {e}
    BY <1>1, <2>2, <2>3
  <2>5. Registered' = Members(entries')
    BY DEF Registered
  <2>6. Members(t) = Registered \cap (Calls \ {e})
    BY <2>1, <2>2
  <2> QED
    BY <1>3, <2>4, <2>5, <2>6
<1>5. PICK d : d = [NoCall EXCEPT !.at = "got", !.key = k, !.loop = l, !.on = e]
  OBVIOUS
<1>6. d \in McpCall /\ d.at = "got" /\ d.evicted = {} /\ d.key = k
  <2>1. NoCall \in McpCall /\ NoCall.evicted = {}
    BY DEF NoCall, McpCall
  <2> QED
    BY <1>3, <1>5, <2>1 DEF McpCall
<1>7. call' = [call EXCEPT ![c] = d]
  BY <1>1, <1>5
<1>8. /\ call' \in [Calls -> McpCall] /\ call'[c] = d
      /\ \A x \in Calls : x # c => call'[x] = call[x]
  BY <1>0, <1>6, <1>7
<1>9. call[c].evicted = {} /\ owner[c].at = "none"
  BY <1>2 DEF McpInv, OwnersAreCreators
<1>10. \A x \in Calls : call'[x].evicted = call[x].evicted
  BY <1>6, <1>8, <1>9
<1>11. McpTypeOK'
  BY <1>2, <1>4, <1>8 DEF McpInv, McpTypeOK, McpCall
<1>12. OwnersAreCreators'
  BY <1>2, <1>6, <1>8, <1>9 DEF McpInv, OwnersAreCreators
<1>13. c \notin Registered /\ \A j \in Scopes : inflight[j] # c
  BY <1>2 DEF McpInv, RegisteredGot, InflightIsAwaited
<1>14. RegisteredGot' /\ EntryIsLive'
  <2>1. \A x \in Registered : x \in Calls /\ call'[x] = call[x]
    BY <1>3, <1>8, <1>13
  <2> QED
    BY <1>2, <1>4, <2>1 DEF McpInv, RegisteredGot, EntryIsLive
<1>15. InflightIsAwaited'
  BY <1>2, <1>8, <1>13 DEF McpInv, InflightIsAwaited
<1>16. \A x \in Calls : Pending(x)' <=> Pending(x)
  BY <1>10 DEF Pending
<1>17. \A x \in Calls : call'[x].at = "idle" => call[x].at = "idle"
  BY <1>6, <1>8
<1>18. PendingIsGone'
  BY <1>2, <1>4, <1>16, <1>17 DEF McpInv, PendingIsGone
<1>19. ASSUME NEW x \in Calls, Alive(x)', ~owner'[x].close, ~owner'[x].cancel
       PROVE  x \in Registered' \/ (\E j \in Scopes : inflight'[j] = x) \/ Pending(x)'
                \/ (Waits(x)' /\ owner'[x].ready = "session")
  <2>1. Alive(x) /\ ~owner[x].close /\ ~owner[x].cancel /\ x # c
    BY <1>2, <1>9, <1>19 DEF Alive
  <2>2. x \in Registered \/ (\E j \in Scopes : inflight[j] = x) \/ Pending(x)
          \/ (Waits(x) /\ owner[x].ready = "session")
    BY <2>1 DEF McpInv, NoLostOwner, Pending
  <2>3. Waits(x)' <=> Waits(x)
    BY <1>8, <2>1 DEF Waits
  <2> QED
    BY <1>2, <1>4, <1>16, <2>2, <2>3
<1>20. NoLostOwner'
  BY <1>19 DEF NoLostOwner, Pending
<1> QED
  BY <1>11, <1>12, <1>14, <1>15, <1>18, <1>20 DEF McpInv

LEMMA MissStep ==
  ASSUME McpInv, NEW c \in Calls, NEW k \in Scopes, NEW l \in Loops, Miss(c, k, l)
  PROVE  McpInv'
<1> DEFINE i == inflight[k]
           joins == i # None /\ call[i].loop = l
           rest == Kept(entries, Calls \ Entry(k))
           old == Oldest(rest)
           gone == Entry(k) \cup old
           over == IF i # None /\ ~joins THEN {<<i, TRUE>>} ELSE {}
           out == {<<e, FALSE>> : e \in gone} \cup over
<1>0. /\ call \in [Calls -> McpCall] /\ entries \in Seq(Calls)
      /\ inflight \in [Scopes -> Calls \cup {None}] /\ owner \in [Calls -> McpOwner]
      /\ i \in Calls \cup {None}
  BY DEF McpInv, McpTypeOK, McpCall, McpOwner
<1>1. /\ call[c].at = "idle"
      /\ entries' = Kept(rest, Calls \ old)
      /\ call' = [call EXCEPT ![c] = [at |-> "wait", key |-> k, loop |-> l, evicted |-> out,
                                      on |-> IF joins THEN i ELSE c]]
      /\ UNCHANGED <<open, closes>>
  BY DEF Miss
<1>2. \/ joins /\ UNCHANGED <<inflight, owner>>
      \/ /\ ~joins
         /\ inflight' = [inflight EXCEPT ![k] = c]
         /\ owner' = [owner EXCEPT ![c] = NewOwner]
  BY DEF Miss
<1>3. Registered \subseteq Calls /\ Entry(k) \subseteq Registered
  BY DEF McpInv, McpTypeOK, Registered, Members, Entry
<1>4. /\ entries' \in Seq(Calls) /\ Registered' = Registered \ gone
      /\ gone \subseteq Registered
  <2>1. rest \in Seq(Calls) /\ Members(rest) = Registered \cap (Calls \ Entry(k))
    BY <1>0, KeptProperties DEF Registered
  <2>2. old \subseteq Members(rest)
    <3>1. CASE Len(rest) < MaxSessions
      BY <3>1 DEF Oldest
    <3>2. CASE ~(Len(rest) < MaxSessions)
      <4>1. Len(rest) \in Nat /\ MaxSessions \in Nat \ {0}
        BY <2>1, McpAssumption DEF McpAssumption
      <4>2. Len(rest) - MaxSessions + 1 <= Len(rest)
        BY <4>1
      <4>3. \A n \in 1 .. Len(rest) - MaxSessions + 1 : n \in 1 .. Len(rest)
        BY <3>2, <4>1, <4>2
      <4>4. old = {rest[n] : n \in 1 .. Len(rest) - MaxSessions + 1}
        BY <3>2 DEF Oldest
      <4> HIDE DEF old, rest
      <4> QED
        BY <4>3, <4>4 DEF Members
    <3> QED
      BY <3>1, <3>2
  <2> HIDE DEF rest, old
  <2>3. /\ Kept(rest, Calls \ old) \in Seq(Calls)
        /\ Members(Kept(rest, Calls \ old)) = Members(rest) \cap (Calls \ old)
    BY <2>1, KeptProperties
  <2>4. Registered' = Members(entries')
    BY DEF Registered
  <2> QED
    BY <1>1, <1>3, <2>1, <2>2, <2>3, <2>4
<1> HIDE DEF rest, old, gone
<1>5. over \subseteq Calls \X BOOLEAN
  <2>1. CASE i # None /\ ~joins
    <3>1. i \in Calls
      BY <1>0, <2>1
    <3>2. over = {<<i, TRUE>>}
      BY <2>1
    <3>3. TRUE \in BOOLEAN
      OBVIOUS
    <3> HIDE DEF over, i, joins
    <3>4. <<i, TRUE>> \in Calls \X BOOLEAN
      BY <3>1, <3>3
    <3> QED
      BY <3>2, <3>4
  <2>2. CASE ~(i # None /\ ~joins)
    BY <2>2
  <2> QED
    BY <2>1, <2>2
<1>6. out \subseteq Calls \X BOOLEAN
  <2>1. gone \subseteq Calls
    BY <1>3, <1>4
  <2>2. \A e \in gone : <<e, FALSE>> \in Calls \X BOOLEAN
    BY <2>1
  <2> HIDE DEF over
  <2> QED
    BY <1>5, <2>2
<1>7. \A x \in Calls, b \in BOOLEAN :
         <<x, b>> \in out <=> (x \in gone /\ b = FALSE) \/ (x = i /\ ~joins /\ b = TRUE)
  <2>1. \A x \in Calls, b \in BOOLEAN :
           <<x, b>> \in {<<e, FALSE>> : e \in gone} <=> (x \in gone /\ b = FALSE)
    OBVIOUS
  <2>2. \A x \in Calls, b \in BOOLEAN : <<x, b>> \in over <=> (x = i /\ ~joins /\ b = TRUE)
    BY <1>0, McpAssumption DEF McpAssumption
  <2> HIDE DEF over, joins, i
  <2> QED
    BY <2>1, <2>2
<1> HIDE DEF out, over
<1>8. PICK w \in Calls : w = IF joins THEN i ELSE c
  BY <1>0
<1>9. PICK d : d = [at |-> "wait", key |-> k, loop |-> l, evicted |-> out, on |-> w]
  OBVIOUS
<1>10. /\ d \in McpCall /\ d.at = "wait" /\ d.key = k /\ d.loop = l /\ d.evicted = out /\ d.on = w
  BY <1>6, <1>9 DEF McpCall
<1>11. call' = [call EXCEPT ![c] = d]
  BY <1>1, <1>8, <1>9
<1>12. /\ call' \in [Calls -> McpCall] /\ call'[c] = d
       /\ \A x \in Calls : x # c => call'[x] = call[x]
  BY <1>0, <1>10, <1>11
<1>13. call[c].evicted = {} /\ owner[c].at = "none"
  BY <1>1 DEF McpInv, OwnersAreCreators
<1>14. c \notin Registered /\ ~Pending(c) /\ \A j \in Scopes : inflight[j] # c
  BY <1>1 DEF McpInv, RegisteredGot, InflightIsAwaited, PendingIsGone
<1>15. /\ owner' \in [Calls -> McpOwner] /\ \A x \in Calls : x # c => owner'[x] = owner[x]
       /\ joins => owner'[c].at = "none" /\ owner'[c].ready = owner[c].ready
       /\ ~joins => owner'[c] = NewOwner
  <2>1. NewOwner \in McpOwner
    BY DEF NewOwner, NoOwner, McpOwner
  <2> HIDE DEF joins
  <2> QED
    BY <1>0, <1>2, <1>13, <2>1
<1>16. /\ NewOwner.ready = "pending" /\ NewOwner.at = "new"
       /\ NewOwner.close = FALSE /\ NewOwner.cancel = FALSE
  BY DEF NewOwner, NoOwner
<1>17. /\ inflight' \in [Scopes -> Calls \cup {None}]
       /\ \A j \in Scopes : inflight'[j] = IF j = k /\ ~joins THEN c ELSE inflight[j]
  <2> HIDE DEF joins
  <2> QED
    BY <1>0, <1>2
<1> HIDE DEF joins
<1>18. McpTypeOK'
  BY <1>1, <1>4, <1>12, <1>15, <1>17 DEF McpInv, McpTypeOK, McpCall, McpOwner
<1>19. OwnersAreCreators'
  <2> SUFFICES ASSUME NEW x \in Calls
               PROVE  /\ owner'[x].at # "none" => call'[x].at # "idle" /\ call'[x].on = x
                      /\ owner'[x].ready = "error" => owner'[x].at = "done"
                      /\ owner'[x].at \in {"new", "connecting"} => owner'[x].ready = "pending"
                      /\ call'[x].at = "idle" => call'[x].evicted = {}
                      /\ call'[x].at # "idle" => call'[x].key \in Scopes
    BY DEF OwnersAreCreators
  <2>1. CASE x # c
    BY <1>12, <1>15, <2>1 DEF McpInv, OwnersAreCreators
  <2>2. CASE x = c /\ joins
    <3>1. owner[c].ready # "error"
      BY <1>13 DEF McpInv, OwnersAreCreators
    <3> QED
      BY <1>10, <1>12, <1>15, <2>2, <3>1
  <2>3. CASE x = c /\ ~joins
    BY <1>8, <1>10, <1>12, <1>15, <1>16, <2>3
  <2> QED
    BY <2>1, <2>2, <2>3
<1>20. \A x \in Registered' : x \in Registered /\ x \in Calls /\ x # c
  BY <1>3, <1>4, <1>14
<1>21. RegisteredGot' /\ EntryIsLive'
  <2>1. \A x \in Registered' : x \in Registered /\ call'[x] = call[x] /\ owner'[x] = owner[x]
    BY <1>12, <1>15, <1>20
  <2> QED
    BY <1>1, <2>1 DEF McpInv, RegisteredGot, EntryIsLive
<1>22. InflightIsAwaited'
  <2> SUFFICES ASSUME NEW j \in Scopes, NEW x \in Calls, inflight'[j] = x
               PROVE  /\ call'[x].key = j /\ call'[x].on = x /\ call'[x].at \in {"wait", "unwind"}
                      /\ call'[x].at = "wait" => ~owner'[x].close /\ ~owner'[x].cancel
    BY DEF InflightIsAwaited
  <2>1. CASE j = k /\ ~joins
    BY <1>8, <1>10, <1>12, <1>15, <1>16, <1>17, <2>1
  <2>2. CASE ~(j = k /\ ~joins)
    <3>1. inflight[j] = x /\ x # c
      BY <1>14, <1>17, <2>2
    <3> QED
      BY <1>12, <1>15, <3>1 DEF McpInv, InflightIsAwaited
  <2> QED
    BY <2>1, <2>2
<1>23. \A x \in Calls : Pending(x)' <=> Pending(x) \/ x \in gone \/ (x = i /\ ~joins)
  <2>1. ASSUME NEW x \in Calls, NEW y \in Calls, NEW b \in BOOLEAN
        PROVE  <<x, b>> \in call'[y].evicted <=>
                 <<x, b>> \in call[y].evicted \/ (y = c /\ <<x, b>> \in out)
    BY <1>10, <1>12, <1>13
  <2>2. \A x \in Calls : (\E b \in BOOLEAN : <<x, b>> \in out) <=> x \in gone \/ (x = i /\ ~joins)
    BY <1>7
  <2> HIDE DEF i
  <2> QED
    BY <2>1, <2>2 DEF Pending
<1>24. ASSUME NEW x \in Calls, Pending(x)'
       PROVE  x \notin Registered' /\ call'[x].at # "idle" /\ \A j \in Scopes : inflight'[j] # x
  <2>1. x \notin Registered' /\ call[x].at # "idle" /\ \A j \in Scopes : inflight[j] = x => j = k /\ ~joins
    <3>1. CASE Pending(x)
      BY <1>4, <3>1 DEF McpInv, PendingIsGone
    <3>2. CASE x \in gone
      BY <1>4, <3>2 DEF McpInv, RegisteredGot, InflightIsAwaited
    <3>3. CASE x = i /\ ~joins
      BY <1>4, <3>3 DEF McpInv, RegisteredGot, InflightIsAwaited
    <3> QED
      BY <1>23, <1>24, <3>1, <3>2, <3>3
  <2>2. x # c
    BY <1>1, <2>1
  <2> QED
    BY <1>12, <1>17, <2>1, <2>2
<1>25. PendingIsGone'
  BY <1>24 DEF PendingIsGone
<1>26. ASSUME NEW x \in Calls, Alive(x)', ~owner'[x].close, ~owner'[x].cancel
       PROVE  x \in Registered' \/ (\E j \in Scopes : inflight'[j] = x) \/ Pending(x)'
                \/ (Waits(x)' /\ owner'[x].ready = "session")
  <2>1. CASE x = c
    BY <1>15, <1>17, <1>26, <2>1 DEF Alive
  <2>2. CASE x # c
    <3>1. Alive(x) /\ ~owner[x].close /\ ~owner[x].cancel
      BY <1>15, <1>26, <2>2 DEF Alive
    <3>2. x \in Registered \/ (\E j \in Scopes : inflight[j] = x) \/ Pending(x)
            \/ (Waits(x) /\ owner[x].ready = "session")
      BY <3>1 DEF McpInv, NoLostOwner, Pending
    <3>3. Waits(x)' <=> Waits(x)
      BY <1>12, <2>2 DEF Waits
    <3>4. ASSUME NEW j \in Scopes, inflight[j] = x
          PROVE  inflight'[j] = x \/ Pending(x)'
      BY <1>17, <1>23, <3>4
    <3>5. x \in Registered => x \in Registered' \/ Pending(x)'
      BY <1>4, <1>23
    <3> QED
      BY <1>15, <1>23, <2>2, <3>2, <3>3, <3>4, <3>5
  <2> QED
    BY <2>1, <2>2
<1>27. NoLostOwner'
  BY <1>26 DEF NoLostOwner, Pending
<1> QED
  BY <1>18, <1>19, <1>21, <1>22, <1>25, <1>27 DEF McpInv

LEMMA LoopClosesStep ==
  ASSUME McpInv, LoopCloses
  PROVE  McpInv'
<1>0. owner \in [Calls -> McpOwner]
  BY DEF McpInv, McpTypeOK, McpOwner
<1> DEFINE Hers(x) == call[x].loop = "short" /\ owner[x].at # "none"
<1>1. /\ open' = FALSE /\ UNCHANGED <<Registered, entries, inflight, call, closes>>
      /\ \A x \in Calls : call[x].loop = "short" => call[x].at \in {"got", "raised"}
      /\ owner' = [x \in Calls |-> IF Hers(x) THEN [owner[x] EXCEPT !.at = "done", !.cancel = TRUE]
                                              ELSE owner[x]]
  BY DEF LoopCloses, Registered
<1>2. ASSUME NEW x \in Calls
      PROVE  /\ owner'[x] \in McpOwner
             /\ owner'[x].close = owner[x].close /\ owner'[x].ready = owner[x].ready
             /\ Hers(x) => owner'[x].at = "done" /\ owner[x].at # "none"
             /\ ~Hers(x) => owner'[x] = owner[x]
  <2>1. CASE Hers(x)
    <3>1. owner'[x] = [owner[x] EXCEPT !.at = "done", !.cancel = TRUE]
      BY <1>1, <2>1
    <3>2. owner[x] \in McpOwner
      BY <1>0
    <3> QED
      BY <2>1, <3>1, <3>2 DEF McpOwner
  <2>2. CASE ~Hers(x)
    <3>1. owner'[x] = owner[x]
      BY <1>1, <2>2
    <3> QED
      BY <1>0, <2>2, <3>1
  <2> QED
    BY <2>1, <2>2
<1>3. owner' \in [Calls -> McpOwner]
  <2>1. \A x \in Calls : owner'[x] \in McpOwner
    BY <1>2
  <2> QED
    BY <1>1, <2>1
<1>12. /\ open' = FALSE /\ UNCHANGED <<Registered, entries, inflight, call, closes>>
       /\ \A x \in Calls : call[x].loop = "short" => call[x].at \in {"got", "raised"}
  BY <1>1
<1>4. McpTypeOK'
  BY <1>3, <1>12 DEF McpInv, McpTypeOK, McpOwner
<1>5. OwnersAreCreators'
  BY <1>2, <1>12 DEF McpInv, OwnersAreCreators
<1>6. RegisteredGot' /\ PendingIsGone'
  BY <1>12 DEF McpInv, RegisteredGot, PendingIsGone, Pending
<1>7. InflightIsAwaited'
  <2>1. \A k \in Scopes, x \in Calls : inflight[k] = x => owner'[x] = owner[x]
    BY <1>2, <1>12 DEF McpInv, InflightIsAwaited
  <2> QED
    BY <1>12, <2>1 DEF McpInv, InflightIsAwaited
<1>8. Registered \subseteq Calls
  BY DEF McpInv, McpTypeOK, Registered, Members
<1>9. EntryIsLive'
  <2>1. ASSUME NEW x \in Registered
        PROVE  ~owner'[x].close /\ (owner'[x].cancel => call'[x].loop = "short" /\ ~open')
    <3>1. x \in Calls /\ ~owner[x].close /\ (owner[x].cancel => call[x].loop = "short" /\ ~open)
      BY <1>8 DEF McpInv, EntryIsLive
    <3>2. open' = FALSE /\ call' = call
      BY <1>12
    <3>3. owner'[x].close = owner[x].close
      BY <1>2, <3>1
    <3>4. CASE Hers(x)
      BY <3>1, <3>2, <3>3, <3>4
    <3>5. CASE ~Hers(x)
      <4>1. owner'[x] = owner[x]
        BY <1>2, <3>1, <3>5
      <4> QED
        BY <3>1, <3>2, <4>1
    <3> QED
      BY <3>4, <3>5
  <2>2. Registered' = Registered
    BY <1>12
  <2> QED
    BY <2>1, <2>2 DEF EntryIsLive
<1>10. \A x \in Calls : Alive(x)' => Alive(x) /\ owner'[x] = owner[x]
  BY <1>2 DEF Alive
<1>11. NoLostOwner'
  BY <1>10, <1>12 DEF McpInv, NoLostOwner, Waits
<1> QED
  BY <1>4, <1>5, <1>6, <1>7, <1>9, <1>11 DEF McpInv

LEMMA CloseStep ==
  ASSUME McpInv, NEW ks \in SUBSET Scopes, Close(ks)
  PROVE  McpInv'
<1> DEFINE Held(x) == \E k \in ks : x \in Entry(k)
           Made(x) == \E k \in ks : x = inflight[k]
<1>0. /\ owner \in [Calls -> McpOwner] /\ entries \in Seq(Calls)
      /\ inflight \in [Scopes -> Calls \cup {None}] /\ closes \in 0 .. MaxCloses
  BY DEF McpInv, McpTypeOK, McpOwner
<1>1. /\ closes < MaxCloses /\ closes' = closes + 1 /\ UNCHANGED <<call, open>>
      /\ entries' = Kept(entries, {e \in Calls : call[e].key \notin ks})
      /\ inflight' = [k \in Scopes |-> IF k \in ks THEN None ELSE inflight[k]]
      /\ owner' = [x \in Calls |-> IF Held(x) THEN [owner[x] EXCEPT !.close = TRUE]
                                   ELSE IF Made(x) THEN [owner[x] EXCEPT !.close = TRUE, !.cancel = TRUE]
                                   ELSE owner[x]]
  BY DEF Close
<1>2. closes' \in 0 .. MaxCloses /\ UNCHANGED <<call, open>>
  <2>1. closes < MaxCloses /\ closes' = closes + 1 /\ UNCHANGED <<call, open>>
    BY <1>1
  <2>2. closes \in 0 .. MaxCloses /\ MaxCloses \in Nat
    BY <1>0, McpAssumption DEF McpAssumption
  <2> QED
    BY <2>1, <2>2
<1>3. Registered \subseteq Calls
  BY DEF McpInv, McpTypeOK, Registered, Members
<1>4. /\ entries' \in Seq(Calls)
      /\ Registered' = {x \in Registered : call[x].key \notin ks}
  <2>1. /\ entries' \in Seq(Calls)
        /\ Members(entries') = Members(entries) \cap {e \in Calls : call[e].key \notin ks}
    BY <1>0, <1>1, KeptProperties
  <2> QED
    BY <1>3, <2>1 DEF Registered
<1>5. \A x \in Calls : Held(x) <=> x \in Registered /\ call[x].key \in ks
  BY DEF Entry
<1>6. /\ inflight' \in [Scopes -> Calls \cup {None}]
      /\ \A k \in Scopes, x \in Calls : inflight'[k] = x <=> inflight[k] = x /\ k \notin ks
  BY <1>0, <1>1, McpAssumption DEF McpAssumption
<1>7. ASSUME NEW x \in Calls
      PROVE  /\ owner'[x] \in McpOwner
             /\ owner'[x].at = owner[x].at /\ owner'[x].ready = owner[x].ready
             /\ Held(x) \/ Made(x) => owner'[x].close
             /\ ~Held(x) /\ ~Made(x) => owner'[x] = owner[x]
  <2>1. owner[x] \in McpOwner
    BY <1>0
  <2>2. CASE Held(x)
    <3>1. owner'[x] = [owner[x] EXCEPT !.close = TRUE]
      BY <1>1, <2>2, Zenon
    <3> QED
      BY <2>1, <2>2, <3>1 DEF McpOwner
  <2>3. CASE ~Held(x) /\ Made(x)
    <3>1. owner'[x] = [owner[x] EXCEPT !.close = TRUE, !.cancel = TRUE]
      BY <1>1, <2>3, Zenon
    <3> QED
      BY <2>1, <2>3, <3>1 DEF McpOwner
  <2>4. CASE ~Held(x) /\ ~Made(x)
    <3>1. owner'[x] = owner[x]
      BY <1>1, <2>4, Zenon
    <3> QED
      BY <2>1, <2>4, <3>1
  <2> QED
    BY <2>2, <2>3, <2>4
<1>8. owner' \in [Calls -> McpOwner]
  <2>1. \A x \in Calls : owner'[x] \in McpOwner
    BY <1>7
  <2> QED
    BY <1>1, <2>1
<1>9. \A x \in Calls : Made(x) => x \notin Registered /\ call[x].key \in ks
  BY DEF McpInv, InflightIsAwaited, RegisteredGot
<1> HIDE DEF Held, Made
<1>10. McpTypeOK'
  BY <1>1, <1>2, <1>4, <1>6, <1>8 DEF McpInv, McpTypeOK, McpOwner
<1>11. OwnersAreCreators'
  BY <1>2, <1>7 DEF McpInv, OwnersAreCreators
<1>12. RegisteredGot'
  BY <1>1, <1>4 DEF McpInv, RegisteredGot
<1>13. \A x \in Registered' : x \in Registered /\ owner'[x] = owner[x]
  BY <1>3, <1>4, <1>5, <1>7, <1>9
<1>14. EntryIsLive'
  BY <1>1, <1>13 DEF McpInv, EntryIsLive
<1>15. ASSUME NEW k \in Scopes, NEW x \in Calls, inflight'[k] = x
       PROVE  inflight[k] = x /\ owner'[x] = owner[x]
  <2>1. inflight[k] = x /\ k \notin ks
    BY <1>6, <1>15
  <2>2. call[x].key = k /\ x \notin Registered
    BY <2>1 DEF McpInv, InflightIsAwaited, RegisteredGot
  <2>3. ~Held(x) /\ ~Made(x)
    BY <1>5, <1>9, <2>1, <2>2
  <2> QED
    BY <1>7, <2>1, <2>3
<1>16. InflightIsAwaited'
  BY <1>2, <1>15 DEF McpInv, InflightIsAwaited
<1>17. \A x \in Calls : Pending(x)' <=> Pending(x)
  BY <1>1 DEF Pending
<1>18. PendingIsGone'
  BY <1>1, <1>4, <1>6, <1>17 DEF McpInv, PendingIsGone
<1>19. ASSUME NEW x \in Calls, Alive(x)', ~owner'[x].close, ~owner'[x].cancel
       PROVE  x \in Registered' \/ (\E k \in Scopes : inflight'[k] = x) \/ Pending(x)'
                \/ (Waits(x)' /\ owner'[x].ready = "session")
  <2>1. ~Held(x) /\ ~Made(x) /\ owner'[x] = owner[x]
    BY <1>7, <1>19
  <2>2. Alive(x) /\ ~owner[x].close /\ ~owner[x].cancel
    BY <1>19, <2>1 DEF Alive
  <2>3. x \in Registered \/ (\E k \in Scopes : inflight[k] = x) \/ Pending(x)
          \/ (Waits(x) /\ owner[x].ready = "session")
    BY <2>2 DEF McpInv, NoLostOwner, Pending
  <2>4. x \in Registered => x \in Registered'
    BY <1>4, <1>5, <2>1
  <2>5. ASSUME NEW k \in Scopes, inflight[k] = x PROVE inflight'[k] = x
    BY <1>6, <2>1, <2>5 DEF Made
  <2>6. Waits(x)' <=> Waits(x)
    BY <1>1 DEF Waits
  <2> QED
    BY <1>17, <2>1, <2>3, <2>4, <2>5, <2>6
<1>20. NoLostOwner'
  BY <1>19 DEF NoLostOwner, Pending
<1> QED
  BY <1>10, <1>11, <1>12, <1>14, <1>16, <1>18, <1>20 DEF McpInv

\* Every step of the pool keeps its invariant.
LEMMA McpNextInv == McpInv /\ [McpNext]_mcpVars => McpInv'
<1> SUFFICES ASSUME McpInv, [McpNext]_mcpVars PROVE McpInv'
  OBVIOUS
<1>1. ASSUME NEW c \in Calls, NEW k \in Scopes, NEW l \in Loops, Hit(c, k, l) \/ Miss(c, k, l)
      PROVE  McpInv'
  BY <1>1, HitStep, MissStep
<1>2. ASSUME NEW c \in Calls,
             \/ Evict(c) \/ Joined(c) \/ Promote(c) \/ CreationFails(c) \/ Cancel(c)
             \/ Unwound(c) \/ OwnerStarts(c) \/ OwnerConnects(c) \/ OwnerExits(c)
      PROVE  McpInv'
  BY <1>2, EvictStep, CallEndsSteps, PromoteStep, CancelStep, OwnerSteps
<1>3. CASE LoopCloses
  BY <1>3, LoopClosesStep
<1>4. ASSUME NEW ks \in {{k} : k \in Scopes} \cup {Scopes}, Close(ks)
      PROVE  McpInv'
  <2>1. ks \in SUBSET Scopes
    BY <1>4
  <2> QED
    BY <1>4, <2>1, CloseStep
<1>5. CASE UNCHANGED mcpVars
  <2>1. UNCHANGED <<entries, inflight, owner, call, open, closes, Registered>>
    BY <1>5 DEF mcpVars, Registered
  <2>2. McpTypeOK' /\ OwnersAreCreators' /\ RegisteredGot' /\ InflightIsAwaited'
    BY <2>1 DEF McpInv, McpTypeOK, OwnersAreCreators, RegisteredGot, InflightIsAwaited
  <2>3. PendingIsGone' /\ EntryIsLive' /\ NoLostOwner'
    BY <2>1 DEF McpInv, PendingIsGone, Pending, EntryIsLive, NoLostOwner, Alive, Waits
  <2> QED
    BY <2>2, <2>3 DEF McpInv
<1> QED
  BY <1>1, <1>2, <1>3, <1>4, <1>5 DEF McpNext

\* The pool of MCP sessions keeps its invariant: get_session in its phases,
\* _run_session, the end of a loop and every close, for any number of calls, keys,
\* sessions and closes.
THEOREM McpInvariant == McpSpec => []McpInv
  BY McpInitInv, McpNextInv, PTL DEF McpSpec

\* get_session never leaks an owner task: one that nobody has told to stop is
\* registered, being created, about to be told, or about to be registered, whatever
\* closes, evictions, cancellations and ends of loops happen while it is created.
THEOREM NoOwnerIsLost == McpSpec => []NoLostOwner
  BY McpInvariant, PTL DEF McpInv

\* The pool never hands out a session that a close, an eviction or a cancelled
\* caller has already ended.
THEOREM EntriesAreLive == McpSpec => []EntryIsLive
  BY McpInvariant, PTL DEF McpInv

-----------------------------------------------------------------------------
\* ToolProgress.

ToolState == [phase : {"active", "warned", "blocked"}, count : 0 .. Cap, recent : BOOLEAN]
UseRecord == [at : {"idle", "running", "hinting"}, of : Chats \cup {Nothing},
              tool : Instruments \cup {Nothing}, turn : 0 .. MaxTurns]

\* A thread the table has forgotten has no blocked tool.
Unblocked ==
  \A t \in Chats : t \notin Members(tracked) =>
     ended[t] = {} /\ \A i \in Instruments : tool[t][i].phase # "blocked"

\* A call under way is of a thread, a tool and a run.
UsesKnown ==
  \A c \in ToolCalls : use[c].at # "idle" =>
     use[c].of \in Chats /\ use[c].tool \in Instruments /\ use[c].turn \in 1 .. MaxTurns

NoHintsLeft == \A t \in Chats, r \in 1 .. MaxTurns : hints[t][r] > 0 => t \in Members(tracked)

ProgressInv == /\ ProgressTypeOK /\ BlockIsFinal /\ BlockHasCause
               /\ NoHintsLeft /\ Unblocked /\ UsesKnown

\* The table of a state that has its type is the set of its members.
LEMMA InTableIs ==
  ASSUME ProgressInv
  PROVE  \A t : InTable(t) <=> t \in Members(tracked)
<1>1. DOMAIN tracked = 1 .. Len(tracked)
  BY DEF ProgressInv, ProgressTypeOK
<1> QED
  BY <1>1, Zenon DEF InTable, Members

LEMMA ProgressTypes ==
  ProgressTypeOK <=> /\ tracked \in Seq(Chats) /\ Len(tracked) <= MaxTracked
                     /\ tool \in [Chats -> [Instruments -> ToolState]]
                     /\ hints \in [Chats -> [1 .. MaxTurns -> 0 .. MaxPending]]
                     /\ turn \in [Chats -> 0 .. MaxTurns]
                     /\ use \in [ToolCalls -> UseRecord]
                     /\ ended \in [Chats -> SUBSET Instruments]
                     /\ grave \in [Chats -> SUBSET Instruments]
  BY DEF ProgressTypeOK, ToolState, UseRecord

LEMMA ProgressTypesNext ==
  ASSUME tracked' \in Seq(Chats), Len(tracked') <= MaxTracked,
         tool' \in [Chats -> [Instruments -> ToolState]],
         hints' \in [Chats -> [1 .. MaxTurns -> 0 .. MaxPending]],
         turn' \in [Chats -> 0 .. MaxTurns],
         use' \in [ToolCalls -> UseRecord],
         ended' \in [Chats -> SUBSET Instruments],
         grave' \in [Chats -> SUBSET Instruments]
  PROVE  ProgressTypeOK'
  BY DEF ProgressTypeOK, ToolState, UseRecord

LEMMA ProgressNumbers ==
  /\ Stagnation \in Nat /\ Escalation \in Nat /\ Cap \in Nat /\ MaxTracked \in Nat /\ MaxTracked >= 1
  /\ MaxPending \in Nat /\ MaxTurns \in Nat /\ Cap >= 1
  BY ProgressAssumption DEF Cap

LEMMA FreshIs == Fresh \in ToolState /\ Fresh.phase = "active" /\ NoUse \in UseRecord /\ NoUse.at = "idle"
<1>1. 0 \in 0 .. Cap /\ 0 \in 0 .. MaxTurns
  BY ProgressNumbers
<1> QED
  BY <1>1 DEF Fresh, NoUse, ToolState, UseRecord

LEMMA ProgressInitInv == ProgressInit => ProgressInv
<1> SUFFICES ASSUME ProgressInit PROVE ProgressInv
  OBVIOUS
<1> USE DEF ProgressInit
<1>1. ProgressTypeOK
  <2>1. tracked \in Seq(Chats) /\ Len(tracked) <= MaxTracked
    BY ProgressNumbers
  <2>2. hints \in [Chats -> [1 .. MaxTurns -> 0 .. MaxPending]] /\ turn \in [Chats -> 0 .. MaxTurns]
    BY ProgressNumbers
  <2>3. tool \in [Chats -> [Instruments -> ToolState]] /\ use \in [ToolCalls -> UseRecord]
    BY FreshIs
  <2> QED
    BY <2>1, <2>2, <2>3, ProgressTypes
<1>2. BlockIsFinal /\ BlockHasCause
  BY FreshIs DEF BlockIsFinal, BlockHasCause
<1>3. NoHintsLeft /\ Unblocked /\ UsesKnown
  BY FreshIs DEF NoHintsLeft, Unblocked, UsesKnown
<1> QED
  BY <1>1, <1>2, <1>3 DEF ProgressInv

\* _assess_and_transition: a blocked tool stays blocked, and one becomes blocked
\* by a failure that the model cannot repair.
LEMMA Assessed ==
  ASSUME NEW s \in ToolState, NEW o \in Outcomes
  PROVE  /\ Assess(s, o) \in ToolState
         /\ s.phase = "blocked" => Assess(s, o) = s
         /\ Assess(s, o).phase = "blocked" => s.phase = "blocked" \/ ~Recoverable(o)
<1>1. PICK n \in 0 .. Cap : n = Least(s.count + 1, Cap)
  BY ProgressNumbers DEF ToolState, Least
<1>2. \A p \in {"active", "warned", "blocked"} :
         /\ [s EXCEPT !.phase = p, !.count = n] \in ToolState
         /\ [s EXCEPT !.phase = p, !.count = n].phase = p
  BY DEF ToolState
<1>3. PICK g \in ToolState : g = [phase |-> "active", count |-> 0, recent |-> TRUE] /\ g.phase = "active"
  <2>1. 0 \in 0 .. Cap
    BY ProgressNumbers
  <2>2. [phase |-> "active", count |-> 0, recent |-> TRUE] \in ToolState
    BY <2>1, Zenon DEF ToolState
  <2>3. [phase |-> "active", count |-> 0, recent |-> TRUE].phase = "active"
    OBVIOUS
  <2> QED
    BY <2>2, <2>3
<1>4. s.phase \in {"active", "warned", "blocked"}
  BY DEF ToolState
<1>5. CASE s.phase = "blocked"
  <2>1. Assess(s, o) = s
    BY <1>5 DEF Assess
  <2> QED
    BY <1>5, <2>1
<1>6. CASE s.phase # "blocked" /\ o = "stop"
  <2>1. Assess(s, o) = [s EXCEPT !.phase = "blocked", !.count = n]
    BY <1>1, <1>6 DEF Assess
  <2> QED
    BY <1>2, <1>6, <2>1 DEF Recoverable
<1>7. CASE s.phase # "blocked" /\ o = "good"
  <2>1. Assess(s, o) = g
    BY <1>3, <1>7 DEF Assess
  <2> QED
    BY <1>3, <1>7, <2>1
<1>8. CASE s.phase # "blocked" /\ o \notin {"stop", "good"}
  <2>1. Assess(s, o) = IF n >= Cap /\ ~Recoverable(o) THEN [s EXCEPT !.phase = "blocked", !.count = n]
                       ELSE IF n >= Stagnation THEN [s EXCEPT !.phase = "warned", !.count = n]
                       ELSE [s EXCEPT !.phase = s.phase, !.count = n]
    BY <1>1, <1>8 DEF Assess
  <2> QED
    BY <1>2, <1>4, <1>8, <2>1
<1> QED
  BY <1>5, <1>6, <1>7, <1>8

\* All but the first, of two or more.
LEMMA TailFacts ==
  ASSUME NEW S, NEW s \in Seq(S), Len(s) >= 2
  PROVE  /\ Tail(s) \in Seq(S) /\ Len(Tail(s)) = Len(s) - 1
         /\ Members(Tail(s)) \subseteq Members(s) /\ s[Len(s)] \in Members(Tail(s))
<1>1. Len(s) \in Nat
  OBVIOUS
<1>2. PICK b : b = Tail(s)
  OBVIOUS
<1>3. b \in Seq(S) /\ Len(b) = Len(s) - 1 /\ \A k \in 1 .. Len(b) : b[k] = s[k + 1]
  BY <1>1, <1>2
<1>4. \A k \in 1 .. Len(b) : k + 1 \in 1 .. Len(s)
  BY <1>1, <1>3
<1>5. Len(b) \in 1 .. Len(b) /\ Len(b) + 1 = Len(s)
  BY <1>1, <1>3
<1>6. b[Len(b)] = s[Len(s)]
  BY <1>3, <1>5
<1>7. Members(b) \subseteq Members(s) /\ s[Len(s)] \in Members(b)
  BY <1>3, <1>4, <1>5, <1>6 DEF Members
<1> QED
  BY <1>2, <1>3, <1>7

LEMMA AppendLast ==
  ASSUME NEW S, NEW s \in Seq(S), NEW x \in S
  PROVE  Append(s, x)[Len(s) + 1] = x
  OBVIOUS

\* _get_state makes the thread the newest and keeps the table within its bound.
LEMMA TableKept ==
  ASSUME tracked \in Seq(Chats), Len(tracked) <= MaxTracked, NEW t \in Chats
  PROVE  LET order == Append(Kept(tracked, Chats \ {t}), t)
             kept == IF Len(order) > MaxTracked THEN Tail(order) ELSE order
         IN  /\ kept \in Seq(Chats) /\ Len(kept) <= MaxTracked
             /\ t \in Members(kept) /\ Members(kept) \subseteq Members(tracked) \cup {t}
<1>1. PICK u : u = Kept(tracked, Chats \ {t})
  OBVIOUS
<1>2. u \in Seq(Chats) /\ Len(u) <= Len(tracked) /\ Members(u) \subseteq Members(tracked)
  BY <1>1, KeptProperties
<1>3. PICK order : order = Append(u, t)
  OBVIOUS
<1>4. /\ order \in Seq(Chats) /\ Len(order) = Len(u) + 1
      /\ Members(order) = Members(u) \cup {t}
  BY <1>2, <1>3, AppendAdds
<1>5. Len(u) \in Nat /\ Len(tracked) \in Nat /\ Len(order) \in Nat
  BY <1>2, <1>4
<1>6. order[Len(order)] = t
  BY <1>2, <1>3, <1>4, AppendLast
<1>7. CASE Len(order) > MaxTracked
  <2>1. Len(order) >= 2 /\ Len(order) - 1 <= MaxTracked
    BY <1>2, <1>4, <1>5, <1>7, ProgressNumbers
  <2>2. /\ Tail(order) \in Seq(Chats) /\ Len(Tail(order)) = Len(order) - 1
        /\ Members(Tail(order)) \subseteq Members(order) /\ t \in Members(Tail(order))
    BY <1>4, <1>6, <2>1, TailFacts
  <2> QED
    BY <1>1, <1>2, <1>3, <1>4, <1>7, <2>1, <2>2
<1>8. CASE ~(Len(order) > MaxTracked)
  <2>1. Len(order) <= MaxTracked /\ t \in Members(order)
    BY <1>4, <1>5, <1>8, ProgressNumbers
  <2> QED
    BY <1>1, <1>2, <1>3, <1>4, <1>8, <2>1
<1> QED
  BY <1>7, <1>8

LEMMA BeginTurnStep ==
  ASSUME ProgressInv, NEW t \in Chats, BeginTurn(t)
  PROVE  ProgressInv'
<1> USE DEF ProgressInv
<1>1. /\ tracked \in Seq(Chats) /\ Len(tracked) <= MaxTracked
      /\ tool \in [Chats -> [Instruments -> ToolState]]
      /\ hints \in [Chats -> [1 .. MaxTurns -> 0 .. MaxPending]]
      /\ turn \in [Chats -> 0 .. MaxTurns] /\ use \in [ToolCalls -> UseRecord]
      /\ ended \in [Chats -> SUBSET Instruments] /\ grave \in [Chats -> SUBSET Instruments]
  BY ProgressTypes
<1>2. PICK f \in [Instruments -> ToolState] : \A i \in Instruments : f[i] = Fresh /\ f[i].phase = "active"
  <2>1. [i \in Instruments |-> Fresh] \in [Instruments -> ToolState]
    BY FreshIs
  <2> QED
    BY <2>1, FreshIs
<1>3. f = [i \in Instruments |-> Fresh]
  BY <1>2
<1>4. PICK h \in [1 .. MaxTurns -> 0 .. MaxPending] :
         /\ h = [r \in 1 .. MaxTurns |-> IF r = turn'[t] THEN hints[t][r] ELSE 0]
         /\ \A r \in 1 .. MaxTurns : h[r] > 0 => hints[t][r] > 0
  <2>1. 0 \in 0 .. MaxPending /\ hints[t] \in [1 .. MaxTurns -> 0 .. MaxPending]
    BY <1>1, ProgressNumbers
  <2>2. PICK h : h = [r \in 1 .. MaxTurns |-> IF r = turn'[t] THEN hints[t][r] ELSE 0]
    OBVIOUS
  <2>3. h \in [1 .. MaxTurns -> 0 .. MaxPending]
    BY <2>1, <2>2
  <2>4. \A r \in 1 .. MaxTurns : h[r] > 0 => hints[t][r] > 0
    BY <2>1, <2>2
  <2> QED
    BY <2>2, <2>3, <2>4
<1>5. turn' \in [Chats -> 0 .. MaxTurns]
  <2>1. turn[t] + 1 \in 0 .. MaxTurns
    BY <1>1, ProgressNumbers DEF BeginTurn
  <2> QED
    BY <1>1, <2>1 DEF BeginTurn
<1>6. hints' = [hints EXCEPT ![t] = h]
  BY <1>1, <1>4 DEF BeginTurn
<1>7. tool' = IF t \in Members(tracked) THEN [tool EXCEPT ![t] = f] ELSE tool
  BY <1>3, InTableIs DEF BeginTurn
<1>8. \A x \in Chats : tool'[x] = IF x = t /\ t \in Members(tracked) THEN f ELSE tool[x]
  BY <1>1, <1>7
<1>9. tracked' = tracked /\ use' = use /\ Members(tracked') = Members(tracked)
  BY DEF BeginTurn, Members
<1>10. ended' = [ended EXCEPT ![t] = {}] /\ grave' = [grave EXCEPT ![t] = {}]
  BY DEF BeginTurn
<1>11. ProgressTypeOK'
  <2>1. tool' \in [Chats -> [Instruments -> ToolState]]
    BY <1>1, <1>2, <1>7
  <2>2. hints' \in [Chats -> [1 .. MaxTurns -> 0 .. MaxPending]]
    BY <1>1, <1>4, <1>6
  <2>3. ended' \in [Chats -> SUBSET Instruments] /\ grave' \in [Chats -> SUBSET Instruments]
    BY <1>1, <1>10
  <2> QED
    BY <1>1, <1>5, <1>9, <2>1, <2>2, <2>3, ProgressTypesNext
<1>12. \A i \in Instruments : tool'[t][i].phase # "blocked"
  BY <1>2, <1>8 DEF Unblocked
<1>13. BlockIsFinal' /\ BlockHasCause'
  <2>1. \A x \in Chats : ended'[x] = IF x = t THEN {} ELSE ended[x]
    BY <1>1, <1>10
  <2>2. \A x \in Chats : grave'[x] = IF x = t THEN {} ELSE grave[x]
    BY <1>1, <1>10
  <2> QED
    BY <1>8, <1>12, <2>1, <2>2 DEF BlockIsFinal, BlockHasCause
<1>14. NoHintsLeft'
  <2>1. \A x \in Chats : hints'[x] = IF x = t THEN h ELSE hints[x]
    BY <1>1, <1>6
  <2> QED
    BY <1>4, <1>9, <2>1 DEF NoHintsLeft
<1>15. Unblocked'
  <2>1. \A x \in Chats : ended'[x] = IF x = t THEN {} ELSE ended[x]
    BY <1>1, <1>10
  <2> QED
    BY <1>8, <1>9, <1>12, <2>1 DEF Unblocked
<1>16. UsesKnown'
  BY <1>9 DEF UsesKnown
<1> QED
  BY <1>11, <1>13, <1>14, <1>15, <1>16

LEMMA UseToolStep ==
  ASSUME ProgressInv, NEW c \in ToolCalls, NEW t \in Chats, NEW i \in Instruments, UseTool(c, t, i)
  PROVE  ProgressInv'
<1> USE DEF ProgressInv
<1>1. /\ tracked \in Seq(Chats) /\ Len(tracked) <= MaxTracked
      /\ tool \in [Chats -> [Instruments -> ToolState]]
      /\ hints \in [Chats -> [1 .. MaxTurns -> 0 .. MaxPending]]
      /\ turn \in [Chats -> 0 .. MaxTurns] /\ use \in [ToolCalls -> UseRecord]
      /\ ended \in [Chats -> SUBSET Instruments] /\ grave \in [Chats -> SUBSET Instruments]
  BY ProgressTypes
<1>2. turn[t] \in 0 .. MaxTurns /\ turn[t] > 0
  BY <1>1 DEF UseTool
<1>3. turn[t] \in 1 .. MaxTurns
  BY <1>2
<1>4. PICK u : u = [at |-> "running", of |-> t, tool |-> i, turn |-> turn[t]]
  OBVIOUS
<1>5. u \in UseRecord /\ u.of \in Chats /\ u.tool \in Instruments /\ u.turn \in 1 .. MaxTurns
  BY <1>2, <1>3, <1>4 DEF UseRecord
<1>6. use' = [use EXCEPT ![c] = u]
  BY <1>4 DEF UseTool
<1>7. use' \in [ToolCalls -> UseRecord] /\ \A d \in ToolCalls : use'[d] = IF d = c THEN u ELSE use[d]
  BY <1>1, <1>5, <1>6
<1>8. /\ tracked' = tracked /\ tool' = tool /\ hints' = hints /\ turn' = turn
      /\ ended' = ended /\ grave' = grave /\ Members(tracked') = Members(tracked)
  BY DEF UseTool, Members
<1>9. ProgressTypeOK'
  BY <1>1, <1>7, <1>8, ProgressTypesNext
<1>10. BlockIsFinal' /\ BlockHasCause' /\ NoHintsLeft' /\ Unblocked'
  BY <1>8 DEF BlockIsFinal, BlockHasCause, NoHintsLeft, Unblocked
<1>11. UsesKnown'
  BY <1>5, <1>7 DEF UsesKnown
<1> QED
  BY <1>9, <1>10, <1>11

LEMMA DrainStep ==
  ASSUME ProgressInv, NEW t \in Chats, DrainHints(t)
  PROVE  ProgressInv'
<1> USE DEF ProgressInv
<1>1. /\ tracked \in Seq(Chats) /\ Len(tracked) <= MaxTracked
      /\ tool \in [Chats -> [Instruments -> ToolState]]
      /\ hints \in [Chats -> [1 .. MaxTurns -> 0 .. MaxPending]]
      /\ turn \in [Chats -> 0 .. MaxTurns] /\ use \in [ToolCalls -> UseRecord]
      /\ ended \in [Chats -> SUBSET Instruments] /\ grave \in [Chats -> SUBSET Instruments]
  BY ProgressTypes
<1>2. PICK h : h = [hints[t] EXCEPT ![turn[t]] = 0]
  OBVIOUS
<1>3. hints[t] \in [1 .. MaxTurns -> 0 .. MaxPending] /\ 0 \in 0 .. MaxPending
  BY <1>1, ProgressNumbers
<1>4. h \in [1 .. MaxTurns -> 0 .. MaxPending]
  BY <1>2, <1>3
<1>5. \A r \in 1 .. MaxTurns : h[r] > 0 => hints[t][r] > 0
  BY <1>2, <1>3
<1>6. hints' = [hints EXCEPT ![t] = h]
  BY <1>2 DEF DrainHints
<1>7. \A x \in Chats : hints'[x] = IF x = t THEN h ELSE hints[x]
  BY <1>1, <1>6
<1>8. /\ tracked' = tracked /\ tool' = tool /\ use' = use /\ turn' = turn
      /\ ended' = ended /\ grave' = grave /\ Members(tracked') = Members(tracked)
  BY DEF DrainHints, Members
<1>9. hints' \in [Chats -> [1 .. MaxTurns -> 0 .. MaxPending]]
  BY <1>1, <1>4, <1>6
<1>10. ProgressTypeOK'
  BY <1>1, <1>8, <1>9, ProgressTypesNext
<1>11. BlockIsFinal' /\ BlockHasCause' /\ UsesKnown' /\ Unblocked'
  BY <1>8 DEF BlockIsFinal, BlockHasCause, UsesKnown, Unblocked
<1>12. NoHintsLeft'
  BY <1>5, <1>7, <1>8 DEF NoHintsLeft
<1> QED
  BY <1>10, <1>11, <1>12

LEMMA QueueHintStep ==
  ASSUME ProgressInv, NEW c \in ToolCalls, QueueHint(c)
  PROVE  ProgressInv'
<1> USE DEF ProgressInv
<1>1. /\ tracked \in Seq(Chats) /\ Len(tracked) <= MaxTracked
      /\ tool \in [Chats -> [Instruments -> ToolState]]
      /\ hints \in [Chats -> [1 .. MaxTurns -> 0 .. MaxPending]]
      /\ turn \in [Chats -> 0 .. MaxTurns] /\ use \in [ToolCalls -> UseRecord]
      /\ ended \in [Chats -> SUBSET Instruments] /\ grave \in [Chats -> SUBSET Instruments]
  BY ProgressTypes
<1>2. PICK t \in Chats, k \in 1 .. MaxTurns : t = use[c].of /\ k = use[c].turn
  BY DEF UsesKnown, QueueHint
<1>3. hints[t] \in [1 .. MaxTurns -> 0 .. MaxPending] /\ hints[t][k] \in 0 .. MaxPending
  BY <1>1
<1>4. PICK n \in 0 .. MaxPending : n = Least(hints[t][k] + 1, MaxPending)
  BY <1>3, ProgressNumbers DEF Least
<1>5. PICK h : h = [hints[t] EXCEPT ![k] = n]
  OBVIOUS
<1>6. h \in [1 .. MaxTurns -> 0 .. MaxPending]
  BY <1>3, <1>5
<1>7. hints' = IF t \in Members(tracked) THEN [hints EXCEPT ![t] = h] ELSE hints
  <2>1. hints' = IF InTable(t) THEN [hints EXCEPT ![t][k] = n] ELSE hints
    BY <1>2, <1>4 DEF QueueHint
  <2> QED
    BY <1>5, <2>1, InTableIs
<1>8. \A x \in Chats : x # t \/ t \notin Members(tracked) => hints'[x] = hints[x]
  BY <1>1, <1>7
<1>9. hints' \in [Chats -> [1 .. MaxTurns -> 0 .. MaxPending]]
  BY <1>1, <1>6, <1>7
<1>10. use' \in [ToolCalls -> UseRecord] /\ \A d \in ToolCalls : use'[d] = IF d = c THEN NoUse ELSE use[d]
  BY <1>1, FreshIs DEF QueueHint
<1>11. /\ tracked' = tracked /\ tool' = tool /\ turn' = turn
       /\ ended' = ended /\ grave' = grave /\ Members(tracked') = Members(tracked)
  BY DEF QueueHint, Members
<1>12. ProgressTypeOK'
  BY <1>1, <1>9, <1>10, <1>11, ProgressTypesNext
<1>13. BlockIsFinal' /\ BlockHasCause' /\ Unblocked'
  BY <1>11 DEF BlockIsFinal, BlockHasCause, Unblocked
<1>14. NoHintsLeft'
  BY <1>8, <1>11 DEF NoHintsLeft
<1>15. UsesKnown'
  BY <1>10, FreshIs DEF UsesKnown
<1> QED
  BY <1>12, <1>13, <1>14, <1>15

LEMMA FinishStep ==
  ASSUME ProgressInv, NEW c \in ToolCalls, NEW o \in Outcomes, Finish(c, o)
  PROVE  ProgressInv'
<1> USE DEF ProgressInv
<1>1. /\ tracked \in Seq(Chats) /\ Len(tracked) <= MaxTracked
      /\ tool \in [Chats -> [Instruments -> ToolState]]
      /\ hints \in [Chats -> [1 .. MaxTurns -> 0 .. MaxPending]]
      /\ turn \in [Chats -> 0 .. MaxTurns] /\ use \in [ToolCalls -> UseRecord]
      /\ ended \in [Chats -> SUBSET Instruments] /\ grave \in [Chats -> SUBSET Instruments]
  BY ProgressTypes
<1>2. PICK t \in Chats, i \in Instruments : t = use[c].of /\ i = use[c].tool
  BY DEF UsesKnown, Finish
<1>3. PICK kept : kept = LET order == Append(Kept(tracked, Chats \ {t}), t)
                         IN  IF Len(order) > MaxTracked THEN Tail(order) ELSE order
  OBVIOUS
<1>4. /\ kept \in Seq(Chats) /\ Len(kept) <= MaxTracked
      /\ t \in Members(kept) /\ Members(kept) \subseteq Members(tracked) \cup {t}
  BY <1>1, <1>3, TableKept
<1>5. PICK gone : gone = {x \in Chats : InTable(x) /\ \A k \in DOMAIN kept : kept[k] # x}
  OBVIOUS
<1>6. gone = Members(tracked) \ Members(kept) /\ t \notin gone
  <2>1. Members(tracked) \subseteq Chats
    BY <1>1 DEF Members
  <2>2. \A x : x \in Members(kept) <=> \E k \in DOMAIN kept : kept[k] = x
    BY <1>4 DEF Members
  <2> QED
    BY <1>4, <1>5, <2>1, <2>2, InTableIs
<1>7. PICK fresh \in [Instruments -> ToolState] :
         /\ fresh = [x \in Instruments |-> Fresh]
         /\ \A x \in Instruments : fresh[x].phase = "active"
  <2>1. [x \in Instruments |-> Fresh] \in [Instruments -> ToolState]
    BY FreshIs
  <2> QED
    BY <2>1, FreshIs
<1>8. PICK was : was = IF InTable(t) THEN tool[t] ELSE fresh
  OBVIOUS
<1>9. was \in [Instruments -> ToolState] /\ was[i] \in ToolState
  BY <1>1, <1>7, <1>8
<1>10. \A x \in Instruments : was[x].phase = "blocked" => tool[t][x].phase = "blocked"
  BY <1>7, <1>8
<1>11. \A x \in ended[t] : was[x].phase = "blocked"
  BY <1>1, <1>8, InTableIs DEF Unblocked, BlockIsFinal
<1>12. PICK new : new = Assess(was[i], o)
  OBVIOUS
<1>13. /\ new \in ToolState
       /\ was[i].phase = "blocked" => new = was[i]
       /\ new.phase = "blocked" => was[i].phase = "blocked" \/ ~Recoverable(o)
  BY <1>9, <1>12, Assessed
<1>14. PICK row : row = [was EXCEPT ![i] = new]
  OBVIOUS
<1>15. row \in [Instruments -> ToolState] /\ \A x \in Instruments : row[x] = IF x = i THEN new ELSE was[x]
  BY <1>9, <1>13, <1>14
<1>16. PICK zero \in [1 .. MaxTurns -> 0 .. MaxPending] :
          zero = [r \in 1 .. MaxTurns |-> 0] /\ \A r \in 1 .. MaxTurns : ~(zero[r] > 0)
  <2>1. PICK z : z = [r \in 1 .. MaxTurns |-> 0]
    OBVIOUS
  <2>2. z \in [1 .. MaxTurns -> 0 .. MaxPending] /\ \A r \in 1 .. MaxTurns : z[r] = 0
    BY <2>1, ProgressNumbers
  <2>3. \A r \in 1 .. MaxTurns : ~(z[r] > 0)
    BY <2>2
  <2> QED
    BY <2>1, <2>2, <2>3
<1>17. PICK g : g = IF Recoverable(o) THEN grave[t] ELSE grave[t] \cup {i}
  OBVIOUS
<1>18. PICK v : v = IF Hints(was[i], o) THEN [use[c] EXCEPT !.at = "hinting"] ELSE NoUse
  OBVIOUS
<1>19. /\ tracked' = kept /\ turn' = turn
       /\ tool' = [x \in Chats |-> IF x = t THEN row ELSE IF x \in gone THEN fresh ELSE tool[x]]
       /\ hints' = [x \in Chats |-> IF x \in gone THEN zero ELSE hints[x]]
       /\ use' = [use EXCEPT ![c] = v]
       /\ ended' = [x \in Chats |-> IF x \in gone THEN {}
                                    ELSE IF x = t /\ new.phase = "blocked" THEN ended[x] \cup {i}
                                    ELSE ended[x]]
       /\ grave' = [grave EXCEPT ![t] = g]
  BY <1>2, <1>3, <1>5, <1>7, <1>8, <1>12, <1>14, <1>16, <1>17, <1>18, Zenon DEF Finish
<1>20. v \in UseRecord /\ (v.at # "idle" => v.of \in Chats /\ v.tool \in Instruments /\ v.turn \in 1 .. MaxTurns)
  <2>1. use[c] \in UseRecord /\ use[c].at = "running"
    BY <1>1 DEF Finish
  <2>2. use[c].of \in Chats /\ use[c].tool \in Instruments /\ use[c].turn \in 1 .. MaxTurns
    BY <2>1 DEF UsesKnown
  <2>3. PICK w : w = [use[c] EXCEPT !.at = "hinting"]
    OBVIOUS
  <2>4. w \in UseRecord /\ w.of = use[c].of /\ w.tool = use[c].tool /\ w.turn = use[c].turn
    BY <2>1, <2>3 DEF UseRecord
  <2>5. v = w \/ v = NoUse
    BY <1>18, <2>3
  <2> QED
    BY <2>2, <2>4, <2>5, FreshIs
<1>21. use' \in [ToolCalls -> UseRecord] /\ \A d \in ToolCalls : use'[d] = IF d = c THEN v ELSE use[d]
  BY <1>1, <1>19, <1>20
<1>22. grave' \in [Chats -> SUBSET Instruments] /\ \A x \in Chats : grave'[x] = IF x = t THEN g ELSE grave[x]
  BY <1>1, <1>17, <1>19
<1>23. tool' \in [Chats -> [Instruments -> ToolState]]
  BY <1>1, <1>7, <1>15, <1>19
<1>24. \A x \in Chats : tool'[x] = IF x = t THEN row ELSE IF x \in gone THEN fresh ELSE tool[x]
  BY <1>19
<1>25. hints' \in [Chats -> [1 .. MaxTurns -> 0 .. MaxPending]]
  BY <1>1, <1>16, <1>19
<1>26. \A x \in Chats : hints'[x] = IF x \in gone THEN zero ELSE hints[x]
  BY <1>19
<1>27. \A x \in Chats : ended'[x] = IF x \in gone THEN {}
                                    ELSE IF x = t /\ new.phase = "blocked" THEN ended[x] \cup {i}
                                    ELSE ended[x]
  BY <1>19
<1>28. ended' \in [Chats -> SUBSET Instruments]
  <2>1. \A x \in Chats : ended'[x] \subseteq Instruments
    BY <1>1, <1>27
  <2> QED
    BY <1>19, <2>1
<1>29. ProgressTypeOK'
  BY <1>1, <1>4, <1>19, <1>21, <1>22, <1>23, <1>25, <1>28, ProgressTypesNext
<1>30. Members(tracked') = Members(kept)
  BY <1>19
<1>31. BlockIsFinal'
  <2> SUFFICES ASSUME NEW x \in Chats, NEW k \in ended'[x] PROVE tool'[x][k].phase = "blocked"
    BY DEF BlockIsFinal
  <2>1. x \notin gone /\ k \in Instruments
    BY <1>27, <1>28
  <2>2. CASE x # t
    <3>1. k \in ended[x] /\ tool'[x] = tool[x]
      BY <1>24, <1>27, <2>1, <2>2
    <3> QED
      BY <3>1 DEF BlockIsFinal
  <2>3. CASE x = t
    <3>1. tool'[t] = row /\ (k \in ended[t] \/ (k = i /\ new.phase = "blocked"))
      BY <1>24, <1>27, <2>1, <2>3
    <3>2. row[k].phase = "blocked"
      BY <1>11, <1>13, <1>15, <2>1, <3>1
    <3> QED
      BY <2>3, <3>1, <3>2
  <2> QED
    BY <2>2, <2>3
<1>32. BlockHasCause'
  <2> SUFFICES ASSUME NEW x \in Chats, NEW k \in Instruments, tool'[x][k].phase = "blocked"
               PROVE  k \in grave'[x]
    BY DEF BlockHasCause
  <2>1. CASE x # t
    <3>1. tool'[x] = tool[x]
      BY <1>7, <1>24, <2>1
    <3> QED
      BY <1>22, <2>1, <3>1 DEF BlockHasCause
  <2>2. CASE x = t
    <3>1. row[k].phase = "blocked" /\ grave'[x] = g /\ grave[t] \subseteq g
      BY <1>17, <1>22, <1>24, <2>2
    <3>2. was[k].phase = "blocked" \/ (k = i /\ ~Recoverable(o))
      BY <1>13, <1>15, <3>1
    <3>3. was[k].phase = "blocked" => k \in grave[t]
      BY <1>10 DEF BlockHasCause
    <3> QED
      BY <1>17, <3>1, <3>2, <3>3
  <2> QED
    BY <2>1, <2>2
<1>33. NoHintsLeft'
  <2> SUFFICES ASSUME NEW x \in Chats, NEW r \in 1 .. MaxTurns, hints'[x][r] > 0
               PROVE  x \in Members(kept)
    BY <1>30 DEF NoHintsLeft
  <2>1. x \notin gone /\ hints'[x] = hints[x]
    BY <1>16, <1>26
  <2> QED
    BY <1>6, <2>1 DEF NoHintsLeft
<1>34. Unblocked'
  <2> SUFFICES ASSUME NEW x \in Chats, x \notin Members(kept)
               PROVE  ended'[x] = {} /\ \A k \in Instruments : tool'[x][k].phase # "blocked"
    BY <1>30 DEF Unblocked
  <2>1. x # t
    BY <1>4
  <2>2. CASE x \in gone
    BY <1>7, <1>24, <1>27, <2>1, <2>2
  <2>3. CASE x \notin gone
    <3>1. x \notin Members(tracked) /\ tool'[x] = tool[x] /\ ended'[x] = ended[x]
      BY <1>6, <1>24, <1>27, <2>1, <2>3
    <3> QED
      BY <3>1 DEF Unblocked
  <2> QED
    BY <2>2, <2>3
<1>35. UsesKnown'
  BY <1>20, <1>21 DEF UsesKnown
<1> QED
  BY <1>29, <1>31, <1>32, <1>33, <1>34, <1>35

LEMMA ProgressStep == ProgressInv /\ [ProgressNext]_progressVars => ProgressInv'
<1> SUFFICES ASSUME ProgressInv, [ProgressNext]_progressVars PROVE ProgressInv'
  OBVIOUS
<1>1. CASE UNCHANGED progressVars
  <2>1. /\ tracked' = tracked /\ tool' = tool /\ hints' = hints /\ turn' = turn
        /\ use' = use /\ ended' = ended /\ grave' = grave
    BY <1>1 DEF progressVars
  <2>2. Members(tracked') = Members(tracked)
    BY <2>1
  <2>3. ProgressTypeOK'
    BY <2>1, ProgressTypes, ProgressTypesNext DEF ProgressInv
  <2>4. BlockIsFinal' /\ BlockHasCause' /\ UsesKnown'
    BY <2>1 DEF ProgressInv, BlockIsFinal, BlockHasCause, UsesKnown
  <2>5. NoHintsLeft' /\ Unblocked'
    BY <2>1, <2>2 DEF ProgressInv, NoHintsLeft, Unblocked
  <2> QED
    BY <2>3, <2>4, <2>5 DEF ProgressInv
<1>2. CASE \E t \in Chats : BeginTurn(t)
  BY <1>2, BeginTurnStep
<1>3. CASE \E t \in Chats : DrainHints(t)
  BY <1>3, DrainStep
<1>4. CASE \E c \in ToolCalls, t \in Chats, i \in Instruments : UseTool(c, t, i)
  BY <1>4, UseToolStep
<1>5. CASE \E c \in ToolCalls, o \in Outcomes : Finish(c, o)
  BY <1>5, FinishStep
<1>6. CASE \E c \in ToolCalls : QueueHint(c)
  BY <1>6, QueueHintStep
<1> QED
  BY <1>1, <1>2, <1>3, <1>4, <1>5, <1>6 DEF ProgressNext

\* The progress guard's tables are consistent in every state, whichever calls finish in
\* which order and whichever threads the bounded table forgets.
THEOREM ProgressInvariant == ProgressSpec => []ProgressInv
<1>1. ProgressInit => ProgressInv
  BY ProgressInitInv
<1>2. ProgressInv /\ [ProgressNext]_progressVars => ProgressInv'
  BY ProgressStep
<1> QED
  BY <1>1, <1>2, PTL DEF ProgressSpec

\* What the guard's invariant says of its blocks and hints.
LEMMA ProgressInvSound == ProgressInv => BlockIsFinal /\ BlockHasCause /\ NoPhantomHints
  BY InTableIs DEF ProgressInv, NoHintsLeft, NoPhantomHints

\* A blocked tool stays blocked for its run; it is blocked only after a failure that the
\* model could not repair and that came back in that run, to a call of the run or, late,
\* to a call of an earlier one; and no hints wait for a forgotten thread.
THEOREM BlocksAreEarned == ProgressSpec => [](BlockIsFinal /\ BlockHasCause /\ NoPhantomHints)
  BY ProgressInvSound, ProgressInvariant, PTL

-----------------------------------------------------------------------------
(* The agent loop *)

CallNames == {"work", "task", "todos", "ask", "broken"}
CallRecord == [id : Nat \X Nat, name : CallNames]
Message == [type : {"human", "reminder", "ai", "tool"}, calls : Seq(CallRecord)]
Thread == [msgs : Seq(Message), todos : {"none", "open", "done", "unread"}]

CallsOf(msgs) == UNION {Members(m.calls) : m \in Members(msgs)}

\* A result is of one call, and behind the answer with that call, with nothing but
\* results between them.
ResultsFollow(msgs) ==
  \A k \in 1 .. Len(msgs) : msgs[k].type = "tool" =>
     /\ Len(msgs[k].calls) = 1
     /\ \E i \in 1 .. k - 1 : /\ msgs[i].type = "ai" /\ msgs[k].calls[1] \in Members(msgs[i].calls)
                              /\ \A j \in i + 1 .. k : msgs[j].type = "tool"

\* The messages of a thread after n answers: an id is of one call.
Transcript(msgs, n) ==
  /\ msgs \in Seq(Message)
  /\ \A c \in CallsOf(msgs) : c.id[1] \in 1 .. n
  /\ \A c, d \in CallsOf(msgs) : c.id = d.id => c = d
  /\ ResultsFollow(msgs)

\* The answer at p has only results behind it.
Tip(msgs, p) ==
  /\ p \in 1 .. Len(msgs) /\ msgs[p].type = "ai"
  /\ \A j \in p + 1 .. Len(msgs) : msgs[j].type = "tool"

Clean(calls) == \A c \in Members(calls) : c.name = "broken" \/ c.id \notin filtered
Unusable(calls) == \A c \in Members(calls) : c.name = "broken"

\* Each of the three threads is what answers, results and summaries can make.
ThreadsKept ==
  /\ chat \in Thread /\ saved \in Thread /\ compact \in Thread
  /\ compact = Unread \/ compact.todos # "unread"
  /\ Transcript(chat.msgs, counts.replies)
  /\ Transcript(saved.msgs, counts.replies)
  /\ Transcript(compact.msgs, counts.replies)

\* What is known of the last answer at the nodes behind the model.
LastAnswerKnown ==
  /\ at \in {"safety", "budget", "limit", "todo"} => Tip(chat.msgs, Len(chat.msgs))
  /\ at \in {"budget", "limit", "todo", "route", "tools"} =>
        \E p \in 1 .. Len(chat.msgs) : /\ Tip(chat.msgs, p) /\ Clean(chat.msgs[p].calls)
                                       /\ capped /\ at # "budget" => Unusable(chat.msgs[p].calls)

\* An id that ran is of an answer so far.
RanBefore == ran \subseteq (1 .. counts.replies) \X Nat

\* Every answer since the budget's stop was asked for by a reminder.
Budget ==
  /\ capped => spent >= TokenLimit /\ at # "tools" /\ since <= nudges
  /\ capped /\ at \in {"summarize", "remind", "asking"} => since + 1 <= nudges
  /\ ~capped => since = 0
  /\ spent <= counts.replies /\ since <= counts.replies
  /\ at \in {"safety", "budget"} => spent + 1 <= counts.replies

TurnsInv ==
  /\ TurnsTypeOK /\ ThreadsKept /\ LastAnswerKnown /\ RanBefore /\ Budget
  /\ CutOffNeverRuns

\* The elements of a sequence are its members.
LEMMA SeqElements ==
  ASSUME NEW S, NEW s \in Seq(S)
  PROVE  /\ Len(s) \in Nat /\ DOMAIN s = 1 .. Len(s) /\ Members(s) \subseteq S
         /\ \A i \in 1 .. Len(s) : s[i] \in S /\ s[i] \in Members(s)
         /\ \A x \in Members(s) : \E i \in 1 .. Len(s) : s[i] = x
         /\ s = <<>> <=> Members(s) = {}
<1>1. Len(s) \in Nat /\ DOMAIN s = 1 .. Len(s) /\ \A i \in 1 .. Len(s) : s[i] \in S
  OBVIOUS
<1>2. s # <<>> => 1 \in 1 .. Len(s)
  BY <1>1, EmptySeq
<1>3. s = <<>> => 1 .. Len(s) = {}
  OBVIOUS
<1> QED
  BY <1>1, <1>2, <1>3 DEF Members

\* Two lists joined, by their positions.
LEMMA JoinedAt ==
  ASSUME NEW S, NEW a \in Seq(S), NEW b \in Seq(S)
  PROVE  /\ a \o b \in Seq(S) /\ Len(a \o b) = Len(a) + Len(b)
         /\ \A i \in 1 .. Len(a) : (a \o b)[i] = a[i]
         /\ \A i \in 1 .. Len(b) : (a \o b)[Len(a) + i] = b[i]
         /\ \A k \in 1 .. Len(a \o b) : k \in 1 .. Len(a) \/ \E i \in 1 .. Len(b) : k = Len(a) + i
<1>1. Len(a) \in Nat /\ Len(b) \in Nat
  OBVIOUS
<1>2. PICK t : t = a \o b
  OBVIOUS
<1>3. /\ t \in Seq(S) /\ Len(t) = Len(a) + Len(b)
      /\ \A k \in 1 .. Len(a) + Len(b) : t[k] = IF k <= Len(a) THEN a[k] ELSE b[k - Len(a)]
  BY <1>2, ConcatProperties
<1>4. \A i \in 1 .. Len(a) : i \in 1 .. Len(a) + Len(b) /\ i <= Len(a)
  BY <1>1
<1>5. \A i \in 1 .. Len(b) : /\ Len(a) + i \in 1 .. Len(a) + Len(b) /\ ~(Len(a) + i <= Len(a))
                              /\ (Len(a) + i) - Len(a) = i
  BY <1>1
<1>6. \A i \in 1 .. Len(a) : t[i] = a[i]
  BY <1>3, <1>4
<1>7. \A i \in 1 .. Len(b) : t[Len(a) + i] = b[i]
  BY <1>3, <1>5
<1>8. \A k \in 1 .. Len(a) + Len(b) : k \in 1 .. Len(a) \/ \E i \in 1 .. Len(b) : k = Len(a) + i
  <2> TAKE k \in 1 .. Len(a) + Len(b)
  <2>1. k \in 1 .. Len(a) \/ (k - Len(a) \in 1 .. Len(b) /\ k = Len(a) + (k - Len(a)))
    BY <1>1
  <2> QED
    BY <2>1
<1> QED
  BY <1>2, <1>3, <1>6, <1>7, <1>8

\* What the filters of an answer's calls leave.
LEMMA CallFilters ==
  ASSUME NEW calls \in Seq(CallRecord)
  PROVE  /\ Valid(calls) \in Seq(CallRecord)
         /\ Members(Valid(calls)) = {c \in Members(calls) : c.name # "broken"}
         /\ Invalid(calls) \in Seq(CallRecord)
         /\ Members(Invalid(calls)) = {c \in Members(calls) : c.name = "broken"}
         /\ \A x : /\ Named(calls, x) \in Seq(CallRecord)
                   /\ Members(Named(calls, x)) = {c \in Members(calls) : c.name = x}
         /\ \A K : /\ Kept(calls, K) \in Seq(CallRecord)
                   /\ Members(Kept(calls, K)) = Members(calls) \cap K
  BY KeptProperties DEF Valid, Invalid, Named

\* A message that is no result is added.
LEMMA MessageAdded ==
  ASSUME NEW s, NEW n \in Nat, NEW k \in Nat, n <= k, Transcript(s, n),
         NEW m \in Message, m.type # "tool",
         \A c \in Members(m.calls) : c.id[1] \in 1 .. k,
         \A c \in Members(m.calls) : \A d \in CallsOf(s) \cup Members(m.calls) : c.id = d.id => c = d
  PROVE  /\ Transcript(Append(s, m), k)
         /\ Len(Append(s, m)) = Len(s) + 1 /\ Append(s, m)[Len(s) + 1] = m
<1>1. s \in Seq(Message) /\ Len(s) \in Nat
  BY DEF Transcript
<1>2. PICK t : t = Append(s, m)
  OBVIOUS
<1>3. /\ t \in Seq(Message) /\ Len(t) = Len(s) + 1 /\ t[Len(s) + 1] = m
      /\ \A i \in 1 .. Len(s) : t[i] = s[i]
  BY <1>1, <1>2
<1>4. Members(t) = Members(s) \cup {m}
  BY <1>1, <1>2, AppendAdds
<1>5. CallsOf(t) = CallsOf(s) \cup Members(m.calls)
  BY <1>4 DEF CallsOf
<1>6. \A c \in CallsOf(t) : c.id[1] \in 1 .. k
  <2>1. \A c \in CallsOf(s) : c.id[1] \in 1 .. k
    BY DEF Transcript
  <2> QED
    BY <1>5, <2>1
<1>7. \A c, d \in CallsOf(t) : c.id = d.id => c = d
  BY <1>5 DEF Transcript
<1>8. ResultsFollow(t)
  <2> SUFFICES ASSUME NEW x \in 1 .. Len(t), t[x].type = "tool"
               PROVE  /\ Len(t[x].calls) = 1
                      /\ \E i \in 1 .. x - 1 : /\ t[i].type = "ai"
                                               /\ t[x].calls[1] \in Members(t[i].calls)
                                               /\ \A j \in i + 1 .. x : t[j].type = "tool"
    BY DEF ResultsFollow
  <2>1. x \in 1 .. Len(s) /\ t[x] = s[x]
    BY <1>1, <1>3
  <2>2. Len(s[x].calls) = 1
    BY <2>1 DEF Transcript, ResultsFollow
  <2>3. PICK i \in 1 .. x - 1 : /\ s[i].type = "ai" /\ s[x].calls[1] \in Members(s[i].calls)
                                /\ \A j \in i + 1 .. x : s[j].type = "tool"
    BY <2>1 DEF Transcript, ResultsFollow
  <2>4. i \in 1 .. Len(s) /\ \A j \in i + 1 .. x : j \in 1 .. Len(s)
    BY <1>1, <2>1
  <2>5. t[i] = s[i] /\ \A j \in i + 1 .. x : t[j] = s[j]
    BY <1>3, <2>4
  <2> QED
    BY <2>1, <2>2, <2>3, <2>5
<1> QED
  BY <1>2, <1>3, <1>6, <1>7, <1>8 DEF Transcript

\* The last answer is replaced by one with fewer calls.
LEMMA AnswerReplaced ==
  ASSUME NEW s, NEW n \in Nat, Transcript(s, n), Tip(s, Len(s)),
         NEW calls \in Seq(CallRecord), Members(calls) \subseteq Members(s[Len(s)].calls)
  PROVE  LET t == [s EXCEPT ![Len(s)] = AI(calls)]
         IN  Transcript(t, n) /\ Len(t) = Len(s) /\ Tip(t, Len(t)) /\ t[Len(t)].calls = calls
<1>1. s \in Seq(Message) /\ Len(s) \in Nat /\ Len(s) \in 1 .. Len(s)
  BY DEF Transcript, Tip
<1>2. PICK m : m = AI(calls)
  OBVIOUS
<1>3. m \in Message /\ m.type = "ai" /\ m.calls = calls
  BY <1>2 DEF AI, Message
<1>4. PICK t : t = [s EXCEPT ![Len(s)] = AI(calls)]
  OBVIOUS
<1>5. /\ t \in Seq(Message) /\ Len(t) = Len(s) /\ t[Len(s)] = m
      /\ \A i \in 1 .. Len(s) - 1 : t[i] = s[i]
  BY <1>1, <1>2, <1>3, <1>4
<1>6. CallsOf(t) \subseteq CallsOf(s)
  <2> SUFFICES ASSUME NEW c \in CallsOf(t) PROVE c \in CallsOf(s)
    OBVIOUS
  <2>1. PICK i \in 1 .. Len(t) : c \in Members(t[i].calls)
    BY DEF CallsOf, Members
  <2>2. c \in Members(s[i].calls) /\ i \in 1 .. Len(s)
    BY <1>1, <1>3, <1>5, <2>1
  <2> QED
    BY <2>2 DEF CallsOf, Members
<1>7. ResultsFollow(t)
  <2> SUFFICES ASSUME NEW x \in 1 .. Len(t), t[x].type = "tool"
               PROVE  /\ Len(t[x].calls) = 1
                      /\ \E i \in 1 .. x - 1 : /\ t[i].type = "ai"
                                               /\ t[x].calls[1] \in Members(t[i].calls)
                                               /\ \A j \in i + 1 .. x : t[j].type = "tool"
    BY DEF ResultsFollow
  <2>1. x \in 1 .. Len(s) /\ x # Len(s) /\ t[x] = s[x]
    BY <1>1, <1>3, <1>5
  <2>2. Len(s[x].calls) = 1
    BY <2>1 DEF Transcript, ResultsFollow
  <2>3. PICK i \in 1 .. x - 1 : /\ s[i].type = "ai" /\ s[x].calls[1] \in Members(s[i].calls)
                                /\ \A j \in i + 1 .. x : s[j].type = "tool"
    BY <2>1 DEF Transcript, ResultsFollow
  <2>4. t[i] = s[i] /\ \A j \in i + 1 .. x : t[j] = s[j]
    BY <1>1, <1>5, <2>1
  <2> QED
    BY <2>1, <2>2, <2>3, <2>4
<1>8. Transcript(t, n)
  BY <1>5, <1>6, <1>7 DEF Transcript
<1>9. Tip(t, Len(t)) /\ t[Len(t)].calls = calls
  BY <1>1, <1>3, <1>5 DEF Tip
<1> QED
  BY <1>4, <1>5, <1>8, <1>9

\* Old messages are dropped, but not between an answer and its results.
LEMMA MessagesDropped ==
  ASSUME NEW s, NEW n \in Nat, Transcript(s, n), NEW k \in Cuts(s)
  PROVE  Transcript(After(s, k), n)
<1>1. s \in Seq(Message) /\ Len(s) \in Nat
  BY DEF Transcript
<1>2. k \in 1 .. Len(s) - 1 /\ s[k + 1].type # "tool"
  BY DEF Cuts
<1>3. PICK t : t = SubSeq(s, k + 1, Len(s))
  OBVIOUS
<1>4. t \in Seq(Message) /\ Len(t) = Len(s) - k /\ \A i \in 1 .. Len(t) : t[i] = s[k + i]
  BY <1>1, <1>2, <1>3
<1>5. \A i \in 1 .. Len(t) : k + i \in 1 .. Len(s)
  BY <1>1, <1>2, <1>4
<1>6. CallsOf(t) \subseteq CallsOf(s)
  <2>1. Members(t) \subseteq Members(s)
    BY <1>4, <1>5 DEF Members
  <2> QED
    BY <2>1 DEF CallsOf
<1>7. ResultsFollow(t)
  <2> SUFFICES ASSUME NEW x \in 1 .. Len(t), t[x].type = "tool"
               PROVE  /\ Len(t[x].calls) = 1
                      /\ \E i \in 1 .. x - 1 : /\ t[i].type = "ai"
                                               /\ t[x].calls[1] \in Members(t[i].calls)
                                               /\ \A j \in i + 1 .. x : t[j].type = "tool"
    BY DEF ResultsFollow
  <2>1. PICK y \in 1 .. Len(s) : y = k + x /\ t[x] = s[y]
    BY <1>4, <1>5
  <2>2. Len(s[y].calls) = 1
    BY <2>1 DEF Transcript, ResultsFollow
  <2>3. PICK i \in 1 .. y - 1 : /\ s[i].type = "ai" /\ s[y].calls[1] \in Members(s[i].calls)
                                /\ \A j \in i + 1 .. y : s[j].type = "tool"
    BY <2>1 DEF Transcript, ResultsFollow
  <2>4. i \in Nat /\ x \in Nat /\ x >= 1 /\ k \in Nat /\ i <= k + x - 1 /\ i >= 1
    <3>1. k \in Nat /\ Len(t) \in Nat
      BY <1>1, <1>2, <1>4
    <3>2. x \in Nat /\ x >= 1 /\ y = k + x
      BY <2>1, <3>1
    <3> QED
      BY <3>1, <3>2
  <2>5. i > k
    <3>1. ~(k + 1 \in i + 1 .. y)
      BY <1>2, <2>3
    <3> QED
      BY <2>1, <2>4, <3>1
  <2>6. i - k \in 1 .. x - 1 /\ k + (i - k) = i
    BY <2>4, <2>5
  <2>7. \A j \in (i - k) + 1 .. x : j \in 1 .. Len(t) /\ k + j \in i + 1 .. y
    BY <1>1, <1>2, <1>4, <2>1, <2>4, <2>5
  <2>8. i - k \in 1 .. Len(t)
    BY <1>1, <1>2, <1>4, <2>4, <2>6
  <2>9. t[i - k] = s[i] /\ \A j \in (i - k) + 1 .. x : t[j] = s[k + j]
    BY <1>4, <2>6, <2>7, <2>8
  <2>10. \A j \in (i - k) + 1 .. x : t[j].type = "tool"
    BY <2>3, <2>7, <2>9
  <2> QED
    BY <2>1, <2>2, <2>3, <2>6, <2>9, <2>10
<1> QED
  BY <1>3, <1>4, <1>6, <1>7 DEF Transcript, After

\* Results of calls of the last answer are added behind it.
LEMMA ResultsAdded ==
  ASSUME NEW s, NEW n \in Nat, Transcript(s, n), NEW p, Tip(s, p),
         NEW r \in Seq(CallRecord), Members(r) \subseteq Members(s[p].calls),
         NEW q, q = [i \in DOMAIN r |-> ToolResult(r[i])]
  PROVE  \A t : t = s \o q => /\ Transcript(t, n) /\ Tip(t, p)
                              /\ \A x \in 1 .. Len(s) : t[x] = s[x]
<1>1. s \in Seq(Message) /\ Len(s) \in Nat /\ p \in 1 .. Len(s) /\ Len(r) \in Nat /\ DOMAIN r = 1 .. Len(r)
  BY DEF Transcript, Tip
<1>2. q = [i \in DOMAIN r |-> ToolResult(r[i])]
  OBVIOUS
<1>3. \A i \in 1 .. Len(r) : r[i] \in CallRecord /\ r[i] \in Members(r)
  BY <1>1 DEF Members
<1>4. \A c \in CallRecord : /\ ToolResult(c) \in Message /\ ToolResult(c).type = "tool"
                            /\ ToolResult(c).calls = <<c>>
  <2> TAKE c \in CallRecord
  <2>1. <<c>> \in Seq(CallRecord)
    OBVIOUS
  <2> QED
    BY <2>1 DEF ToolResult, Message
<1>5. q \in Seq(Message) /\ Len(q) = Len(r) /\ \A i \in 1 .. Len(r) : q[i] = ToolResult(r[i])
  <2>1. q \in [1 .. Len(r) -> Message]
    BY <1>1, <1>2, <1>3, <1>4
  <2> QED
    BY <1>1, <1>2, <2>1
<1>6. PICK t : t = s \o q
  OBVIOUS
<1>7. /\ t \in Seq(Message) /\ Len(t) = Len(s) + Len(r)
      /\ \A i \in 1 .. Len(s) : t[i] = s[i]
      /\ \A i \in 1 .. Len(r) : t[Len(s) + i] = q[i]
      /\ \A x \in 1 .. Len(t) : x \in 1 .. Len(s) \/ \E i \in 1 .. Len(r) : x = Len(s) + i
  <2>1. s \in Seq(Message) /\ q \in Seq(Message)
    BY <1>1, <1>5
  <2>2. /\ s \o q \in Seq(Message) /\ Len(s \o q) = Len(s) + Len(q)
        /\ \A i \in 1 .. Len(s) : (s \o q)[i] = s[i]
        /\ \A i \in 1 .. Len(q) : (s \o q)[Len(s) + i] = q[i]
        /\ \A x \in 1 .. Len(s \o q) : x \in 1 .. Len(s) \/ \E i \in 1 .. Len(q) : x = Len(s) + i
    BY <2>1, JoinedAt
  <2>3. Len(q) = Len(r)
    BY <1>5
  <2> QED
    BY <1>6, <2>2, <2>3, Zenon
<1>8. \A x \in 1 .. Len(t) : \/ x \in 1 .. Len(s) /\ t[x] = s[x]
                             \/ /\ x > Len(s) /\ t[x].type = "tool"
                                /\ \E c \in Members(r) : t[x].calls = <<c>>
  <2> TAKE x \in 1 .. Len(t)
  <2>1. CASE x \in 1 .. Len(s)
    BY <1>7, <2>1
  <2>2. CASE \E i \in 1 .. Len(r) : x = Len(s) + i
    <3>1. PICK i \in 1 .. Len(r) : x = Len(s) + i
      BY <2>2
    <3>2. t[x] = ToolResult(r[i])
      BY <1>5, <1>7, <3>1
    <3>3. t[x].type = "tool" /\ t[x].calls = <<r[i]>> /\ r[i] \in Members(r)
      BY <1>3, <1>4, <3>2
    <3>4. x > Len(s)
      BY <1>1, <3>1
    <3> QED
      BY <3>3, <3>4
  <2> QED
    BY <1>7, <2>1, <2>2
<1>9. \A c : Members(<<c>>) = {c}
  BY DEF Members
<1>10. CallsOf(t) \subseteq CallsOf(s)
  <2> SUFFICES ASSUME NEW c \in CallsOf(t) PROVE c \in CallsOf(s)
    OBVIOUS
  <2>1. PICK x \in 1 .. Len(t) : c \in Members(t[x].calls)
    BY DEF CallsOf, Members
  <2>2. CASE x \in 1 .. Len(s) /\ t[x] = s[x]
    BY <2>1, <2>2 DEF CallsOf, Members
  <2>3. CASE \E d \in Members(r) : t[x].calls = <<d>>
    <3>1. c \in Members(s[p].calls)
      BY <1>9, <2>1, <2>3
    <3> QED
      BY <1>1, <3>1 DEF CallsOf, Members
  <2> QED
    BY <1>8, <2>2, <2>3
<1>11. Tip(t, p) /\ t[p] = s[p]
  <2>1. p \in 1 .. Len(t) /\ t[p] = s[p]
    BY <1>1, <1>7
  <2>2. \A j \in p + 1 .. Len(t) : t[j].type = "tool"
    <3> TAKE j \in p + 1 .. Len(t)
    <3>1. j \in 1 .. Len(t) /\ (j \in 1 .. Len(s) => j \in p + 1 .. Len(s))
      BY <1>1, <1>7
    <3> QED
      BY <1>8, <3>1 DEF Tip
  <2> QED
    BY <2>1, <2>2 DEF Tip
<1>12. ResultsFollow(t)
  <2> SUFFICES ASSUME NEW x \in 1 .. Len(t), t[x].type = "tool"
               PROVE  /\ Len(t[x].calls) = 1
                      /\ \E i \in 1 .. x - 1 : /\ t[i].type = "ai"
                                               /\ t[x].calls[1] \in Members(t[i].calls)
                                               /\ \A j \in i + 1 .. x : t[j].type = "tool"
    BY DEF ResultsFollow
  <2>1. CASE x \in 1 .. Len(s) /\ t[x] = s[x]
    <3>1. Len(s[x].calls) = 1
      BY <2>1 DEF Transcript, ResultsFollow
    <3>2. PICK i \in 1 .. x - 1 : /\ s[i].type = "ai" /\ s[x].calls[1] \in Members(s[i].calls)
                                  /\ \A j \in i + 1 .. x : s[j].type = "tool"
      BY <2>1 DEF Transcript, ResultsFollow
    <3>3. i \in 1 .. Len(s) /\ \A j \in i + 1 .. x : j \in 1 .. Len(s)
      BY <1>1, <2>1
    <3>4. t[i] = s[i] /\ \A j \in i + 1 .. x : t[j] = s[j]
      BY <1>7, <3>3
    <3> QED
      BY <2>1, <3>1, <3>2, <3>4
  <2>2. CASE x > Len(s) /\ \E c \in Members(r) : t[x].calls = <<c>>
    <3>1. PICK c \in Members(r) : t[x].calls = <<c>>
      BY <2>2
    <3>2. Len(t[x].calls) = 1 /\ t[x].calls[1] = c /\ c \in Members(t[p].calls)
      BY <1>11, <3>1
    <3>3. p \in 1 .. x - 1 /\ \A j \in p + 1 .. x : j \in p + 1 .. Len(t)
      BY <1>1, <1>7, <2>2
    <3> QED
      BY <1>11, <3>2, <3>3 DEF Tip
  <2> QED
    BY <1>8, <2>1, <2>2
<1>13. Transcript(t, n)
  BY <1>7, <1>10, <1>12 DEF Transcript
<1> QED
  BY <1>6, <1>7, <1>11, <1>13

\* LastAI is the answer that has only results behind it.
LEMMA LastAnswer ==
  ASSUME Messages \in Seq(Message), NEW p, Tip(Messages, p)
  PROVE  LastAI = Messages[p]
<1>1. DOMAIN Messages = 1 .. Len(Messages) /\ Len(Messages) \in Nat /\ p \in DOMAIN Messages
  BY DEF Tip
<1>2. \A j \in DOMAIN Messages : Messages[j].type = "ai" => j <= p
  <2> TAKE j \in DOMAIN Messages
  <2>1. j <= p \/ j \in p + 1 .. Len(Messages)
    BY <1>1
  <2> QED
    BY <2>1 DEF Tip
<1>3. \A i \in DOMAIN Messages :
         Messages[i].type = "ai" /\ (\A j \in DOMAIN Messages : Messages[j].type = "ai" => j <= i) => i = p
  <2> SUFFICES ASSUME NEW i \in DOMAIN Messages, Messages[i].type = "ai",
                      \A j \in DOMAIN Messages : Messages[j].type = "ai" => j <= i
               PROVE  i = p
    OBVIOUS
  <2>1. p <= i /\ i <= p
    BY <1>1, <1>2 DEF Tip
  <2> QED
    BY <1>1, <2>1
<1>4. Messages[p].type = "ai"
  BY DEF Tip
<1>5. (CHOOSE i \in DOMAIN Messages :
          Messages[i].type = "ai" /\ \A j \in DOMAIN Messages : Messages[j].type = "ai" => j <= i) = p
  BY <1>1, <1>2, <1>3, <1>4
<1> QED
  BY <1>5 DEF LastAI

\* The recursion of FlattenSeq has a solution, with values that are sequences.
LEMMA FlattenExists ==
  ASSUME NEW S, NEW s \in Seq(Seq(S)), Len(s) # 0
  PROVE  \E f : f = [i \in 1 .. Len(s) |-> IF i = 1 THEN s[i] ELSE f[i - 1] \o s[i]]
<1> DEFINE Solves(f, m) ==
             /\ f \in [1 .. m -> Seq(S)]
             /\ f[1] = s[1]
             /\ \A n \in 2 .. m : f[n] = f[n - 1] \o s[n]
           P == {m \in Nat : m + 1 <= Len(s) => \E f : Solves(f, m + 1)}
<1>1. Len(s) \in Nat /\ \A i \in 1 .. Len(s) : s[i] \in Seq(S)
  OBVIOUS
<1>2. 0 \in P
  <2>1. PICK f : f = [n \in 1 .. 0 + 1 |-> s[1]]
    OBVIOUS
  <2>2. s[1] \in Seq(S)
    BY <1>1
  <2>3. f \in [1 .. 0 + 1 -> Seq(S)] /\ f[1] = s[1]
    BY <2>1, <2>2
  <2>4. Solves(f, 0 + 1)
    BY <2>3
  <2> HIDE DEF Solves
  <2> QED
    BY <2>4
<1>3. ASSUME NEW k \in Nat, k \in P
      PROVE  k + 1 \in P
  <2>1. SUFFICES ASSUME NEW m \in Nat, m = k + 1, m + 1 <= Len(s)
                 PROVE  \E g : Solves(g, m + 1)
    <3> HIDE DEF Solves
    <3> QED OBVIOUS
  <2>2. PICK f : Solves(f, m)
    <3> HIDE DEF Solves
    <3> QED BY <1>1, <1>3, <2>1
  <2>3. s[m + 1] \in Seq(S) /\ f[m] \in Seq(S)
    BY <1>1, <2>1, <2>2
  <2>4. PICK v \in Seq(S) : v = f[m] \o s[m + 1]
    BY <2>3, ConcatProperties
  <2>5. PICK g : g = [n \in 1 .. m + 1 |-> IF n = m + 1 THEN v ELSE f[n]]
    OBVIOUS
  <2>6. g \in [1 .. m + 1 -> Seq(S)]
    <3>1. \A n \in 1 .. m + 1 : n # m + 1 => n \in 1 .. m
      OBVIOUS
    <3> QED
      BY <2>2, <2>4, <2>5, <3>1
  <2>7. g[1] = s[1]
    <3>1. 1 \in 1 .. m + 1 /\ 1 # m + 1
      BY <2>1
    <3> QED
      BY <2>2, <2>5, <3>1
  <2>8. ASSUME NEW n \in 2 .. m + 1
        PROVE  g[n] = g[n - 1] \o s[n]
    <3>1. CASE n = m + 1
      <4>1. m \in 1 .. m + 1 /\ n - 1 = m /\ m # m + 1 /\ n \in 1 .. m + 1
        BY <2>1, <3>1
      <4>2. g[n] = v /\ g[n - 1] = f[m]
        BY <2>5, <3>1, <4>1
      <4> QED
        BY <2>4, <3>1, <4>2
    <3>2. CASE n # m + 1
      <4>1. n \in 2 .. m /\ n - 1 \in 1 .. m + 1 /\ n - 1 # m + 1 /\ n \in 1 .. m + 1
        BY <3>2
      <4>2. g[n] = f[n] /\ g[n - 1] = f[n - 1]
        BY <2>5, <3>2, <4>1
      <4> QED
        BY <2>2, <4>1, <4>2
    <3> QED
      BY <3>1, <3>2
  <2> QED
    BY <2>6, <2>7, <2>8
<1>4. PICK k \in Nat : k + 1 = Len(s)
  <2>1. Len(s) - 1 \in Nat /\ (Len(s) - 1) + 1 = Len(s)
    BY <1>1
  <2> QED
    BY <2>1
<1>5. k \in P
  <2> HIDE DEF P
  <2> QED BY <1>2, <1>3, NatByInduction
<1>6. PICK f : Solves(f, Len(s))
  <2> HIDE DEF Solves
  <2> QED BY <1>1, <1>4, <1>5
<1>7. f = [i \in 1 .. Len(s) |-> IF i = 1 THEN s[i] ELSE f[i - 1] \o s[i]]
  <2>1. \A i \in 1 .. Len(s) : i # 1 => i \in 2 .. Len(s)
    BY <1>1
  <2> QED
    BY <1>6, <2>1
<1> QED
  BY <1>7

\* The recursion, unfolded.
LEMMA FlattenUnfolds ==
  ASSUME NEW S, NEW s \in Seq(Seq(S)), Len(s) # 0
  PROVE  \E f : /\ FlattenSeq(s) = f[Len(s)] /\ f[1] = s[1]
                /\ \A n \in 2 .. Len(s) : f[n] = f[n - 1] \o s[n]
<1> DEFINE Eqn(g) == g = [i \in 1 .. Len(s) |-> IF i = 1 THEN s[i] ELSE g[i - 1] \o s[i]]
           f == CHOOSE g : Eqn(g)
<1>1. \E g : Eqn(g)
  BY FlattenExists, ZenonT(60)
<1>2. FlattenSeq(s) = f[Len(s)]
  BY ZenonT(60) DEF FlattenSeq
<1>3. Eqn(f)
  <2> HIDE DEF Eqn
  <2> QED BY <1>1, Zenon
<1> HIDE DEF f
<1>4. ASSUME NEW n \in 1 .. Len(s)
      PROVE  f[n] = IF n = 1 THEN s[n] ELSE f[n - 1] \o s[n]
  BY <1>3, Zenon
<1>5. Len(s) \in Nat
  OBVIOUS
<1> HIDE DEF Eqn
<1>6. f[1] = s[1]
  <2>1. 1 \in 1 .. Len(s)
    BY <1>5
  <2> QED
    BY <1>4, <2>1, Zenon
<1>7. ASSUME NEW n \in 2 .. Len(s)
      PROVE  f[n] = f[n - 1] \o s[n]
  <2>1. n \in 1 .. Len(s) /\ n # 1
    BY <1>5
  <2> QED
    BY <1>4, <2>1, Zenon
<1> QED
  BY <1>2, <1>6, <1>7

\* What every piece is, and joining keeps, the whole is; and it has every piece's
\* members.
LEMMA FlattenKeeps ==
  ASSUME NEW S, NEW W \in SUBSET Seq(S), NEW s \in Seq(W), <<>> \in W,
         \A a, b \in W : a \o b \in W
  PROVE  /\ FlattenSeq(s) \in W
         /\ \A i \in 1 .. Len(s) : Members(s[i]) \subseteq Members(FlattenSeq(s))
<1>1. Len(s) \in Nat /\ \A i \in 1 .. Len(s) : s[i] \in W
  OBVIOUS
<1>2. CASE Len(s) = 0
  <2>1. s = <<>>
    BY <1>2, EmptySeq
  <2>2. FlattenSeq(s) = s
    BY <1>2 DEF FlattenSeq
  <2> QED
    BY <1>2, <2>1, <2>2
<1>3. CASE Len(s) # 0
  <2>1. s \in Seq(Seq(S))
    BY <1>1
  <2>2. PICK f : /\ FlattenSeq(s) = f[Len(s)] /\ f[1] = s[1]
                 /\ \A n \in 2 .. Len(s) : f[n] = f[n - 1] \o s[n]
    BY <1>3, <2>1, FlattenUnfolds
  <2> DEFINE Upto(m) == f[m] \in W /\ \A i \in 1 .. m : Members(s[i]) \subseteq Members(f[m])
             P == {m \in Nat : m + 1 <= Len(s) => Upto(m + 1)}
  <2>3. 0 \in P
    <3>1. 1 \in 1 .. Len(s) /\ \A i \in 1 .. 0 + 1 : i = 1
      BY <1>1, <1>3
    <3>2. 0 + 1 = 1
      OBVIOUS
    <3>3. f[0 + 1] = s[1] /\ s[1] \in W
      BY <1>1, <2>2, <3>1, <3>2
    <3>4. \A i \in 1 .. 0 + 1 : Members(s[i]) \subseteq Members(f[0 + 1])
      BY <3>1, <3>3
    <3> QED
      BY <3>3, <3>4
  <2>4. ASSUME NEW k \in Nat, k \in P PROVE k + 1 \in P
    <3>1. SUFFICES ASSUME NEW m \in Nat, m = k + 1, m + 1 <= Len(s)
                   PROVE  Upto(m + 1)
      <4> HIDE DEF Upto
      <4> QED OBVIOUS
    <3>2. f[m] \in W /\ \A i \in 1 .. m : Members(s[i]) \subseteq Members(f[m])
      BY <1>1, <2>4, <3>1
    <3>3. m + 1 \in 2 .. Len(s) /\ m + 1 \in 1 .. Len(s) /\ (m + 1) - 1 = m
      BY <1>1, <3>1
    <3>4. PICK a, b : a = f[m] /\ b = s[m + 1]
      OBVIOUS
    <3>5. f[m + 1] = a \o b /\ a \in W /\ b \in W
      BY <1>1, <2>2, <3>2, <3>3, <3>4
    <3>6. a \in Seq(S) /\ b \in Seq(S)
      BY <3>5
    <3>7. /\ Len(a) \in Nat /\ Len(b) \in Nat /\ Len(a \o b) = Len(a) + Len(b)
          /\ \A i \in 1 .. Len(a) : (a \o b)[i] = a[i]
          /\ \A i \in 1 .. Len(b) : (a \o b)[Len(a) + i] = b[i]
      BY <3>6, JoinedAt
    <3>8. /\ \A i \in 1 .. Len(a) : i \in 1 .. Len(a \o b)
          /\ \A i \in 1 .. Len(b) : Len(a) + i \in 1 .. Len(a \o b)
      BY <3>7
    <3>9. Members(a) \subseteq Members(a \o b) /\ Members(b) \subseteq Members(a \o b)
      <4>1. PICK t : t = a \o b
        OBVIOUS
      <4>2. /\ \A i \in 1 .. Len(a) : i \in 1 .. Len(t) /\ t[i] = a[i]
            /\ \A i \in 1 .. Len(b) : Len(a) + i \in 1 .. Len(t) /\ t[Len(a) + i] = b[i]
        BY <3>7, <3>8, <4>1
      <4>3. Members(a) \subseteq Members(t)
        BY <4>2 DEF Members
      <4>4. Members(b) \subseteq Members(t)
        BY <4>2 DEF Members
      <4> QED
        BY <4>1, <4>3, <4>4
    <3>10. \A i \in 1 .. m + 1 : i = m + 1 \/ i \in 1 .. m
      OBVIOUS
    <3> QED
      BY <3>2, <3>4, <3>5, <3>9, <3>10
  <2>5. PICK k \in Nat : k + 1 = Len(s)
    <3>1. Len(s) - 1 \in Nat /\ (Len(s) - 1) + 1 = Len(s)
      BY <1>1, <1>3
    <3> QED
      BY <3>1
  <2>6. k \in P
    <3> HIDE DEF P
    <3> QED BY <2>3, <2>4, NatByInduction
  <2> QED
    BY <1>1, <2>2, <2>5, <2>6
<1> QED
  BY <1>2, <1>3

RequestMessage == [type : {"human", "reminder", "ai", "tool", "placeholder"}, calls : Seq(CallRecord)]

\* The two halves of what a provider accepts, from element-wise facts.
LEMMA IsWellFormed ==
  ASSUME NEW t \in Seq(RequestMessage),
         \A i \in 1 .. Len(t) : t[i].type = "ai" =>
            \A j \in 1 .. Len(t[i].calls) : i + j \in 1 .. Len(t) /\ IsResult(t[i + j], t[i].calls[j]),
         \A k \in 1 .. Len(t) : t[k].type \in {"tool", "placeholder"} =>
            \E i \in 1 .. k - 1 : /\ t[i].type = "ai" /\ k - i \in 1 .. Len(t[i].calls)
                                  /\ t[k].calls[1] = t[i].calls[k - i]
  PROVE  WellFormed(t)
<1>1. DOMAIN t = 1 .. Len(t)
  OBVIOUS
<1>2. \A i \in 1 .. Len(t) : t[i].calls \in Seq(CallRecord)
  <2> TAKE i \in 1 .. Len(t)
  <2>1. t[i] \in RequestMessage
    OBVIOUS
  <2> QED
    BY <2>1 DEF RequestMessage
<1>3. \A i \in 1 .. Len(t) : DOMAIN t[i].calls = 1 .. Len(t[i].calls)
  BY <1>2
<1>4. ASSUME NEW i \in DOMAIN t, t[i].type = "ai", NEW j \in DOMAIN t[i].calls
      PROVE  i + j \in DOMAIN t /\ IsResult(t[i + j], t[i].calls[j])
  BY <1>1, <1>3, <1>4
<1>5. ASSUME NEW k \in DOMAIN t, t[k].type \in {"tool", "placeholder"}
      PROVE  \E i \in 1 .. k - 1 : /\ t[i].type = "ai" /\ k - i \in DOMAIN t[i].calls
                                   /\ t[k].calls[1] = t[i].calls[k - i]
  <2>1. PICK i \in 1 .. k - 1 : /\ t[i].type = "ai" /\ k - i \in 1 .. Len(t[i].calls)
                                /\ t[k].calls[1] = t[i].calls[k - i]
    BY <1>1, <1>5
  <2>2. i \in 1 .. Len(t)
    BY <1>1, <1>5
  <2> QED
    BY <1>3, <2>1, <2>2
<1> QED
  BY <1>4, <1>5 DEF WellFormed

\* The same facts, read off a request the provider accepts.
LEMMA WellFormedIs ==
  ASSUME NEW t \in Seq(RequestMessage), WellFormed(t)
  PROVE  /\ \A i \in 1 .. Len(t) : t[i].type = "ai" =>
              \A j \in 1 .. Len(t[i].calls) : i + j \in 1 .. Len(t) /\ IsResult(t[i + j], t[i].calls[j])
         /\ \A k \in 1 .. Len(t) : t[k].type \in {"tool", "placeholder"} =>
              \E i \in 1 .. k - 1 : /\ t[i].type = "ai" /\ k - i \in 1 .. Len(t[i].calls)
                                    /\ t[k].calls[1] = t[i].calls[k - i]
<1>1. DOMAIN t = 1 .. Len(t) /\ Len(t) \in Nat
  OBVIOUS
<1>2. \A i \in 1 .. Len(t) : t[i].calls \in Seq(CallRecord)
  <2> TAKE i \in 1 .. Len(t)
  <2>1. t[i] \in RequestMessage
    OBVIOUS
  <2> QED
    BY <2>1 DEF RequestMessage
<1>3. \A i \in 1 .. Len(t) : DOMAIN t[i].calls = 1 .. Len(t[i].calls)
  BY <1>2
<1>4. ASSUME NEW i \in 1 .. Len(t), t[i].type = "ai", NEW j \in 1 .. Len(t[i].calls)
      PROVE  i + j \in 1 .. Len(t) /\ IsResult(t[i + j], t[i].calls[j])
  BY <1>1, <1>3, <1>4 DEF WellFormed
<1>5. ASSUME NEW k \in 1 .. Len(t), t[k].type \in {"tool", "placeholder"}
      PROVE  \E i \in 1 .. k - 1 : /\ t[i].type = "ai" /\ k - i \in 1 .. Len(t[i].calls)
                                   /\ t[k].calls[1] = t[i].calls[k - i]
  <2>1. PICK i \in 1 .. k - 1 : /\ t[i].type = "ai" /\ k - i \in DOMAIN t[i].calls
                                /\ t[k].calls[1] = t[i].calls[k - i]
    BY <1>1, <1>5 DEF WellFormed
  <2>2. i \in 1 .. Len(t)
    BY <1>1, <1>5
  <2> QED
    BY <1>3, <2>1, <2>2
<1> QED
  BY <1>4, <1>5

\* Two well formed requests joined are one.
LEMMA WellFormedJoins ==
  ASSUME NEW a \in Seq(RequestMessage), NEW b \in Seq(RequestMessage), WellFormed(a), WellFormed(b)
  PROVE  WellFormed(a \o b)
<1>1. Len(a) \in Nat /\ Len(b) \in Nat
  OBVIOUS
<1>2. PICK t : t = a \o b
  OBVIOUS
<1>3. /\ t \in Seq(RequestMessage) /\ Len(t) = Len(a) + Len(b)
      /\ \A i \in 1 .. Len(a) : t[i] = a[i]
      /\ \A i \in 1 .. Len(b) : t[Len(a) + i] = b[i]
      /\ \A k \in 1 .. Len(t) : k \in 1 .. Len(a) \/ \E i \in 1 .. Len(b) : k = Len(a) + i
  <2>1. /\ a \o b \in Seq(RequestMessage) /\ Len(a \o b) = Len(a) + Len(b)
        /\ \A i \in 1 .. Len(a) : (a \o b)[i] = a[i]
        /\ \A i \in 1 .. Len(b) : (a \o b)[Len(a) + i] = b[i]
        /\ \A k \in 1 .. Len(a \o b) : k \in 1 .. Len(a) \/ \E i \in 1 .. Len(b) : k = Len(a) + i
    BY JoinedAt
  <2> QED
    BY <1>2, <2>1, Zenon
<1>4. \A x : x \in Seq(RequestMessage) => \A i \in 1 .. Len(x) : Len(x[i].calls) \in Nat
  <2> TAKE x
  <2> HAVE x \in Seq(RequestMessage)
  <2> TAKE i \in 1 .. Len(x)
  <2>1. x[i] \in RequestMessage
    OBVIOUS
  <2>2. x[i].calls \in Seq(CallRecord)
    BY <2>1 DEF RequestMessage
  <2> QED
    BY <2>2
<1>5. ASSUME NEW i \in 1 .. Len(t), t[i].type = "ai", NEW j \in 1 .. Len(t[i].calls)
      PROVE  i + j \in 1 .. Len(t) /\ IsResult(t[i + j], t[i].calls[j])
  <2>1. CASE i \in 1 .. Len(a)
    <3>1. t[i] = a[i] /\ i + j \in 1 .. Len(a) /\ IsResult(a[i + j], a[i].calls[j])
      BY <1>3, <1>5, <2>1, WellFormedIs
    <3>2. i + j \in 1 .. Len(t) /\ t[i + j] = a[i + j]
      BY <1>1, <1>3, <3>1
    <3> QED
      BY <3>1, <3>2
  <2>2. CASE \E x \in 1 .. Len(b) : i = Len(a) + x
    <3>1. PICK x \in 1 .. Len(b) : i = Len(a) + x
      BY <2>2
    <3>2. t[i] = b[x]
      BY <1>3, <3>1
    <3>3. x + j \in 1 .. Len(b) /\ IsResult(b[x + j], b[x].calls[j])
      BY <1>5, <3>2, WellFormedIs
    <3>4. j \in Nat
      BY <1>3, <1>4, <1>5
    <3>5. i + j = Len(a) + (x + j) /\ i + j \in 1 .. Len(t)
      <4>1. x \in Nat /\ Len(t) = Len(a) + Len(b) /\ x + j \in 1 .. Len(b)
        BY <1>1, <1>3, <3>3
      <4> QED
        BY <1>1, <3>1, <3>4, <4>1
    <3>6. t[i + j] = b[x + j]
      BY <1>3, <3>3, <3>5
    <3> QED
      BY <3>2, <3>3, <3>5, <3>6
  <2> QED
    BY <1>3, <2>1, <2>2
<1>6. ASSUME NEW k \in 1 .. Len(t), t[k].type \in {"tool", "placeholder"}
      PROVE  \E i \in 1 .. k - 1 : /\ t[i].type = "ai" /\ k - i \in 1 .. Len(t[i].calls)
                                   /\ t[k].calls[1] = t[i].calls[k - i]
  <2>1. CASE k \in 1 .. Len(a)
    <3>1. t[k] = a[k]
      BY <1>3, <2>1
    <3>2. PICK i \in 1 .. k - 1 : /\ a[i].type = "ai" /\ k - i \in 1 .. Len(a[i].calls)
                                  /\ a[k].calls[1] = a[i].calls[k - i]
      BY <1>6, <2>1, <3>1, WellFormedIs
    <3>3. i \in 1 .. Len(a)
      BY <1>1, <2>1
    <3>4. t[i] = a[i]
      BY <1>3, <3>3
    <3> QED
      BY <3>1, <3>2, <3>4
  <2>2. CASE \E x \in 1 .. Len(b) : k = Len(a) + x
    <3>1. PICK x \in 1 .. Len(b) : k = Len(a) + x
      BY <2>2
    <3>2. t[k] = b[x]
      BY <1>3, <3>1
    <3>3. PICK i \in 1 .. x - 1 : /\ b[i].type = "ai" /\ x - i \in 1 .. Len(b[i].calls)
                                  /\ b[x].calls[1] = b[i].calls[x - i]
      BY <1>6, <3>2, WellFormedIs
    <3>4. i \in 1 .. Len(b) /\ Len(a) + i \in 1 .. k - 1 /\ k - (Len(a) + i) = x - i
      BY <1>1, <3>1
    <3>5. t[Len(a) + i] = b[i]
      BY <1>3, <3>4
    <3> QED
      BY <3>2, <3>3, <3>4, <3>5
  <2> QED
    BY <1>3, <2>1, <2>2
<1>7. WellFormed(t)
  BY <1>3, <1>5, <1>6, IsWellFormed
<1> QED
  BY <1>2, <1>7

\* Two results of one call are the same message.
LEMMA RecordsEqual ==
  ASSUME NEW x \in Message, NEW y \in Message, x.type = y.type, NEW c,
         Len(x.calls) = 1, x.calls[1] = c, Len(y.calls) = 1, y.calls[1] = c
  PROVE  x = y
<1>1. x.calls \in Seq(CallRecord) /\ y.calls \in Seq(CallRecord)
  BY DEF Message
<1>2. x.calls = y.calls
  BY <1>1, SeqEqual
<1> QED
  BY <1>2 DEF Message

\* An answer followed by a result or placeholder of each of its calls.
LEMMA PieceWellFormed ==
  ASSUME NEW m \in RequestMessage, m.type = "ai", NEW q \in Seq(RequestMessage),
         Len(q) = Len(m.calls),
         \A j \in 1 .. Len(q) : /\ q[j].type \in {"tool", "placeholder"}
                                /\ q[j].calls[1] = m.calls[j]
  PROVE  <<m>> \o q \in Seq(RequestMessage) /\ WellFormed(<<m>> \o q)
<1>1. Len(q) \in Nat /\ <<m>> \in Seq(RequestMessage) /\ Len(<<m>>) = 1 /\ <<m>>[1] = m
  OBVIOUS
<1>2. PICK t : t = <<m>> \o q
  OBVIOUS
<1>3. /\ t \in Seq(RequestMessage) /\ Len(t) = 1 + Len(q)
      /\ t[1] = m /\ \A i \in 1 .. Len(q) : t[1 + i] = q[i]
  <2>1. /\ <<m>> \o q \in Seq(RequestMessage) /\ Len(<<m>> \o q) = Len(<<m>>) + Len(q)
        /\ \A i \in 1 .. Len(<<m>>) : (<<m>> \o q)[i] = <<m>>[i]
        /\ \A i \in 1 .. Len(q) : (<<m>> \o q)[Len(<<m>>) + i] = q[i]
    BY <1>1, JoinedAt
  <2>2. 1 \in 1 .. 1
    OBVIOUS
  <2> QED
    BY <1>1, <1>2, <2>1, <2>2, Zenon
<1>4. \A k \in 1 .. Len(t) : k = 1 \/ (k - 1 \in 1 .. Len(q) /\ k = 1 + (k - 1))
  BY <1>1, <1>3
<1>5. \A k \in 1 .. Len(t) : k # 1 => t[k] = q[k - 1] /\ k - 1 \in 1 .. Len(q)
  BY <1>3, <1>4
<1>6. ASSUME NEW i \in 1 .. Len(t), t[i].type = "ai", NEW j \in 1 .. Len(t[i].calls)
      PROVE  i + j \in 1 .. Len(t) /\ IsResult(t[i + j], t[i].calls[j])
  <2>1. i = 1
    BY <1>5, <1>6
  <2>2. j \in 1 .. Len(q) /\ t[1].calls = m.calls
    BY <1>3, <1>6, <2>1
  <2>3. t[i + j] = q[j] /\ i + j \in 1 .. Len(t)
    BY <1>1, <1>3, <2>1, <2>2
  <2> QED
    BY <2>1, <2>2, <2>3 DEF IsResult
<1>7. ASSUME NEW k \in 1 .. Len(t), t[k].type \in {"tool", "placeholder"}
      PROVE  \E i \in 1 .. k - 1 : /\ t[i].type = "ai" /\ k - i \in 1 .. Len(t[i].calls)
                                   /\ t[k].calls[1] = t[i].calls[k - i]
  <2>1. k # 1
    BY <1>3, <1>7
  <2>2. t[k] = q[k - 1] /\ k - 1 \in 1 .. Len(q) /\ 1 \in 1 .. k - 1
    BY <1>3, <1>5, <2>1
  <2>3. t[1].type = "ai" /\ t[1].calls = m.calls /\ t[k].calls[1] = m.calls[k - 1]
    BY <1>3, <2>2
  <2> QED
    BY <2>2, <2>3
<1>8. WellFormed(t)
  BY <1>3, <1>6, <1>7, IsWellFormed
<1> QED
  BY <1>2, <1>3, <1>8

\* A request without answers and results.
LEMMA PlainWellFormed ==
  ASSUME NEW t \in Seq(RequestMessage), \A i \in 1 .. Len(t) : t[i].type \in {"human", "reminder"}
  PROVE  WellFormed(t)
  BY IsWellFormed

\* _build_patched_messages makes of every transcript a request that the provider
\* accepts, with all the results that are there.
LEMMA PatchedIsWellFormed ==
  ASSUME NEW msgs, NEW n \in Nat, Transcript(msgs, n)
  PROVE  /\ WellFormed(Patched(msgs))
         /\ \A i \in DOMAIN msgs : msgs[i].type = "tool" =>
               \E k \in DOMAIN Patched(msgs) : Patched(msgs)[k] = msgs[i]
<1> DEFINE called == UNION {{c.id : c \in Members(msgs[i].calls)} :
                            i \in {k \in DOMAIN msgs : msgs[k].type = "ai"}}
           results(id) == Kept(msgs, {m \in Members(msgs) : m.type = "tool" /\ m.calls[1].id = id})
           answer(c) == IF results(c.id) # <<>> THEN Head(results(c.id)) ELSE Placeholder(c)
           behind(m) == [j \in DOMAIN m.calls |-> answer(m.calls[j])]
           part(m) == IF m.type = "ai" THEN <<m>> \o behind(m)
                      ELSE IF m.type = "tool" /\ m.calls[1].id \in called THEN <<>>
                      ELSE <<m>>
           pieces == [i \in DOMAIN msgs |-> part(msgs[i])]
<1>1. Patched(msgs) = FlattenSeq(pieces)
  BY DEF Patched
<1>2. /\ msgs \in Seq(Message) /\ Len(msgs) \in Nat /\ DOMAIN msgs = 1 .. Len(msgs)
      /\ Members(msgs) \subseteq Message
      /\ \A i \in 1 .. Len(msgs) : msgs[i] \in Message /\ msgs[i] \in Members(msgs)
      /\ \A x \in Members(msgs) : \E i \in 1 .. Len(msgs) : msgs[i] = x
  <2>1. msgs \in Seq(Message)
    BY DEF Transcript
  <2> QED
    BY <2>1, SeqElements
<1>3. ASSUME NEW m \in Members(msgs), m.type = "tool"
      PROVE  /\ Len(m.calls) = 1 /\ m.calls[1] \in CallsOf(msgs)
             /\ \E i \in 1 .. Len(msgs) : msgs[i].type = "ai" /\ m.calls[1] \in Members(msgs[i].calls)
  <2>1. PICK k \in 1 .. Len(msgs) : msgs[k] = m
    BY <1>2
  <2>2. Len(m.calls) = 1
    BY <1>3, <2>1 DEF Transcript, ResultsFollow
  <2>3. PICK i \in 1 .. k - 1 : msgs[i].type = "ai" /\ m.calls[1] \in Members(msgs[i].calls)
    BY <1>3, <2>1 DEF Transcript, ResultsFollow
  <2>4. i \in 1 .. Len(msgs)
    BY <1>2
  <2>5. m.calls[1] \in CallsOf(msgs)
    BY <1>2, <2>3, <2>4 DEF CallsOf
  <2> QED
    BY <2>2, <2>3, <2>4, <2>5
<1>4. ASSUME NEW c \in CallsOf(msgs)
      PROVE  /\ answer(c) \in RequestMessage
             /\ answer(c).type \in {"tool", "placeholder"} /\ answer(c).calls[1] = c
             /\ \A m \in Members(msgs) : m.type = "tool" /\ m.calls[1] = c => answer(c) = m
  <2>1. c \in CallRecord
    <3>1. PICK m \in Members(msgs) : c \in Members(m.calls)
      BY DEF CallsOf
    <3>2. m \in Message
      BY <1>2
    <3>3. m.calls \in Seq(CallRecord)
      BY <3>2 DEF Message
    <3> QED
      BY <3>1, <3>3, SeqElements
  <2>2. PICK r : r = results(c.id)
    OBVIOUS
  <2>3. /\ r \in Seq(Message)
        /\ Members(r) = Members(msgs) \cap {m \in Members(msgs) : m.type = "tool" /\ m.calls[1].id = c.id}
    BY <1>2, <2>2, KeptProperties
  <2>4. r = <<>> <=> Members(r) = {}
    BY <2>3, SeqElements
  <2>5. CASE r # <<>>
    <3>1. PICK h : h = Head(r)
      OBVIOUS
    <3>2. h \in Members(r)
      <4>1. Len(r) \in Nat /\ Len(r) # 0 /\ h = r[1]
        BY <2>3, <2>5, <3>1, EmptySeq
      <4>2. 1 \in 1 .. Len(r)
        BY <4>1
      <4> QED
        BY <4>1, <4>2 DEF Members
    <3>3. h \in Members(msgs) /\ h.type = "tool" /\ h.calls[1].id = c.id /\ h \in Message
      BY <1>2, <2>3, <3>2
    <3>4. h.calls[1] = c /\ Len(h.calls) = 1
      BY <1>3, <3>3 DEF Transcript
    <3>5. answer(c) = h
      BY <2>2, <2>5, <3>1
    <3>6. h \in RequestMessage
      BY <3>3 DEF Message, RequestMessage
    <3>7. ASSUME NEW m \in Members(msgs), m.type = "tool", m.calls[1] = c PROVE h = m
      <4>1. Len(m.calls) = 1 /\ m \in Message
        BY <1>2, <1>3, <3>7
      <4> QED
        BY <3>3, <3>4, <3>7, <4>1, RecordsEqual
    <3> HIDE DEF answer
    <3> QED
      BY <3>3, <3>4, <3>5, <3>6, <3>7
  <2>6. CASE r = <<>>
    <3>1. PICK h : h = Placeholder(c)
      OBVIOUS
    <3>2. <<c>> \in Seq(CallRecord) /\ <<c>>[1] = c
      BY <2>1
    <3>3. h \in RequestMessage /\ h.type = "placeholder" /\ h.calls[1] = c
      BY <3>1, <3>2 DEF Placeholder, RequestMessage
    <3>4. answer(c) = h
      BY <2>2, <2>6, <3>1
    <3>5. \A m \in Members(msgs) : ~(m.type = "tool" /\ m.calls[1] = c)
      BY <2>3, <2>4, <2>6
    <3> HIDE DEF answer
    <3> QED
      BY <3>3, <3>4, <3>5
  <2> HIDE DEF answer
  <2> QED
    BY <2>5, <2>6
<1> HIDE DEF answer
<1>5. ASSUME NEW m \in Members(msgs), m.type = "ai"
      PROVE  /\ behind(m) \in Seq(RequestMessage) /\ Len(behind(m)) = Len(m.calls)
             /\ \A j \in 1 .. Len(m.calls) : behind(m)[j] = answer(m.calls[j]) /\ m.calls[j] \in CallsOf(msgs)
             /\ Members(m.calls) \subseteq CallsOf(msgs)
  <2>1. m \in Message
    BY <1>2
  <2>2. m.calls \in Seq(CallRecord)
    BY <2>1 DEF Message
  <2>3. Members(m.calls) \subseteq CallsOf(msgs)
    BY DEF CallsOf
  <2>4. /\ Len(m.calls) \in Nat /\ DOMAIN m.calls = 1 .. Len(m.calls)
        /\ \A j \in 1 .. Len(m.calls) : m.calls[j] \in CallsOf(msgs)
    BY <2>2, <2>3, SeqElements
  <2>5. PICK q : q = behind(m)
    OBVIOUS
  <2>6. /\ q = [j \in 1 .. Len(m.calls) |-> answer(m.calls[j])]
        /\ q \in [1 .. Len(m.calls) -> RequestMessage]
    BY <1>4, <2>4, <2>5
  <2>7. q \in Seq(RequestMessage) /\ Len(q) = Len(m.calls)
    BY <2>4, <2>6
  <2>8. \A j \in 1 .. Len(m.calls) : q[j] = answer(m.calls[j])
    BY <2>6
  <2> HIDE DEF behind
  <2> QED
    BY <2>3, <2>4, <2>5, <2>7, <2>8
<1> HIDE DEF behind
<1>6. ASSUME NEW m \in Members(msgs)
      PROVE  part(m) \in Seq(RequestMessage) /\ WellFormed(part(m))
  <2>1. m \in Message /\ m \in RequestMessage
    BY <1>2 DEF Message, RequestMessage
  <2>2. CASE m.type = "ai"
    <3>1. PICK q : q = behind(m)
      OBVIOUS
    <3>2. q \in Seq(RequestMessage) /\ Len(q) = Len(m.calls)
      BY <1>5, <2>2, <3>1
    <3>3. \A j \in 1 .. Len(q) : q[j] = answer(m.calls[j]) /\ m.calls[j] \in CallsOf(msgs)
      BY <1>5, <2>2, <3>1
    <3>4. \A j \in 1 .. Len(q) : q[j].type \in {"tool", "placeholder"} /\ q[j].calls[1] = m.calls[j]
      BY <1>4, <3>3
    <3>5. <<m>> \o q \in Seq(RequestMessage) /\ WellFormed(<<m>> \o q)
      BY <2>1, <2>2, <3>2, <3>4, PieceWellFormed
    <3> QED
      BY <2>2, <3>1, <3>5
  <2>3. CASE m.type = "tool"
    <3>1. m.calls[1].id \in called
      BY <1>2, <1>3, <2>3
    <3>2. part(m) = <<>>
      BY <2>3, <3>1
    <3>3. <<>> \in Seq(RequestMessage) /\ WellFormed(<<>>)
      BY DEF WellFormed
    <3> HIDE DEF part
    <3> QED
      BY <3>2, <3>3
  <2>4. CASE m.type \in {"human", "reminder"}
    <3>1. part(m) = <<m>>
      BY <2>4
    <3>2. PICK t : t = <<m>>
      OBVIOUS
    <3>3. t \in Seq(RequestMessage) /\ \A i \in 1 .. Len(t) : t[i].type \in {"human", "reminder"}
      BY <2>1, <2>4, <3>2
    <3>4. WellFormed(t)
      BY <3>3, PlainWellFormed
    <3> HIDE DEF part
    <3> QED
      BY <3>1, <3>2, <3>3, <3>4
  <2>5. m.type \in {"human", "reminder", "ai", "tool"}
    BY <2>1 DEF Message
  <2> HIDE DEF part
  <2> QED
    BY <2>2, <2>3, <2>4, <2>5
<1>7. ASSUME NEW i \in 1 .. Len(msgs), msgs[i].type = "tool"
      PROVE  \E x \in 1 .. Len(msgs) : msgs[i] \in Members(part(msgs[x]))
  <2>1. PICK x \in 1 .. Len(msgs) : msgs[x].type = "ai" /\ msgs[i].calls[1] \in Members(msgs[x].calls)
    BY <1>2, <1>3, <1>7
  <2>2. PICK m \in Members(msgs) : m = msgs[x]
    BY <1>2
  <2>3. m \in Message
    BY <1>2
  <2>4. m.calls \in Seq(CallRecord)
    BY <2>3 DEF Message
  <2>5. PICK j \in 1 .. Len(m.calls) : m.calls[j] = msgs[i].calls[1]
    BY <2>1, <2>2, <2>4, SeqElements
  <2>6. PICK q : q = behind(m)
    OBVIOUS
  <2>7. q \in Seq(RequestMessage) /\ Len(q) = Len(m.calls) /\ q[j] = answer(m.calls[j]) /\ m.calls[j] \in CallsOf(msgs)
    BY <1>5, <2>1, <2>2, <2>6
  <2>8. q[j] = msgs[i]
    BY <1>2, <1>4, <1>7, <2>5, <2>7
  <2>9. m \in RequestMessage
    BY <2>3 DEF Message, RequestMessage
  <2>10. /\ Len(<<m>>) = 1 /\ <<m>> \in Seq(RequestMessage)
    BY <2>9
  <2>11. Len(<<m>> \o q) = 1 + Len(q) /\ (<<m>> \o q)[1 + j] = q[j]
    <3>1. q \in Seq(RequestMessage) /\ j \in 1 .. Len(q)
      BY <2>7
    <3>2. PICK a \in Seq(RequestMessage) : a = <<m>> /\ Len(a) = 1
      BY <2>10
    <3>3. Len(a \o q) = Len(a) + Len(q) /\ (a \o q)[Len(a) + j] = q[j]
      BY <3>1, JoinedAt
    <3> QED
      BY <3>2, <3>3
  <2>12. 1 + j \in 1 .. 1 + Len(q)
    BY <2>7
  <2>13. msgs[i] \in Members(<<m>> \o q)
    BY <2>8, <2>11, <2>12 DEF Members
  <2>14. part(m) = <<m>> \o q
    BY <2>1, <2>2, <2>6
  <2> HIDE DEF part
  <2> QED
    BY <2>2, <2>13, <2>14
<1> HIDE DEF part
<1>8. PICK W : W = {w \in Seq(RequestMessage) : WellFormed(w)}
  OBVIOUS
<1>9. W \in SUBSET Seq(RequestMessage) /\ <<>> \in W
  <2>1. <<>> \in Seq(RequestMessage) /\ WellFormed(<<>>)
    BY DEF WellFormed
  <2> QED
    BY <1>8, <2>1
<1>10. \A a, b \in W : a \o b \in W
  BY <1>8, WellFormedJoins, ConcatProperties
<1>11. PICK s : s = pieces
  OBVIOUS
<1>12. s \in Seq(W) /\ Len(s) = Len(msgs) /\ \A i \in 1 .. Len(msgs) : s[i] = part(msgs[i])
  <2>1. s = [i \in 1 .. Len(msgs) |-> part(msgs[i])]
    BY <1>2, <1>11
  <2>2. \A i \in 1 .. Len(msgs) : part(msgs[i]) \in W
    BY <1>2, <1>6, <1>8
  <2>3. s \in [1 .. Len(msgs) -> W]
    BY <2>1, <2>2
  <2> QED
    BY <1>2, <2>1, <2>3
<1>13. PICK t : t = Patched(msgs)
  OBVIOUS
<1>14. t = FlattenSeq(s)
  BY <1>1, <1>11, <1>13
<1> HIDE DEF pieces
<1>15. t \in W /\ \A i \in 1 .. Len(s) : Members(s[i]) \subseteq Members(t)
  BY <1>9, <1>10, <1>12, <1>14, FlattenKeeps
<1>16. t \in Seq(RequestMessage) /\ WellFormed(t)
  BY <1>8, <1>15
<1>17. ASSUME NEW i \in DOMAIN msgs, msgs[i].type = "tool"
       PROVE  \E k \in DOMAIN t : t[k] = msgs[i]
  <2>1. msgs[i] \in Members(t)
    <3>1. i \in 1 .. Len(msgs)
      BY <1>2
    <3>2. PICK x \in 1 .. Len(msgs) : msgs[i] \in Members(part(msgs[x]))
      BY <1>7, <1>17, <3>1
    <3>3. Members(s[x]) \subseteq Members(t) /\ s[x] = part(msgs[x])
      BY <1>12, <1>15
    <3> QED
      BY <3>2, <3>3
  <2> QED
    BY <1>16, <2>1, SeqElements
<1> QED
  BY <1>13, <1>16, <1>17

GraphNodes == {"idle", "summarize", "remind", "asking", "safety", "budget", "limit", "todo", "route", "tools"}

\* The bounds are numbers.
LEMMA TurnNumbers ==
  /\ MaxReplies \in Nat /\ MaxChatRuns \in Nat /\ MaxCompacts \in Nat /\ MaxNudges \in Nat
  /\ TokenLimit \in Nat /\ TokenLimit >= 1
  BY TurnsAssumption

\* More answers have been given.
LEMMA TranscriptGrows ==
  ASSUME NEW s, NEW n \in Nat, NEW k \in Nat, n <= k, Transcript(s, n)
  PROVE  Transcript(s, k)
<1>1. \A x \in 1 .. n : x \in 1 .. k
  OBVIOUS
<1> QED
  BY <1>1 DEF Transcript

\* Nothing is a thread.
LEMMA NothingYet ==
  /\ EmptyThread \in Thread /\ EmptyThread.msgs = <<>> /\ EmptyThread.todos = "none"
  /\ Unread \in Thread /\ Unread.msgs = <<>>
  /\ \A n \in Nat : Transcript(<<>>, n)
<1>1. <<>> \in Seq(Message)
  OBVIOUS
<1>2. CallsOf(<<>>) = {} /\ ResultsFollow(<<>>)
  BY DEF CallsOf, Members, ResultsFollow
<1>3. \A n \in Nat : Transcript(<<>>, n)
  BY <1>1, <1>2 DEF Transcript
<1> QED
  BY <1>1, <1>3 DEF EmptyThread, Unread, Thread

\* The counters are numbers within their bounds.
LEMMA CountsAre ==
  ASSUME TurnsInv
  PROVE  /\ counts.replies \in Nat /\ counts.runs \in Nat /\ counts.compacts \in Nat
         /\ counts.replies <= MaxReplies
         /\ spent \in Nat /\ since \in Nat /\ nudges \in Nat /\ nudges <= MaxNudges
<1>1. counts \in [runs : 0 .. MaxChatRuns, replies : 0 .. MaxReplies, compacts : 0 .. MaxCompacts]
  BY DEF TurnsInv, TurnsTypeOK
<1>2. counts.replies \in 0 .. MaxReplies /\ counts.runs \in 0 .. MaxChatRuns /\ counts.compacts \in 0 .. MaxCompacts
  BY <1>1
<1>3. spent \in 0 .. MaxReplies /\ since \in 0 .. MaxReplies /\ nudges \in 0 .. MaxNudges
  BY DEF TurnsInv, TurnsTypeOK
<1> QED
  BY <1>2, <1>3, TurnNumbers

\* A node ends with a new thread: what the invariant asks of the next state.
LEMMA NodeEnds ==
  ASSUME TurnsInv, NEW thread \in Thread, thread.todos # "unread", NEW next \in GraphNodes,
         SavesThread(thread, next), compact' = compact,
         counts' \in [runs : 0 .. MaxChatRuns, replies : 0 .. MaxReplies, compacts : 0 .. MaxCompacts],
         counts.replies <= counts'.replies,
         Transcript(thread.msgs, counts'.replies),
         next \in {"safety", "budget", "limit", "todo"} => Tip(thread.msgs, Len(thread.msgs)),
         next \in {"budget", "limit", "todo", "route", "tools"} =>
            \E p \in 1 .. Len(thread.msgs) :
               /\ Tip(thread.msgs, p)
               /\ \A c \in Members(thread.msgs[p].calls) : c.name = "broken" \/ c.id \notin filtered'
               /\ capped' /\ next # "budget" => Unusable(thread.msgs[p].calls),
         capped' \in BOOLEAN, nudges' \in 0 .. MaxNudges, spent' \in Nat, since' \in Nat,
         RanBefore', Budget', CutOffNeverRuns'
  PROVE  TurnsInv'
<1>1. saved' = thread /\ chat' = (IF next = "idle" THEN EmptyThread ELSE thread) /\ at' = next
  BY DEF SavesThread
<1>2. counts.replies \in Nat /\ counts'.replies \in 0 .. MaxReplies /\ counts'.replies \in Nat
  BY CountsAre, TurnNumbers
<1>3. /\ chat' \in Thread /\ chat'.todos # "unread" /\ Transcript(chat'.msgs, counts'.replies)
      /\ saved' \in Thread /\ Transcript(saved'.msgs, counts'.replies)
  BY <1>1, <1>2, NothingYet
<1>4. ThreadsKept'
  <2>1. compact \in Thread /\ (compact = Unread \/ compact.todos # "unread")
    BY DEF TurnsInv, ThreadsKept
  <2>2. Transcript(compact.msgs, counts'.replies)
    BY <1>2, TranscriptGrows DEF TurnsInv, ThreadsKept
  <2>3. Unread' = Unread
    BY DEF Unread
  <2> QED
    BY <1>3, <2>1, <2>2, <2>3 DEF ThreadsKept
<1>5. LastAnswerKnown'
  <2>1. next # "idle" => chat' = thread
    BY <1>1
  <2>2. at' \in {"safety", "budget", "limit", "todo"} => Tip(chat'.msgs, Len(chat'.msgs))
    BY <1>1, <2>1
  <2>3. at' \in {"budget", "limit", "todo", "route", "tools"} =>
           \E p \in 1 .. Len(chat'.msgs) :
               /\ Tip(chat'.msgs, p)
               /\ \A c \in Members(chat'.msgs[p].calls) : c.name = "broken" \/ c.id \notin filtered'
               /\ capped' /\ at' # "budget" => Unusable(chat'.msgs[p].calls)
    BY <1>1, <2>1
  <2> QED
    BY <2>2, <2>3 DEF LastAnswerKnown, Clean
<1>6. TurnsTypeOK'
  <2>1. chat'.todos \in {"none", "open", "done"} /\ saved'.todos \in {"none", "open", "done"}
    <3>1. \A t \in Thread : t.todos # "unread" => t.todos \in {"none", "open", "done"}
      BY DEF Thread
    <3> QED
      BY <1>1, <1>3, <3>1
  <2>2. spent' \in 0 .. MaxReplies /\ since' \in 0 .. MaxReplies
    BY <1>2, TurnNumbers DEF Budget
  <2>3. ran' \subseteq (1 .. MaxReplies) \X Nat
    <3>1. 1 .. counts'.replies \subseteq 1 .. MaxReplies
      BY <1>2, TurnNumbers
    <3> QED
      BY <3>1 DEF RanBefore
  <2>4. at' \in GraphNodes
    BY <1>1
  <2> QED
    BY <2>1, <2>2, <2>3, <2>4 DEF TurnsTypeOK, GraphNodes
<1> QED
  BY <1>4, <1>5, <1>6 DEF TurnsInv

\* The nodes that leave the counters of the run alone.
LEMMA NodePasses ==
  ASSUME TurnsInv, NEW msgs, NEW next \in GraphNodes, Saves(msgs, next),
         UNCHANGED <<spent, capped, nudges, ran, counts, compact, filtered, since>>,
         Transcript(msgs, counts.replies),
         next \in {"safety", "budget", "limit", "todo"} => Tip(msgs, Len(msgs)),
         next \in {"budget", "limit", "todo", "route", "tools"} =>
            \E p \in 1 .. Len(msgs) :
               /\ Tip(msgs, p) /\ Clean(msgs[p].calls)
               /\ capped /\ next # "budget" => Unusable(msgs[p].calls),
         capped => next # "tools",
         capped /\ next \in {"summarize", "remind", "asking"} => since + 1 <= nudges,
         next \in {"safety", "budget"} => spent + 1 <= counts.replies
  PROVE  TurnsInv'
<1>1. chat \in Thread /\ chat.todos \in {"none", "open", "done"} /\ msgs \in Seq(Message)
  BY DEF TurnsInv, TurnsTypeOK, ThreadsKept, Transcript
<1>2. PICK thread : thread = [chat EXCEPT !.msgs = msgs]
  OBVIOUS
<1>3. thread \in Thread /\ thread.msgs = msgs /\ thread.todos = chat.todos
  BY <1>1, <1>2 DEF Thread
<1>4. SavesThread(thread, next) /\ at' = next
  BY <1>2 DEF Saves, SavesThread
<1>5. Budget'
  BY <1>4 DEF TurnsInv, Budget
<1>6. RanBefore' /\ CutOffNeverRuns'
  BY DEF TurnsInv, RanBefore, CutOffNeverRuns
<1>7. /\ counts' \in [runs : 0 .. MaxChatRuns, replies : 0 .. MaxReplies, compacts : 0 .. MaxCompacts]
      /\ counts' = counts /\ capped' \in BOOLEAN /\ nudges' \in 0 .. MaxNudges
  BY DEF TurnsInv, TurnsTypeOK
<1>8. spent' \in Nat /\ since' \in Nat /\ counts.replies <= counts'.replies
  BY <1>7, CountsAre
<1>9. next \in {"budget", "limit", "todo", "route", "tools"} =>
         \E p \in 1 .. Len(thread.msgs) :
            /\ Tip(thread.msgs, p)
            /\ \A c \in Members(thread.msgs[p].calls) : c.name = "broken" \/ c.id \notin filtered'
            /\ capped' /\ next # "budget" => Unusable(thread.msgs[p].calls)
  BY <1>3 DEF Clean
<1>10. thread.todos # "unread"
  BY <1>1, <1>3
<1>11. Transcript(thread.msgs, counts'.replies)
  BY <1>3, <1>7
<1>12. next \in {"safety", "budget", "limit", "todo"} => Tip(thread.msgs, Len(thread.msgs))
  BY <1>3
<1> QED
  BY <1>3, <1>4, <1>5, <1>6, <1>7, <1>8, <1>9, <1>10, <1>11, <1>12, NodeEnds

\* The invariant holds before the first run.
LEMMA TurnsInitInv == TurnsInit => TurnsInv
<1> SUFFICES ASSUME TurnsInit PROVE TurnsInv
  OBVIOUS
<1> USE DEF TurnsInit
<1>1. counts.replies = 0 /\ counts \in [runs : 0 .. MaxChatRuns, replies : 0 .. MaxReplies, compacts : 0 .. MaxCompacts]
  BY TurnNumbers
<1>2. ThreadsKept
  BY <1>1, NothingYet DEF ThreadsKept
<1>3. TurnsTypeOK
  <2>1. chat.todos = "none" /\ saved.todos = "none" /\ ran \subseteq (1 .. MaxReplies) \X Nat
    BY NothingYet
  <2>2. spent \in 0 .. MaxReplies /\ nudges \in 0 .. MaxNudges /\ since \in 0 .. MaxReplies
    BY TurnNumbers
  <2>3. capped \in BOOLEAN
    OBVIOUS
  <2> QED
    BY <1>1, <2>1, <2>2, <2>3 DEF TurnsTypeOK
<1>4. LastAnswerKnown /\ RanBefore /\ Budget /\ CutOffNeverRuns
  BY <1>1 DEF LastAnswerKnown, RanBefore, Budget, CutOffNeverRuns
<1> QED
  BY <1>2, <1>3, <1>4 DEF TurnsInv

\* What the invariant says of the threads.
LEMMA ThreadsAre ==
  ASSUME TurnsInv
  PROVE  /\ chat \in Thread /\ saved \in Thread /\ compact \in Thread
         /\ chat.todos \in {"none", "open", "done"} /\ saved.todos \in {"none", "open", "done"}
         /\ Transcript(Messages, counts.replies) /\ Transcript(saved.msgs, counts.replies)
         /\ Transcript(compact.msgs, counts.replies)
         /\ Messages \in Seq(Message) /\ Messages = chat.msgs
  BY DEF TurnsInv, TurnsTypeOK, ThreadsKept, Transcript, Messages

\* A user message and a reminder have no calls.
LEMMA MessagesWithoutCalls ==
  /\ Human \in Message /\ Human.type = "human" /\ Members(Human.calls) = {}
  /\ TodoReminder \in Message /\ TodoReminder.type = "reminder" /\ Members(TodoReminder.calls) = {}
<1>1. <<>> \in Seq(CallRecord) /\ Members(<<>>) = {}
  BY DEF Members
<1> QED
  BY <1>1 DEF Human, TodoReminder, Message

\* A run starts from the last checkpoint.
LEMMA StartChatStep ==
  ASSUME TurnsInv, StartChat
  PROVE  TurnsInv'
<1>1. /\ saved \in Thread /\ saved.todos \in {"none", "open", "done"}
      /\ Transcript(saved.msgs, counts.replies) /\ saved.msgs \in Seq(Message)
  BY ThreadsAre DEF Thread
<1>2. PICK msgs : msgs = Append(saved.msgs, Human)
  OBVIOUS
<1>3. Transcript(msgs, counts.replies)
  BY <1>1, <1>2, MessagesWithoutCalls, MessageAdded, CountsAre
<1>4. PICK thread : thread = [saved EXCEPT !.msgs = msgs]
  OBVIOUS
<1>5. thread \in Thread /\ thread.msgs = msgs /\ thread.todos = saved.todos
  <2>1. msgs \in Seq(Message)
    BY <1>3 DEF Transcript
  <2> QED
    BY <1>1, <1>4, <2>1 DEF Thread
<1>6. SavesThread(thread, "summarize") /\ at' = "summarize"
  BY <1>2, <1>4 DEF StartChat, SavesThread
<1>7. /\ counts' \in [runs : 0 .. MaxChatRuns, replies : 0 .. MaxReplies, compacts : 0 .. MaxCompacts]
      /\ counts'.replies = counts.replies
  <2>1. counts \in [runs : 0 .. MaxChatRuns, replies : 0 .. MaxReplies, compacts : 0 .. MaxCompacts]
    BY DEF TurnsInv, TurnsTypeOK
  <2>2. PICK k \in 0 .. MaxChatRuns : k = counts.runs + 1
    BY CountsAre, TurnNumbers DEF StartChat
  <2>3. counts' = [counts EXCEPT !.runs = k]
    BY <2>2 DEF StartChat
  <2> QED
    BY <2>1, <2>3
<1>8. /\ spent' = 0 /\ capped' = FALSE /\ nudges' = 0 /\ since' = 0
      /\ ran' = ran /\ compact' = compact /\ filtered' = filtered
  BY DEF StartChat
<1>9. RanBefore' /\ CutOffNeverRuns'
  BY <1>7, <1>8 DEF TurnsInv, RanBefore, CutOffNeverRuns
<1>10. Budget'
  BY <1>6, <1>7, <1>8, CountsAre DEF Budget
<1>11. nudges' \in 0 .. MaxNudges /\ spent' \in Nat /\ since' \in Nat /\ counts.replies <= counts'.replies
  BY <1>7, <1>8, CountsAre, TurnNumbers
<1>12. thread.todos # "unread" /\ Transcript(thread.msgs, counts'.replies) /\ capped' \in BOOLEAN
  BY <1>1, <1>3, <1>5, <1>7, <1>8
<1>13. "summarize" \in GraphNodes
  BY DEF GraphNodes
<1> QED
  BY <1>5, <1>6, <1>7, <1>8, <1>9, <1>10, <1>11, <1>12, <1>13, NodeEnds

\* Summarization cuts no result from its answer.
LEMMA SummarizedStep ==
  ASSUME TurnsInv, Summarized
  PROVE  TurnsInv'
<1>1. PICK msgs : Saves(msgs, "remind") /\ (msgs = Messages \/ \E k \in Cuts(Messages) : msgs = After(Messages, k))
  BY DEF Summarized
<1>2. Transcript(msgs, counts.replies)
  BY <1>1, ThreadsAre, CountsAre, MessagesDropped
<1>3. UNCHANGED <<spent, capped, nudges, ran, counts, compact, filtered, since>> /\ at = "summarize"
  BY DEF Summarized
<1>4. capped => since + 1 <= nudges
  BY <1>3 DEF TurnsInv, Budget
<1>5. "remind" \in GraphNodes
  BY DEF GraphNodes
<1> QED
  BY <1>1, <1>2, <1>3, <1>4, <1>5, NodePasses

\* The todo list's reminder, if any, is a message without calls.
LEMMA RemindsStep ==
  ASSUME TurnsInv, Reminds
  PROVE  TurnsInv'
<1>1. PICK msgs : msgs = IF chat.todos # "none" /\ ~TodosShown(Messages)
                         THEN Append(Messages, TodoReminder) ELSE Messages
  OBVIOUS
<1>2. Saves(msgs, "asking") /\ at = "remind"
  BY <1>1 DEF Reminds
<1>3. Transcript(Append(Messages, TodoReminder), counts.replies)
  BY ThreadsAre, CountsAre, MessagesWithoutCalls, MessageAdded
<1>4. Transcript(msgs, counts.replies)
  BY <1>1, <1>3, ThreadsAre
<1>5. UNCHANGED <<spent, capped, nudges, ran, counts, compact, filtered, since>>
  BY DEF Reminds
<1>6. capped => since + 1 <= nudges
  BY <1>2 DEF TurnsInv, Budget
<1>7. "asking" \in GraphNodes
  BY DEF GraphNodes
<1> QED
  BY <1>2, <1>4, <1>5, <1>6, <1>7, NodePasses

\* The ids of a new answer are of no earlier one, and none of them has run.
LEMMA AnswersStep ==
  ASSUME TurnsInv, Answers
  PROVE  TurnsInv'
<1>1. PICK names \in Replies, cut \in BOOLEAN :
         LET n == counts.replies + 1
             calls == [j \in DOMAIN names |-> [id |-> <<n, j>>, name |-> names[j]]]
         IN  /\ Saves(Append(Messages, AI(calls)), "safety")
             /\ filtered' = IF cut THEN filtered \cup {<<n, j>> : j \in DOMAIN names} ELSE filtered
  BY DEF Answers
<1>2. PICK n \in Nat : n = counts.replies + 1
  BY CountsAre
<1>3. names \in Seq(CallNames)
  BY TurnsAssumption DEF CallNames
<1>4. Len(names) \in Nat /\ DOMAIN names = 1 .. Len(names) /\ \A j \in 1 .. Len(names) : names[j] \in CallNames
  BY <1>3
<1>5. PICK calls : calls = [j \in DOMAIN names |-> [id |-> <<n, j>>, name |-> names[j]]]
  OBVIOUS
<1>6. \A j \in 1 .. Len(names) : [id |-> <<n, j>>, name |-> names[j]] \in CallRecord
  BY <1>4 DEF CallRecord
<1>7. calls \in [1 .. Len(names) -> CallRecord]
  BY <1>4, <1>5, <1>6
<1>8. calls \in Seq(CallRecord) /\ Len(calls) = Len(names)
  BY <1>4, <1>7
<1>9. \A j \in 1 .. Len(names) : calls[j].id = <<n, j>>
  BY <1>4, <1>5
<1>10. \A c \in Members(calls) : \E j \in 1 .. Len(names) : c = calls[j]
  BY <1>8 DEF Members
<1>11. PICK m : m = AI(calls)
  OBVIOUS
<1>12. m \in Message /\ m.type = "ai" /\ m.calls = calls
  BY <1>8, <1>11 DEF AI, Message
<1>13. \A c \in Members(calls) : c.id[1] = n
  BY <1>9, <1>10
<1>14. n \in 1 .. n /\ counts.replies <= n
  BY <1>2, CountsAre
<1>15. \A c \in Members(calls) : \A d \in CallsOf(Messages) \cup Members(calls) : c.id = d.id => c = d
  <2> SUFFICES ASSUME NEW c \in Members(calls), NEW d \in CallsOf(Messages) \cup Members(calls),
                      c.id = d.id
               PROVE  c = d
    OBVIOUS
  <2>1. CASE d \in CallsOf(Messages)
    <3>1. d.id[1] \in 1 .. counts.replies
      BY <2>1, ThreadsAre DEF Transcript
    <3>2. c.id[1] = n
      BY <1>13
    <3> QED
      BY <1>2, <3>1, <3>2, CountsAre
  <2>2. CASE d \in Members(calls)
    <3>1. PICK i \in 1 .. Len(names), j \in 1 .. Len(names) : c = calls[i] /\ d = calls[j]
      BY <1>10, <2>2
    <3>2. <<n, i>> = <<n, j>>
      BY <1>9, <3>1
    <3> QED
      BY <3>1, <3>2
  <2> QED
    BY <2>1, <2>2
<1>16. PICK msgs : msgs = Append(Messages, m)
  OBVIOUS
<1>17. /\ Transcript(msgs, n) /\ Len(msgs) = Len(Messages) + 1
       /\ msgs[Len(msgs)] = m
  <2>1. Transcript(Messages, counts.replies) /\ counts.replies \in Nat
    BY ThreadsAre, CountsAre
  <2>2. \A c \in Members(m.calls) : c.id[1] \in 1 .. n
    BY <1>12, <1>13, <1>14
  <2>3. \A c \in Members(m.calls) : \A d \in CallsOf(Messages) \cup Members(m.calls) : c.id = d.id => c = d
    BY <1>12, <1>15
  <2>4. m.type # "tool"
    BY <1>12
  <2> QED
    BY <1>12, <1>14, <1>16, <2>1, <2>2, <2>3, <2>4, MessageAdded
<1>18. Tip(msgs, Len(msgs))
  <2>1. Len(msgs) \in 1 .. Len(msgs) /\ Len(msgs) + 1 .. Len(msgs) = {}
    BY <1>17, ThreadsAre
  <2> QED
    BY <1>12, <1>17, <2>1 DEF Tip
<1>19. PICK thread : thread = [chat EXCEPT !.msgs = msgs]
  OBVIOUS
<1>20. thread \in Thread /\ thread.msgs = msgs /\ thread.todos = chat.todos /\ chat.todos # "unread"
  <2>1. msgs \in Seq(Message)
    BY <1>17 DEF Transcript
  <2> QED
    BY <1>19, <2>1, ThreadsAre DEF Thread
<1>21. SavesThread(thread, "safety") /\ at' = "safety"
  BY <1>1, <1>2, <1>5, <1>11, <1>16, <1>19 DEF Saves, SavesThread
<1>22. /\ counts' \in [runs : 0 .. MaxChatRuns, replies : 0 .. MaxReplies, compacts : 0 .. MaxCompacts]
       /\ counts'.replies = n
  <2>1. counts \in [runs : 0 .. MaxChatRuns, replies : 0 .. MaxReplies, compacts : 0 .. MaxCompacts]
    BY DEF TurnsInv, TurnsTypeOK
  <2>2. n \in 0 .. MaxReplies
    BY <1>2, CountsAre, TurnNumbers DEF Answers
  <2>3. counts' = [counts EXCEPT !.replies = n]
    BY <1>2 DEF Answers
  <2> QED
    BY <2>1, <2>2, <2>3
<1>23. /\ at = "asking" /\ spent' = spent /\ capped' = capped /\ nudges' = nudges /\ ran' = ran
       /\ compact' = compact /\ since' = IF capped THEN since + 1 ELSE since
  BY DEF Answers
<1>24. RanBefore'
  <2>1. 1 .. counts.replies \subseteq 1 .. n
    BY <1>2, CountsAre
  <2> QED
    BY <1>22, <1>23, <2>1 DEF TurnsInv, RanBefore
<1>25. CutOffNeverRuns'
  <2> SUFFICES ASSUME NEW x \in ran, x \in filtered' PROVE FALSE
    BY <1>23 DEF CutOffNeverRuns
  <2>1. x \notin filtered
    BY DEF TurnsInv, CutOffNeverRuns
  <2>2. PICK j \in DOMAIN names : x = <<n, j>>
    BY <1>1, <1>2, <2>1
  <2>3. x[1] \in 1 .. counts.replies
    BY DEF TurnsInv, RanBefore
  <2> QED
    BY <1>2, <2>2, <2>3, CountsAre
<1>26. Budget'
  <2>1. /\ capped => spent >= TokenLimit /\ since + 1 <= nudges
        /\ ~capped => since = 0
        /\ spent <= counts.replies /\ since <= counts.replies
    BY <1>23 DEF TurnsInv, Budget
  <2>2. /\ capped' => spent' >= TokenLimit /\ since' <= nudges'
        /\ ~capped' => since' = 0
    BY <1>23, <2>1
  <2>3. spent' <= n /\ since' <= n /\ spent' + 1 <= n
    BY <1>2, <1>23, <2>1, CountsAre
  <2> QED
    BY <1>21, <1>22, <2>2, <2>3 DEF Budget
<1>27. /\ capped' \in BOOLEAN /\ nudges' \in 0 .. MaxNudges /\ spent' \in Nat /\ since' \in Nat
  <2>1. capped \in BOOLEAN /\ nudges \in 0 .. MaxNudges
    BY DEF TurnsInv, TurnsTypeOK
  <2> QED
    BY <1>23, <2>1, CountsAre
<1>28. "safety" \in GraphNodes
  BY DEF GraphNodes
<1>29. /\ counts.replies <= counts'.replies /\ Transcript(thread.msgs, counts'.replies)
       /\ Tip(thread.msgs, Len(thread.msgs)) /\ thread.todos # "unread"
  BY <1>14, <1>17, <1>18, <1>20, <1>22
<1> QED
  BY <1>20, <1>21, <1>22, <1>23, <1>24, <1>25, <1>26, <1>27, <1>28, <1>29, NodeEnds

\* The last answer at the nodes where it is the last message.
LEMMA AnswerAtEnd ==
  ASSUME TurnsInv, at \in {"safety", "budget", "limit", "todo"}
  PROVE  /\ Tip(Messages, Len(Messages)) /\ LastAI = Messages[Len(Messages)]
         /\ LastAI.calls \in Seq(CallRecord) /\ LastAI.calls = Messages[Len(Messages)].calls
         /\ Len(Messages) \in 1 .. Len(Messages) /\ Len(Messages) \in Nat
<1>1. Tip(Messages, Len(Messages))
  BY DEF TurnsInv, LastAnswerKnown, Messages
<1>2. LastAI = Messages[Len(Messages)]
  BY <1>1, ThreadsAre, LastAnswer
<1>3. Len(Messages) \in 1 .. Len(Messages) /\ Len(Messages) \in Nat
  BY <1>1, ThreadsAre DEF Tip
<1>4. LastAI \in Message
  BY <1>2, <1>3, ThreadsAre
<1>5. LastAI.calls \in Seq(CallRecord)
  BY <1>4 DEF Message
<1> QED
  BY <1>1, <1>2, <1>3, <1>5

\* What is known of it behind the safety filter.
LEMMA AnswerKnown ==
  ASSUME TurnsInv, at \in {"budget", "limit", "todo", "route", "tools"}
  PROVE  \E p \in 1 .. Len(Messages) :
            /\ Tip(Messages, p) /\ LastAI = Messages[p] /\ LastAI.calls \in Seq(CallRecord)
            /\ Clean(LastAI.calls)
            /\ capped /\ at # "budget" => Unusable(LastAI.calls)
            /\ Members(LastAI.calls) \subseteq CallsOf(Messages)
<1>1. PICK p \in 1 .. Len(Messages) :
         /\ Tip(Messages, p) /\ Clean(Messages[p].calls)
         /\ capped /\ at # "budget" => Unusable(Messages[p].calls)
  BY DEF TurnsInv, LastAnswerKnown, Messages
<1>2. LastAI = Messages[p]
  BY <1>1, ThreadsAre, LastAnswer
<1>3. LastAI \in Message /\ LastAI \in Members(Messages)
  BY <1>2, ThreadsAre, SeqElements
<1>4. LastAI.calls \in Seq(CallRecord)
  BY <1>3 DEF Message
<1>5. Members(LastAI.calls) \subseteq CallsOf(Messages)
  BY <1>3 DEF CallsOf
<1> QED
  BY <1>1, <1>2, <1>4, <1>5

\* The answer is rewritten with some of its calls.
LEMMA RewrittenIs ==
  ASSUME TurnsInv, at \in {"safety", "budget", "limit", "todo"},
         NEW calls \in Seq(CallRecord), Members(calls) \subseteq Members(LastAI.calls)
  PROVE  LET msgs == Rewritten(calls)
         IN  /\ Transcript(msgs, counts.replies) /\ Tip(msgs, Len(msgs))
             /\ Len(msgs) \in 1 .. Len(msgs) /\ msgs[Len(msgs)].calls = calls
<1>1. /\ Transcript(Messages, counts.replies) /\ Tip(Messages, Len(Messages)) /\ counts.replies \in Nat
      /\ Members(calls) \subseteq Members(Messages[Len(Messages)].calls)
      /\ Len(Messages) \in 1 .. Len(Messages)
  BY AnswerAtEnd, ThreadsAre, CountsAre
<1>2. PICK t : t = [Messages EXCEPT ![Len(Messages)] = AI(calls)]
  OBVIOUS
<1>3. Transcript(t, counts.replies) /\ Len(t) = Len(Messages) /\ Tip(t, Len(t)) /\ t[Len(t)].calls = calls
  BY <1>1, <1>2, AnswerReplaced
<1> QED
  BY <1>1, <1>2, <1>3 DEF Rewritten

\* What the safety filter leaves of a cut answer cannot run.
LEMMA FiltersUnsafeStep ==
  ASSUME TurnsInv, FiltersUnsafe
  PROVE  TurnsInv'
<1>1. at = "safety" /\ UNCHANGED <<spent, capped, nudges, ran, counts, compact, filtered, since>>
  BY DEF FiltersUnsafe
<1>2. /\ Tip(Messages, Len(Messages)) /\ LastAI.calls \in Seq(CallRecord)
      /\ LastAI.calls = Messages[Len(Messages)].calls /\ Len(Messages) \in 1 .. Len(Messages)
  BY <1>1, AnswerAtEnd
<1>3. spent + 1 <= counts.replies
  BY <1>1 DEF TurnsInv, Budget
<1>4. "budget" \in GraphNodes
  BY DEF GraphNodes
<1>5. CASE Valid(LastAI.calls) # <<>> /\ CutOff(LastAI)
  <2>1. PICK calls : calls = Invalid(LastAI.calls)
    OBVIOUS
  <2>2. calls \in Seq(CallRecord) /\ Members(calls) = {c \in Members(LastAI.calls) : c.name = "broken"}
    BY <1>2, <2>1, CallFilters
  <2>3. PICK msgs : msgs = Rewritten(calls)
    OBVIOUS
  <2>4. /\ Transcript(msgs, counts.replies) /\ Tip(msgs, Len(msgs))
        /\ Len(msgs) \in 1 .. Len(msgs) /\ msgs[Len(msgs)].calls = calls
    BY <1>1, <2>2, <2>3, RewrittenIs
  <2>5. Saves(msgs, "budget")
    BY <1>5, <2>1, <2>3 DEF FiltersUnsafe
  <2>6. Clean(msgs[Len(msgs)].calls)
    BY <2>2, <2>4 DEF Clean
  <2>7. \E p \in 1 .. Len(msgs) : /\ Tip(msgs, p) /\ Clean(msgs[p].calls)
                                  /\ capped /\ "budget" # "budget" => Unusable(msgs[p].calls)
    BY <2>4, <2>6
  <2> QED
    BY <1>1, <1>3, <1>4, <2>4, <2>5, <2>7, NodePasses
<1>6. CASE ~(Valid(LastAI.calls) # <<>> /\ CutOff(LastAI))
  <2>1. Saves(Messages, "budget")
    BY <1>6 DEF FiltersUnsafe
  <2>2. Clean(LastAI.calls)
    <3>1. CASE Valid(LastAI.calls) = <<>>
      <4>1. Valid(LastAI.calls) \in Seq(CallRecord)
        BY <1>2, CallFilters
      <4>2. Members(Valid(LastAI.calls)) = {}
        BY <3>1, <4>1, SeqElements
      <4> QED
        BY <1>2, <4>2, CallFilters DEF Clean
    <3>2. CASE ~CutOff(LastAI)
      <4>1. \A j \in 1 .. Len(LastAI.calls) : LastAI.calls[j].id \notin filtered
        BY <1>2, <3>2, SeqElements DEF CutOff
      <4> QED
        BY <4>1 DEF Clean, Members
    <3> QED
      BY <1>6, <3>1, <3>2
  <2>3. \E p \in 1 .. Len(Messages) : /\ Tip(Messages, p) /\ Clean(Messages[p].calls)
                                      /\ capped /\ "budget" # "budget" => Unusable(Messages[p].calls)
    BY <1>2, <2>2
  <2> QED
    BY <1>1, <1>2, <1>3, <1>4, <2>1, <2>3, ThreadsAre, NodePasses
<1> QED
  BY <1>5, <1>6

\* The subagent limit only drops calls.
LEMMA LimitsTasksStep ==
  ASSUME TurnsInv, LimitsTasks
  PROVE  TurnsInv'
<1>1. at = "limit" /\ UNCHANGED <<spent, capped, nudges, ran, counts, compact, filtered, since>>
  BY DEF LimitsTasks
<1>2. /\ Tip(Messages, Len(Messages)) /\ LastAI.calls \in Seq(CallRecord)
      /\ LastAI.calls = Messages[Len(Messages)].calls /\ Len(Messages) \in 1 .. Len(Messages)
  BY <1>1, AnswerAtEnd
<1>3. Clean(LastAI.calls) /\ (capped => Unusable(LastAI.calls))
  BY <1>1, AnswerKnown
<1>4. "todo" \in GraphNodes
  BY DEF GraphNodes
<1>5. PICK K, msgs : Saves(msgs, "todo") /\ (msgs = Messages \/ msgs = Rewritten(Kept(LastAI.calls, K)))
  BY DEF LimitsTasks
<1>6. /\ Transcript(msgs, counts.replies) /\ Tip(msgs, Len(msgs)) /\ Len(msgs) \in 1 .. Len(msgs)
      /\ Members(msgs[Len(msgs)].calls) \subseteq Members(LastAI.calls)
  <2>1. CASE msgs = Messages
    BY <1>2, <2>1, ThreadsAre
  <2>2. CASE msgs = Rewritten(Kept(LastAI.calls, K))
    <3>1. PICK calls : calls = Kept(LastAI.calls, K)
      OBVIOUS
    <3>2. calls \in Seq(CallRecord) /\ Members(calls) \subseteq Members(LastAI.calls)
      BY <1>2, <3>1, KeptProperties
    <3> QED
      BY <1>1, <2>2, <3>1, <3>2, RewrittenIs
  <2> QED
    BY <1>5, <2>1, <2>2
<1>7. Clean(msgs[Len(msgs)].calls) /\ (capped => Unusable(msgs[Len(msgs)].calls))
  BY <1>3, <1>6 DEF Clean, Unusable
<1>8. \E p \in 1 .. Len(msgs) : /\ Tip(msgs, p) /\ Clean(msgs[p].calls)
                                /\ capped /\ "todo" # "budget" => Unusable(msgs[p].calls)
  BY <1>6, <1>7
<1> QED
  BY <1>1, <1>4, <1>5, <1>6, <1>8, NodePasses

\* A capped run ends: what the budget left of its answer cannot run.
LEMMA RoutesStep ==
  ASSUME TurnsInv, Routes
  PROVE  TurnsInv'
<1>1. at = "route" /\ UNCHANGED <<spent, capped, nudges, ran, counts, compact, filtered, since>>
  BY DEF Routes
<1>2. PICK p \in 1 .. Len(Messages) :
         /\ Tip(Messages, p) /\ LastAI = Messages[p] /\ LastAI.calls \in Seq(CallRecord)
         /\ Clean(LastAI.calls) /\ (capped => Unusable(LastAI.calls))
  BY <1>1, AnswerKnown
<1>3. PICK next : next = IF Valid(LastAI.calls) = <<>> THEN "idle"
                         ELSE IF ToRun # <<>> THEN "tools" ELSE "summarize"
  OBVIOUS
<1>4. Saves(Messages, next) /\ next \in {"idle", "tools", "summarize"}
  BY <1>3 DEF Routes
<1>5. capped => next = "idle"
  <2>1. capped => Members(Valid(LastAI.calls)) = {}
    BY <1>2, CallFilters DEF Unusable
  <2>2. Valid(LastAI.calls) \in Seq(CallRecord)
    BY <1>2, CallFilters
  <2> QED
    BY <1>3, <2>1, <2>2, SeqElements
<1>6. next \in GraphNodes
  BY <1>4 DEF GraphNodes
<1>7. \E x \in 1 .. Len(Messages) : /\ Tip(Messages, x) /\ Clean(Messages[x].calls)
                                    /\ capped /\ next # "budget" => Unusable(Messages[x].calls)
  BY <1>2
<1> QED
  BY <1>1, <1>4, <1>5, <1>6, <1>7, ThreadsAre, NodePasses

\* The calls to run are valid calls of the last answer.
LEMMA ToRunIs ==
  ASSUME LastAI.calls \in Seq(CallRecord)
  PROVE  ToRun \in Seq(CallRecord) /\ Members(ToRun) \subseteq {c \in Members(LastAI.calls) : c.name # "broken"}
<1>1. PICK calls \in Seq(CallRecord) : /\ calls = Valid(LastAI.calls)
                                       /\ Members(calls) = {c \in Members(LastAI.calls) : c.name # "broken"}
  BY CallFilters
<1>2. PICK K : ToRun = Kept(calls, K)
  BY <1>1 DEF ToRun
<1>3. Kept(calls, K) \in Seq(CallRecord) /\ Members(Kept(calls, K)) = Members(calls) \cap K
  BY KeptProperties
<1> QED
  BY <1>1, <1>2, <1>3

\* A tool that runs is a valid call of the last answer, which was not cut off.
LEMMA RunsToolStep ==
  ASSUME TurnsInv, RunsTool
  PROVE  TurnsInv'
<1>1. /\ at = "tools" /\ chat' = chat /\ saved' = saved /\ at' = at /\ spent' = spent /\ capped' = capped
      /\ nudges' = nudges /\ counts' = counts /\ compact' = compact /\ filtered' = filtered /\ since' = since
  BY DEF RunsTool
<1>2. PICK j \in DOMAIN ToRun : ran' = ran \cup {ToRun[j].id}
  BY DEF RunsTool
<1>3. /\ LastAI.calls \in Seq(CallRecord) /\ Clean(LastAI.calls)
      /\ Members(LastAI.calls) \subseteq CallsOf(Messages)
  BY <1>1, AnswerKnown
<1>4. ToRun \in Seq(CallRecord) /\ Members(ToRun) \subseteq {c \in Members(LastAI.calls) : c.name # "broken"}
  BY <1>3, ToRunIs
<1>5. PICK c : c = ToRun[j]
  OBVIOUS
<1>6. c \in Members(LastAI.calls) /\ c.name # "broken" /\ c \in CallRecord
  BY <1>4, <1>5, SeqElements
<1>7. c.id \notin filtered
  BY <1>3, <1>6 DEF Clean
<1>8. c.id \in (1 .. counts.replies) \X Nat
  <2>1. c.id \in Nat \X Nat
    BY <1>6 DEF CallRecord
  <2>2. c.id[1] \in 1 .. counts.replies
    BY <1>3, <1>6, ThreadsAre DEF Transcript
  <2> QED
    BY <2>1, <2>2
<1>9. RanBefore' /\ CutOffNeverRuns'
  BY <1>1, <1>2, <1>5, <1>7, <1>8 DEF TurnsInv, RanBefore, CutOffNeverRuns
<1>10. TurnsTypeOK'
  <2>1. ran' \subseteq (1 .. MaxReplies) \X Nat
    <3>1. 1 .. counts.replies \subseteq 1 .. MaxReplies
      BY CountsAre, TurnNumbers
    <3> QED
      BY <1>1, <1>9, <3>1 DEF RanBefore
  <2> QED
    BY <1>1, <2>1 DEF TurnsInv, TurnsTypeOK
<1>11. ThreadsKept' /\ LastAnswerKnown' /\ Budget'
  BY <1>1 DEF TurnsInv, ThreadsKept, LastAnswerKnown, Budget, Clean, Messages
<1> QED
  BY <1>9, <1>10, <1>11 DEF TurnsInv

\* Past the limit the answer keeps no call that can run.
LEMMA ChecksBudgetStep ==
  ASSUME TurnsInv, ChecksBudget
  PROVE  TurnsInv'
<1>1. /\ at = "budget" /\ spent' = spent + 1 /\ capped' = (capped \/ spent' >= TokenLimit)
      /\ nudges' = nudges /\ ran' = ran /\ counts' = counts /\ compact' = compact
      /\ filtered' = filtered /\ since' = since
  BY DEF ChecksBudget
<1>2. /\ Tip(Messages, Len(Messages)) /\ LastAI.calls \in Seq(CallRecord)
      /\ LastAI.calls = Messages[Len(Messages)].calls /\ Len(Messages) \in 1 .. Len(Messages)
  BY <1>1, AnswerAtEnd
<1>3. Clean(LastAI.calls)
  BY <1>1, AnswerKnown
<1>4. /\ spent \in Nat /\ since \in Nat /\ nudges \in 0 .. MaxNudges /\ capped \in BOOLEAN
      /\ counts.replies \in Nat /\ TokenLimit \in Nat
      /\ counts \in [runs : 0 .. MaxChatRuns, replies : 0 .. MaxReplies, compacts : 0 .. MaxCompacts]
  BY CountsAre, TurnNumbers DEF TurnsInv, TurnsTypeOK
<1>5. /\ capped => spent >= TokenLimit /\ since <= nudges
      /\ ~capped => since = 0
      /\ spent + 1 <= counts.replies /\ since <= counts.replies
  BY <1>1 DEF TurnsInv, Budget
<1>6. (capped' <=> spent' >= TokenLimit) /\ capped' \in BOOLEAN /\ spent' \in Nat
  <2>1. spent' \in Nat /\ (capped => spent' >= TokenLimit)
    BY <1>1, <1>4, <1>5
  <2>2. capped' = (capped \/ spent' >= TokenLimit) /\ capped \in BOOLEAN
    BY <1>1, <1>4
  <2>3. capped' <=> spent' >= TokenLimit
    BY <2>1, <2>2
  <2>4. capped' \in BOOLEAN
    BY <2>2, Zenon
  <2> QED
    BY <2>1, <2>3, <2>4
<1>7. PICK msgs : msgs = IF spent' >= TokenLimit THEN Rewritten(Invalid(LastAI.calls)) ELSE Messages
  OBVIOUS
<1>8. Saves(msgs, "limit")
  BY <1>7 DEF ChecksBudget
<1>9. /\ Transcript(msgs, counts.replies) /\ Tip(msgs, Len(msgs)) /\ Len(msgs) \in 1 .. Len(msgs)
      /\ Clean(msgs[Len(msgs)].calls) /\ (capped' => Unusable(msgs[Len(msgs)].calls))
  <2>1. CASE spent' >= TokenLimit
    <3>1. PICK calls : calls = Invalid(LastAI.calls)
      OBVIOUS
    <3>2. calls \in Seq(CallRecord) /\ Members(calls) = {c \in Members(LastAI.calls) : c.name = "broken"}
      BY <1>2, <3>1, CallFilters
    <3>3. msgs = Rewritten(calls)
      BY <1>7, <2>1, <3>1
    <3>4. /\ Transcript(msgs, counts.replies) /\ Tip(msgs, Len(msgs))
          /\ Len(msgs) \in 1 .. Len(msgs) /\ msgs[Len(msgs)].calls = calls
      BY <1>1, <3>2, <3>3, RewrittenIs
    <3> QED
      BY <3>2, <3>4 DEF Clean, Unusable
  <2>2. CASE ~(spent' >= TokenLimit)
    BY <1>2, <1>3, <1>6, <1>7, <2>2, ThreadsAre
  <2> QED
    BY <2>1, <2>2
<1>10. chat \in Thread /\ chat.todos \in {"none", "open", "done"} /\ msgs \in Seq(Message)
  BY <1>9, ThreadsAre DEF Transcript
<1>11. PICK thread : thread = [chat EXCEPT !.msgs = msgs]
  OBVIOUS
<1>12. thread \in Thread /\ thread.msgs = msgs /\ thread.todos # "unread"
  BY <1>10, <1>11 DEF Thread
<1>13. SavesThread(thread, "limit") /\ at' = "limit"
  BY <1>8, <1>11 DEF Saves, SavesThread
<1>14. Budget'
  BY <1>1, <1>4, <1>5, <1>6, <1>13 DEF Budget
<1>15. RanBefore' /\ CutOffNeverRuns'
  BY <1>1 DEF TurnsInv, RanBefore, CutOffNeverRuns
<1>16. \E p \in 1 .. Len(thread.msgs) :
          /\ Tip(thread.msgs, p)
          /\ \A c \in Members(thread.msgs[p].calls) : c.name = "broken" \/ c.id \notin filtered'
          /\ capped' /\ "limit" # "budget" => Unusable(thread.msgs[p].calls)
  BY <1>1, <1>9, <1>12 DEF Clean
<1>17. Transcript(thread.msgs, counts'.replies) /\ Tip(thread.msgs, Len(thread.msgs))
  BY <1>1, <1>9, <1>12
<1>18. /\ nudges' \in 0 .. MaxNudges /\ since' \in Nat /\ counts.replies <= counts'.replies
       /\ counts' \in [runs : 0 .. MaxChatRuns, replies : 0 .. MaxReplies, compacts : 0 .. MaxCompacts]
  BY <1>1, <1>4
<1>19. "limit" \in GraphNodes
  BY DEF GraphNodes
<1> QED
  BY <1>1, <1>6, <1>12, <1>13, <1>14, <1>15, <1>16, <1>17, <1>18, <1>19, NodeEnds

\* Results are added behind the answer with their calls.
LEMMA ToolsEndStep ==
  ASSUME TurnsInv, ToolsEnd
  PROVE  TurnsInv'
<1>1. at = "tools" /\ UNCHANGED <<spent, capped, nudges, ran, counts, compact, filtered, since>>
  BY DEF ToolsEnd
<1>2. PICK p \in 1 .. Len(Messages) :
         /\ Tip(Messages, p) /\ LastAI = Messages[p] /\ LastAI.calls \in Seq(CallRecord)
  BY <1>1, AnswerKnown
<1>3. PICK r : r = ToRun
  OBVIOUS
<1>4. r \in Seq(CallRecord) /\ Members(r) \subseteq Members(Messages[p].calls)
  BY <1>2, <1>3, ToRunIs
<1>5. PICK msgs : msgs = Messages \o [j \in DOMAIN r |-> ToolResult(r[j])]
  OBVIOUS
<1>6. Transcript(msgs, counts.replies) /\ msgs \in Seq(Message)
  <2>1. counts.replies \in Nat /\ Transcript(Messages, counts.replies)
    BY CountsAre, ThreadsAre
  <2>2. Tip(Messages, p)
    BY <1>2
  <2>3. PICK q : q = [j \in DOMAIN r |-> ToolResult(r[j])]
    OBVIOUS
  <2>4. Transcript(Messages \o q, counts.replies)
    BY <1>4, <2>1, <2>2, <2>3, ResultsAdded
  <2> QED
    BY <1>5, <2>3, <2>4 DEF Transcript
<1>7. chat.todos \in {"none", "open", "done"}
  BY ThreadsAre
<1>8. PICK todos \in {"none", "open", "done"}, next \in {"idle", "summarize"} :
         SavesThread([msgs |-> msgs, todos |-> todos], next)
  <2>1. PICK todos \in IF Named(ToRun, "todos") # <<>> THEN {"none", "open", "done"} ELSE {chat.todos},
             next \in IF Named(ToRun, "ask") # <<>> THEN {"idle", "summarize"} ELSE {"summarize"} :
             SavesThread([msgs |-> Messages \o [j \in DOMAIN ToRun |-> ToolResult(ToRun[j])],
                          todos |-> todos], next)
    BY DEF ToolsEnd
  <2>2. todos \in {"none", "open", "done"} /\ next \in {"idle", "summarize"}
    BY <1>7, <2>1
  <2> QED
    BY <1>3, <1>5, <2>1, <2>2
<1>9. PICK thread : thread = [msgs |-> msgs, todos |-> todos]
  OBVIOUS
<1>10. thread \in Thread /\ thread.msgs = msgs /\ thread.todos # "unread"
  BY <1>6, <1>9 DEF Thread
<1>11. SavesThread(thread, next) /\ at' = next
  BY <1>8, <1>9 DEF SavesThread
<1>12. ~capped
  BY <1>1 DEF TurnsInv, Budget
<1>13. Budget' /\ RanBefore' /\ CutOffNeverRuns'
  BY <1>1, <1>8, <1>11, <1>12 DEF TurnsInv, Budget, RanBefore, CutOffNeverRuns
<1>14. /\ counts' \in [runs : 0 .. MaxChatRuns, replies : 0 .. MaxReplies, compacts : 0 .. MaxCompacts]
       /\ counts' = counts /\ capped' \in BOOLEAN /\ nudges' \in 0 .. MaxNudges
  BY <1>1 DEF TurnsInv, TurnsTypeOK
<1>15. spent' \in Nat /\ since' \in Nat /\ counts.replies <= counts'.replies
  BY <1>1, <1>14, CountsAre
<1>16. Transcript(thread.msgs, counts'.replies) /\ next \in GraphNodes
  BY <1>6, <1>8, <1>10, <1>14 DEF GraphNodes
<1>17. compact' = compact
  BY <1>1
<1> QED
  BY <1>8, <1>10, <1>11, <1>13, <1>14, <1>15, <1>16, <1>17, NodeEnds

\* A reminder pays for the next answer; refused writes get their results.
LEMMA ChecksTodosStep ==
  ASSUME TurnsInv, ChecksTodos
  PROVE  TurnsInv'
<1>1. /\ at = "todo" /\ spent' = spent /\ capped' = capped /\ ran' = ran /\ counts' = counts
      /\ compact' = compact /\ filtered' = filtered /\ since' = since
  BY DEF ChecksTodos
<1>2. /\ Tip(Messages, Len(Messages)) /\ LastAI.calls \in Seq(CallRecord)
      /\ LastAI.calls = Messages[Len(Messages)].calls /\ Len(Messages) \in 1 .. Len(Messages)
  BY <1>1, AnswerAtEnd
<1>3. Clean(LastAI.calls) /\ (capped => Unusable(LastAI.calls))
  BY <1>1, AnswerKnown
<1>4. "route" \in GraphNodes /\ "summarize" \in GraphNodes
  BY DEF GraphNodes
<1>5. Transcript(Messages, counts.replies) /\ counts.replies \in Nat
  BY ThreadsAre, CountsAre
<1>6. PICK writes : writes = Named(LastAI.calls, "todos")
  OBVIOUS
<1>7. writes \in Seq(CallRecord) /\ Members(writes) \subseteq Members(LastAI.calls)
  <2>1. PICK calls \in Seq(CallRecord) : calls = LastAI.calls
    BY <1>2
  <2>2. PICK K : writes = Kept(calls, K)
    BY <1>6, <2>1 DEF Named
  <2> QED
    BY <2>1, <2>2, KeptProperties
<1>8. CASE /\ Saves(Messages \o [i \in DOMAIN writes |-> ToolResult(writes[i])], "route")
           /\ UNCHANGED nudges
  <2>1. PICK msgs : msgs = Messages \o [i \in DOMAIN writes |-> ToolResult(writes[i])]
    OBVIOUS
  <2>2. PICK p \in 1 .. Len(Messages) : p = Len(Messages)
    BY <1>2
  <2>3. Transcript(msgs, counts.replies) /\ Tip(msgs, p) /\ msgs[p] = Messages[p]
    <3>1. /\ Tip(Messages, p) /\ Members(writes) \subseteq Members(Messages[p].calls)
          /\ writes \in Seq(CallRecord)
      BY <1>2, <1>7, <2>2
    <3>2. PICK q : q = [j \in DOMAIN writes |-> ToolResult(writes[j])]
      OBVIOUS
    <3>3. PICK s : s = Messages
      OBVIOUS
    <3>4. PICK n \in Nat : n = counts.replies /\ Transcript(s, n)
      BY <1>5, <3>3
    <3>5. /\ Tip(s, p) /\ Members(writes) \subseteq Members(s[p].calls)
          /\ writes \in Seq(CallRecord)
      BY <3>1, <3>3
    <3>6. msgs = s \o q
      BY <2>1, <3>2, <3>3
    <3>7. Transcript(msgs, n)
      BY <3>2, <3>4, <3>5, <3>6, ResultsAdded, ZenonT(60)
    <3>8. Tip(msgs, p)
      BY <3>2, <3>4, <3>5, <3>6, ResultsAdded
    <3>9. \A x \in 1 .. Len(s) : msgs[x] = s[x]
      BY <3>2, <3>4, <3>5, <3>6, ResultsAdded
    <3> QED
      BY <3>3, <3>4, <3>7, <3>8, <3>9
  <2>4. p \in 1 .. Len(msgs)
    BY <2>3 DEF Tip
  <2>5. \E x \in 1 .. Len(msgs) : /\ Tip(msgs, x) /\ Clean(msgs[x].calls)
                                  /\ capped /\ "route" # "budget" => Unusable(msgs[x].calls)
    BY <1>2, <1>3, <2>2, <2>3, <2>4
  <2>6. Saves(msgs, "route") /\ UNCHANGED <<spent, capped, nudges, ran, counts, compact, filtered, since>>
    BY <1>1, <1>8, <2>1
  <2> QED
    BY <1>4, <2>3, <2>5, <2>6, NodePasses
<1>9. CASE Saves(Messages, "route") /\ UNCHANGED nudges
  <2>1. \E x \in 1 .. Len(Messages) : /\ Tip(Messages, x) /\ Clean(Messages[x].calls)
                                      /\ capped /\ "route" # "budget" => Unusable(Messages[x].calls)
    BY <1>2, <1>3
  <2>2. UNCHANGED <<spent, capped, nudges, ran, counts, compact, filtered, since>>
    BY <1>1, <1>9
  <2> QED
    BY <1>4, <1>5, <1>9, <2>1, <2>2, NodePasses
<1>10. CASE nudges < MaxNudges /\ nudges' = nudges + 1 /\ Saves(Messages, "summarize")
  <2>1. chat \in Thread /\ chat.todos \in {"none", "open", "done"} /\ Messages \in Seq(Message) /\ Messages = chat.msgs
    BY ThreadsAre
  <2>2. PICK thread : thread = [chat EXCEPT !.msgs = Messages]
    OBVIOUS
  <2>3. thread \in Thread /\ thread.msgs = Messages /\ thread.todos # "unread"
    <3>1. PICK msgs : msgs = Messages
      OBVIOUS
    <3> QED
      BY <2>1, <2>2, <3>1 DEF Thread
  <2>4. SavesThread(thread, "summarize") /\ at' = "summarize"
    BY <1>10, <2>2 DEF Saves, SavesThread
  <2>5. /\ spent \in Nat /\ since \in Nat /\ nudges \in Nat /\ capped \in BOOLEAN /\ MaxNudges \in Nat
        /\ counts \in [runs : 0 .. MaxChatRuns, replies : 0 .. MaxReplies, compacts : 0 .. MaxCompacts]
    BY CountsAre, TurnNumbers DEF TurnsInv, TurnsTypeOK
  <2>6. nudges' \in 0 .. MaxNudges
    BY <1>10, <2>5
  <2>7. Budget'
    <3>1. /\ capped => spent >= TokenLimit /\ since <= nudges
          /\ ~capped => since = 0
          /\ spent <= counts.replies /\ since <= counts.replies
      BY DEF TurnsInv, Budget
    <3>2. since <= nudges => since + 1 <= nudges' /\ since <= nudges'
      BY <1>10, <2>5
    <3> QED
      BY <1>1, <2>4, <3>1, <3>2 DEF Budget
  <2>8. RanBefore' /\ CutOffNeverRuns'
    BY <1>1 DEF TurnsInv, RanBefore, CutOffNeverRuns
  <2>9. Transcript(thread.msgs, counts'.replies) /\ counts.replies <= counts'.replies
    BY <1>1, <1>5, <2>3
  <2>10. /\ spent' \in Nat /\ since' \in Nat /\ capped' \in BOOLEAN
         /\ counts' \in [runs : 0 .. MaxChatRuns, replies : 0 .. MaxReplies, compacts : 0 .. MaxCompacts]
    BY <1>1, <2>5
  <2> QED
    BY <1>1, <1>4, <2>3, <2>4, <2>6, <2>7, <2>8, <2>9, <2>10, NodeEnds
<1> QED
  BY <1>6, <1>8, <1>9, <1>10 DEF ChecksTodos

\* A cancelled run leaves its last checkpoint.
LEMMA CancelChatStep ==
  ASSUME TurnsInv, CancelChat
  PROVE  TurnsInv'
<1>1. /\ at' = "idle" /\ chat' = EmptyThread /\ saved' = saved
      /\ UNCHANGED <<spent, capped, nudges, ran, counts, compact, filtered, since>>
  BY DEF CancelChat
<1>2. saved \in Thread /\ saved.todos # "unread" /\ Transcript(saved.msgs, counts.replies)
  BY ThreadsAre
<1>3. SavesThread(saved, "idle")
  BY <1>1 DEF SavesThread
<1>4. Budget' /\ RanBefore' /\ CutOffNeverRuns'
  BY <1>1 DEF TurnsInv, Budget, RanBefore, CutOffNeverRuns
<1>5. /\ counts' \in [runs : 0 .. MaxChatRuns, replies : 0 .. MaxReplies, compacts : 0 .. MaxCompacts]
      /\ counts' = counts /\ capped' \in BOOLEAN /\ nudges' \in 0 .. MaxNudges
  BY <1>1 DEF TurnsInv, TurnsTypeOK
<1>6. spent' \in Nat /\ since' \in Nat /\ counts.replies <= counts'.replies
  BY <1>1, <1>5, CountsAre
<1>7. Transcript(saved.msgs, counts'.replies) /\ "idle" \in GraphNodes /\ compact' = compact
  BY <1>1, <1>2 DEF GraphNodes
<1> QED
  BY <1>2, <1>3, <1>4, <1>5, <1>6, <1>7, NodeEnds

\* A compaction reads a checkpoint.
LEMMA CompactReadsStep ==
  ASSUME TurnsInv, CompactReads
  PROVE  TurnsInv'
<1>1. /\ chat' = chat /\ saved' = saved /\ at' = at /\ spent' = spent /\ capped' = capped
      /\ nudges' = nudges /\ ran' = ran /\ filtered' = filtered /\ since' = since /\ compact' = saved
  BY DEF CompactReads
<1>2. /\ counts' \in [runs : 0 .. MaxChatRuns, replies : 0 .. MaxReplies, compacts : 0 .. MaxCompacts]
      /\ counts'.replies = counts.replies
  <2>1. counts \in [runs : 0 .. MaxChatRuns, replies : 0 .. MaxReplies, compacts : 0 .. MaxCompacts]
    BY DEF TurnsInv, TurnsTypeOK
  <2>2. PICK k \in 0 .. MaxCompacts : k = counts.compacts + 1
    BY CountsAre, TurnNumbers DEF CompactReads
  <2>3. counts' = [counts EXCEPT !.compacts = k]
    BY <2>2 DEF CompactReads
  <2> QED
    BY <2>1, <2>3
<1>3. ThreadsKept'
  <2>1. saved \in Thread /\ saved.todos # "unread" /\ Transcript(saved.msgs, counts.replies)
    BY ThreadsAre
  <2>2. chat \in Thread /\ Transcript(chat.msgs, counts.replies)
    BY ThreadsAre
  <2> QED
    BY <1>1, <1>2, <2>1, <2>2 DEF ThreadsKept
<1>4. TurnsTypeOK'
  BY <1>1, <1>2 DEF TurnsInv, TurnsTypeOK
<1>5. LastAnswerKnown' /\ RanBefore' /\ Budget' /\ CutOffNeverRuns'
  BY <1>1, <1>2 DEF TurnsInv, LastAnswerKnown, RanBefore, Budget, CutOffNeverRuns, Clean, Messages
<1> QED
  BY <1>3, <1>4, <1>5 DEF TurnsInv

\* A compaction writes what it read, shortened.
LEMMA CompactWritesStep ==
  ASSUME TurnsInv, CompactWrites
  PROVE  TurnsInv'
<1>1. /\ chat' = chat /\ at' = at /\ spent' = spent /\ capped' = capped /\ nudges' = nudges
      /\ ran' = ran /\ counts' = counts /\ filtered' = filtered /\ since' = since /\ compact' = Unread
  BY DEF CompactWrites
<1>2. saved' \in Thread /\ saved'.todos \in {"none", "open", "done"} /\ Transcript(saved'.msgs, counts.replies)
  <2>1. CASE saved' = saved
    BY <2>1, ThreadsAre
  <2>2. CASE \E k \in Cuts(compact.msgs) : saved' = [compact EXCEPT !.msgs = After(@, k)]
    <3>1. PICK k \in Cuts(compact.msgs) : saved' = [compact EXCEPT !.msgs = After(compact.msgs, k)]
      BY <2>2
    <3>2. PICK msgs : msgs = After(compact.msgs, k)
      OBVIOUS
    <3>3. Transcript(msgs, counts.replies)
      BY <3>2, ThreadsAre, CountsAre, MessagesDropped
    <3>4. msgs \in Seq(Message)
      BY <3>3 DEF Transcript
    <3>5. compact \in Thread /\ compact.todos # "unread"
      BY DEF TurnsInv, ThreadsKept, CompactWrites
    <3>6. saved' = [compact EXCEPT !.msgs = msgs]
      BY <3>1, <3>2
    <3>7. saved' \in Thread /\ saved'.msgs = msgs /\ saved'.todos \in {"none", "open", "done"}
      BY <3>4, <3>5, <3>6 DEF Thread
    <3> QED
      BY <3>3, <3>7
  <2> QED
    BY <2>1, <2>2 DEF CompactWrites
<1>3. ThreadsKept'
  <2>1. chat \in Thread /\ Transcript(chat.msgs, counts.replies) /\ counts.replies \in Nat
    BY ThreadsAre, CountsAre
  <2>2. Unread' = Unread
    BY DEF Unread
  <2> QED
    BY <1>1, <1>2, <2>1, <2>2, NothingYet DEF ThreadsKept
<1>4. TurnsTypeOK'
  BY <1>1, <1>2 DEF TurnsInv, TurnsTypeOK
<1>5. LastAnswerKnown' /\ RanBefore' /\ Budget' /\ CutOffNeverRuns'
  BY <1>1 DEF TurnsInv, LastAnswerKnown, RanBefore, Budget, CutOffNeverRuns, Clean, Messages
<1> QED
  BY <1>3, <1>4, <1>5 DEF TurnsInv

\* Every step of the agent loop keeps the invariant.
LEMMA TurnsStep == TurnsInv /\ [TurnsNext]_turnVars => TurnsInv'
<1> SUFFICES ASSUME TurnsInv, [TurnsNext]_turnVars PROVE TurnsInv'
  OBVIOUS
<1>1. CASE UNCHANGED turnVars
  BY <1>1 DEF turnVars, TurnsInv, TurnsTypeOK, ThreadsKept, LastAnswerKnown, RanBefore, Budget,
              CutOffNeverRuns, Clean, Messages
<1> QED
  BY <1>1, StartChatStep, SummarizedStep, RemindsStep, AnswersStep, FiltersUnsafeStep,
     ChecksBudgetStep, LimitsTasksStep, ChecksTodosStep, RoutesStep, RunsToolStep, ToolsEndStep,
     CancelChatStep, CompactReadsStep, CompactWritesStep DEF TurnsNext

\* The agent loop keeps its inductive invariant, for any answers a model gives and any
\* number of runs, answers, compactions, tasks and reminders.
THEOREM TurnsInvariant == TurnsSpec => []TurnsInv
  BY TurnsInitInv, TurnsStep, PTL DEF TurnsSpec

\* Every request is one the provider accepts, and no result is lost from it
\* (_build_patched_messages).
THEOREM RequestsAreAccepted == TurnsSpec => []RequestAccepted
<1>1. TurnsInv => RequestAccepted
  <2> SUFFICES ASSUME TurnsInv PROVE RequestAccepted
    OBVIOUS
  <2>1. PICK msgs : msgs = Messages
    OBVIOUS
  <2>2. PICK n \in Nat : Transcript(msgs, n)
    BY <2>1, ThreadsAre, CountsAre
  <2>3. /\ WellFormed(Patched(msgs))
        /\ \A i \in DOMAIN msgs : msgs[i].type = "tool" =>
              \E k \in DOMAIN Patched(msgs) : Patched(msgs)[k] = msgs[i]
    BY <2>2, PatchedIsWellFormed
  <2> QED
    BY <2>1, <2>3 DEF RequestAccepted
<1> QED
  BY <1>1, TurnsInvariant, PTL

\* What the loop's invariant says of cut-off calls and the budget.
LEMMA TurnsInvSound == TurnsInv => CutOffNeverRuns /\ BudgetHolds
<1> SUFFICES ASSUME TurnsInv PROVE BudgetHolds
  BY DEF TurnsInv
<1>1. capped => at # "tools" /\ since <= nudges
  BY DEF TurnsInv, Budget
<1>2. since \in Nat /\ nudges \in Nat /\ nudges <= MaxNudges /\ MaxNudges \in Nat
  BY CountsAre, TurnNumbers
<1> QED
  BY <1>1, <1>2 DEF BudgetHolds

\* No call of a cut answer runs, no tool runs past the budget, and reminders bring the
\* model back at most MaxNudges times.
THEOREM RunsStayInBounds == TurnsSpec => [](CutOffNeverRuns /\ BudgetHolds)
  BY TurnsInvSound, TurnsInvariant, PTL

-----------------------------------------------------------------------------
(* Recursions over numbers, and facts about finite sets *)

\* f goes from a through n steps.
IsFold(f, V, n, a, step) ==
    f \in [0 .. n -> V] /\ f[0] = a /\ \A i \in 1 .. n : f[i] = step[i][f[i - 1]]

\* A recursion over 0 .. n whose steps are given has a solution.
LEMMA FoldExists ==
    ASSUME NEW V, NEW n \in Nat, NEW a \in V, NEW step \in [1 .. n -> [V -> V]]
    PROVE  \E f : IsFold(f, V, n, a, step)
<1> DEFINE Solves(f, m) == /\ f \in [0 .. m -> V]
                           /\ f[0] = a
                           /\ \A i \in 1 .. m : f[i] = step[i][f[i - 1]]
           P == {m \in Nat : m <= n => \E f : Solves(f, m)}
<1>1. 0 \in P
  <2>1. PICK f : f = [i \in 0 .. 0 |-> a]
    OBVIOUS
  <2>2. Solves(f, 0)
    BY <2>1
  <2> HIDE DEF Solves
  <2> QED
    BY <2>2
<1>2. ASSUME NEW m \in Nat, m \in P
      PROVE  m + 1 \in P
  <2>1. SUFFICES ASSUME m + 1 <= n
                 PROVE  \E g : Solves(g, m + 1)
    <3> HIDE DEF Solves
    <3> QED OBVIOUS
  <2>2. PICK f : Solves(f, m)
    <3>1. m <= n
      BY <2>1
    <3> HIDE DEF Solves
    <3> QED BY <1>2, <3>1
  <2>3. f[m] \in V /\ m + 1 \in 1 .. n
    BY <2>1, <2>2
  <2>4. PICK v \in V : v = step[m + 1][f[m]]
    BY <2>3
  <2>5. PICK g : g = [i \in 0 .. m + 1 |-> IF i = m + 1 THEN v ELSE f[i]]
    OBVIOUS
  <2>6. \A i \in 0 .. m + 1 : i # m + 1 => i \in 0 .. m
    OBVIOUS
  <2>7. g \in [0 .. m + 1 -> V] /\ g[0] = a
    BY <2>2, <2>5, <2>6
  <2>8. ASSUME NEW i \in 1 .. m + 1
        PROVE  g[i] = step[i][g[i - 1]]
    <3>1. CASE i = m + 1
      <4>1. g[i] = v /\ g[i - 1] = f[m] /\ i - 1 = m
        BY <2>5, <3>1
      <4> QED
        BY <2>4, <3>1, <4>1
    <3>2. CASE i # m + 1
      <4>1. i \in 1 .. m /\ i - 1 \in 0 .. m + 1 /\ i - 1 # m + 1
        BY <3>2
      <4>2. g[i] = f[i] /\ g[i - 1] = f[i - 1]
        BY <2>5, <3>2, <4>1
      <4> QED
        BY <2>2, <4>1, <4>2
    <3> QED
      BY <3>1, <3>2
  <2>9. Solves(g, m + 1)
    BY <2>7, <2>8
  <2> HIDE DEF Solves
  <2> QED
    BY <2>9
<1>3. n \in P
  <2> HIDE DEF P
  <2> QED BY <1>1, <1>2, NatByInduction
<1>4. PICK f : Solves(f, n)
  <2> HIDE DEF Solves
  <2> QED BY <1>3
<1> QED
  BY <1>4, Zenon DEF IsFold

\* A sequence without repetition has as many members as it is long.
LEMMA DistinctCount ==
    ASSUME NEW S, NEW s \in Seq(S), Distinct(s)
    PROVE  IsFiniteSet(Members(s)) /\ Cardinality(Members(s)) = Len(s)
<1>0. Len(s) \in Nat /\ \A i \in 1 .. Len(s) : s[i] \in S /\ s[i] \in Members(s)
  BY SeqElements
<1>1. IsFiniteSet(1 .. Len(s)) /\ Cardinality(1 .. Len(s)) = Len(s)
  <2>1. PICK n \in Nat : n = Len(s)
    BY <1>0
  <2>2. /\ IsFiniteSet(1 .. n)
        /\ Cardinality(1 .. n) = IF 1 > n THEN 0 ELSE n - 1 + 1
    <3>1. 1 \in Int /\ n \in Int
      OBVIOUS
    <3> QED
      BY <3>1, FS_Interval, Zenon
  <2> QED
    BY <2>1, <2>2
<1>2. PICK f : f = [i \in 1 .. Len(s) |-> s[i]]
  OBVIOUS
<1>3. f \in Surjection(1 .. Len(s), Members(s))
  BY <1>0, <1>2 DEF Surjection, Members
<1>4. f \in Injection(1 .. Len(s), Members(s))
  <2>1. f \in [1 .. Len(s) -> Members(s)]
    BY <1>0, <1>2
  <2>2. \A i, j \in 1 .. Len(s) : f[i] = f[j] => i = j
    BY <1>2 DEF Distinct
  <2> QED
    BY <2>1, <2>2 DEF Injection, IsInjective
<1> QED
  BY <1>1, <1>3, <1>4, FS_Surjection

\* Some member of a finite set of numbers is the greatest.
LEMMA GreatestExists ==
    ASSUME NEW S, S \subseteq Nat, IsFiniteSet(S), S # {}
    PROVE  \E c \in S : \A x \in S : x <= c
<1> DEFINE P == {n \in Nat : \A T \in SUBSET S : Cardinality(T) = n /\ T # {} =>
                    \E c \in T : \A x \in T : x <= c}
<1>0. \A T \in SUBSET S : IsFiniteSet(T) /\ Cardinality(T) \in Nat
  BY FS_Subset, FS_CardinalityType
<1>1. 0 \in P
  BY <1>0, FS_EmptySet
<1>2. ASSUME NEW n \in Nat, n \in P
      PROVE  n + 1 \in P
  <2>1. SUFFICES ASSUME NEW T \in SUBSET S, Cardinality(T) = n + 1, T # {}
                 PROVE  \E c \in T : \A x \in T : x <= c
    OBVIOUS
  <2>2. PICK y \in T : TRUE
    BY <2>1
  <2>3. PICK U \in SUBSET S : U = T \ {y}
    OBVIOUS
  <2>4. Cardinality(U) = n
    <3>1. IsFiniteSet(T)
      BY <1>0
    <3>2. Cardinality(U) = Cardinality(T) - 1
      BY <2>2, <2>3, <3>1, FS_RemoveElement
    <3> QED
      BY <2>1, <3>2
  <2>5. CASE U = {}
    BY <2>2, <2>3, <2>5
  <2>6. CASE U # {}
    <3>1. PICK c \in U : \A x \in U : x <= c
      BY <1>2, <2>4, <2>6
    <3>2. y \in Nat /\ c \in Nat /\ c \in T /\ \A x \in T : x \in Nat /\ (x = y \/ x \in U)
      BY <2>3
    <3>3. CASE c <= y
      BY <3>1, <3>2, <3>3
    <3>4. CASE y <= c
      BY <3>1, <3>2, <3>4
    <3> QED
      BY <3>2, <3>3, <3>4
  <2> QED
    BY <2>5, <2>6
<1>3. Nat \subseteq P
  <2> HIDE DEF P
  <2> QED BY <1>1, <1>2, NatByInduction
<1> QED
  BY <1>0, <1>3

-----------------------------------------------------------------------------
(* The facts of a memory *)

AnyFact == [id : Nat, text : Nat, category : Categories, confidence : Levels,
            aged : BOOLEAN, upload : BOOLEAN, from : SUBSET Nat]

\* The limits are numbers.
LEMMA FactsBounds ==
    /\ MaxFacts \in Nat /\ Threshold \in Nat /\ MaxStale \in Nat /\ MinGroup \in Nat
    /\ MaxGroups \in Nat /\ MaxSources \in Nat /\ MaxKnown \in Nat
    /\ \A c \in Levels : c \in Nat
  BY MemoryFactsBounds, Zenon

\* No fact comes twice, and no two share an id.
Unique(fs) ==
    /\ Distinct(fs)
    /\ \A f, g \in Members(fs) : f.id = g.id => f = g

\* Facts are taken away by their ids.
LEMMA WithoutKeeps ==
    ASSUME NEW fs \in Seq(AnyFact), Unique(fs), NEW ids
    PROVE  /\ Without(fs, ids) \in Seq(AnyFact)
           /\ Len(Without(fs, ids)) <= Len(fs)
           /\ Unique(Without(fs, ids))
           /\ Members(Without(fs, ids)) = {f \in Members(fs) : f.id \notin ids}
<1>1. PICK K : K = {f \in Members(fs) : f.id \notin ids}
  OBVIOUS
<1>2. PICK w : w = Kept(fs, K)
  OBVIOUS
<1>3. /\ w \in Seq(AnyFact) /\ Len(w) <= Len(fs)
      /\ Members(w) = Members(fs) \cap K /\ Distinct(w)
  BY <1>2, KeptProperties DEF Unique
<1>4. Members(w) = K
  BY <1>1, <1>3
<1>5. Unique(w)
  BY <1>1, <1>3, <1>4 DEF Unique
<1>6. Without(fs, ids) = w
  BY <1>1, <1>2 DEF Without
<1> QED
  BY <1>1, <1>3, <1>4, <1>5, <1>6

\* Facts that mention an upload are taken away.
LEMMA ScrubbedKeeps ==
    ASSUME NEW fs \in Seq(AnyFact)
    PROVE  /\ Scrubbed(fs) \in Seq(AnyFact)
           /\ Len(Scrubbed(fs)) <= Len(fs)
           /\ Members(Scrubbed(fs)) = {f \in Members(fs) : ~f.upload}
<1>1. PICK K : K = {f \in Members(fs) : ~f.upload}
  OBVIOUS
<1>2. PICK w : w = Kept(fs, K)
  OBVIOUS
<1>3. w \in Seq(AnyFact) /\ Len(w) <= Len(fs) /\ Members(w) = Members(fs) \cap K
  BY <1>2, KeptProperties
<1>4. Members(w) = K
  BY <1>1, <1>3
<1>5. Scrubbed(fs) = w
  BY <1>1, <1>2 DEF Scrubbed
<1> QED
  BY <1>1, <1>3, <1>4, <1>5

\* What a new fact of the answer becomes.
LEMMA NewFactType ==
    ASSUME NEW n \in New
    PROVE  /\ NewFact(n) \in AnyFact /\ NewFact(n).id = MaxKnown + 2
           /\ NewFact(n).from = {} /\ NewFact(n).confidence = n.confidence
<1>1. /\ n.text \in Nat /\ n.category \in Categories
      /\ n.confidence \in Levels /\ n.upload \in BOOLEAN
  <2>1. n.text \in {1, MaxKnown + 1} /\ n.category = "context" /\ n.upload \in BOOLEAN
        /\ n.confidence \in Levels
    BY DEF New
  <2>2. n.text \in Nat
    BY <2>1, FactsBounds
  <2> QED
    BY <2>1, <2>2, Zenon DEF Categories
<1>2. PICK f : f = NewFact(n)
  OBVIOUS
<1>3. /\ f.id = MaxKnown + 2 /\ f.text = n.text /\ f.category = n.category
      /\ f.confidence = n.confidence /\ f.aged = FALSE /\ f.upload = n.upload /\ f.from = {}
  BY <1>2 DEF NewFact
<1>4. f \in AnyFact
  <2>1. MaxKnown + 2 \in Nat /\ {} \in SUBSET Nat /\ FALSE \in BOOLEAN
    BY FactsBounds
  <2> QED
    BY <1>1, <1>2, <2>1 DEF AnyFact, NewFact
<1> QED
  BY <1>1, <1>2, <1>3, <1>4

\* The additions, unfolded.
LEMMA AddedUnfolds ==
    ASSUME NEW fs \in Seq(AnyFact), NEW new \in Seq(New)
    PROVE  \E f \in [0 .. Len(new) -> Seq(AnyFact)] :
              /\ Added(fs, new) = f[Len(new)]
              /\ f[0] = fs
              /\ \A n \in 1 .. Len(new) :
                    \/ f[n] = f[n - 1]
                    \/ f[n] = Append(f[n - 1], NewFact(new[n]))
<1> DEFINE Adds(n, s) == new[n].confidence >= Threshold /\ new[n].text \notin Texts(s)
           Step(n, s) == IF Adds(n, s) THEN Append(s, NewFact(new[n])) ELSE s
           Eqn(g) == g = [n \in 0 .. Len(new) |-> IF n = 0 THEN fs ELSE Step(n, g[n - 1])]
           f == CHOOSE g : Eqn(g)
<1>0. Len(new) \in Nat /\ \A n \in 1 .. Len(new) : new[n] \in New
  OBVIOUS
<1>1. \A n \in 1 .. Len(new), s \in Seq(AnyFact) : Step(n, s) \in Seq(AnyFact)
  <2> TAKE n \in 1 .. Len(new), s \in Seq(AnyFact)
  <2>1. NewFact(new[n]) \in AnyFact
    BY <1>0, NewFactType
  <2>2. Append(s, NewFact(new[n])) \in Seq(AnyFact)
    BY <2>1, AppendAdds
  <2> QED
    BY <2>2
<1> HIDE DEF Step
<1>2. \E g : Eqn(g) /\ g \in [0 .. Len(new) -> Seq(AnyFact)]
  <2>1. PICK step : step = [n \in 1 .. Len(new) |-> [s \in Seq(AnyFact) |-> Step(n, s)]]
    OBVIOUS
  <2>2. step \in [1 .. Len(new) -> [Seq(AnyFact) -> Seq(AnyFact)]]
    BY <1>1, <2>1
  <2>3. PICK g \in [0 .. Len(new) -> Seq(AnyFact)] :
            g[0] = fs /\ \A n \in 1 .. Len(new) : g[n] = step[n][g[n - 1]]
    <3>1. \E g : IsFold(g, Seq(AnyFact), Len(new), fs, step)
      BY <1>0, <2>2, FoldExists
    <3> QED
      BY <3>1 DEF IsFold
  <2>4. \A n \in 0 .. Len(new) : n # 0 => n \in 1 .. Len(new) /\ n - 1 \in 0 .. Len(new)
    BY <1>0
  <2>5. \A n \in 0 .. Len(new) : g[n] = IF n = 0 THEN fs ELSE Step(n, g[n - 1])
    BY <2>1, <2>3, <2>4
  <2>6. Eqn(g)
    BY <2>3, <2>5
  <2> HIDE DEF Eqn
  <2> QED
    BY <2>3, <2>6
<1>3. Added(fs, new) = f[Len(new)]
  BY ZenonT(60) DEF Added, Step
<1>4. Eqn(f)
  <2> HIDE DEF Eqn
  <2> QED BY <1>2, Zenon
<1> HIDE DEF f
<1>5. ASSUME NEW n \in 0 .. Len(new)
      PROVE  f[n] = IF n = 0 THEN fs ELSE Step(n, f[n - 1])
  BY <1>4, Zenon
<1>6. f = [n \in 0 .. Len(new) |-> f[n]]
  BY <1>4, Zenon
<1> HIDE DEF Eqn
<1>7. f[0] = fs
  BY <1>0, <1>5
<1>8. ASSUME NEW n \in 1 .. Len(new)
      PROVE  f[n] = Step(n, f[n - 1])
  <2>1. n \in 0 .. Len(new) /\ n # 0
    BY <1>0
  <2> QED
    BY <1>5, <2>1, Zenon
<1>9. \A n \in 0 .. Len(new) : f[n] \in Seq(AnyFact)
  <2> DEFINE P == {n \in Nat : n <= Len(new) => f[n] \in Seq(AnyFact)}
  <2>1. 0 \in P
    BY <1>7
  <2>2. ASSUME NEW n \in Nat, n \in P
        PROVE  n + 1 \in P
    <3>1. SUFFICES ASSUME n + 1 <= Len(new)
                   PROVE  f[n + 1] \in Seq(AnyFact)
      OBVIOUS
    <3>2. n + 1 \in 1 .. Len(new) /\ (n + 1) - 1 = n /\ n <= Len(new)
      BY <1>0, <3>1
    <3>3. f[n + 1] = Step(n + 1, f[n])
      BY <1>8, <3>2
    <3> QED
      BY <1>1, <2>2, <3>2, <3>3
  <2>3. Nat \subseteq P
    <3> HIDE DEF P
    <3> QED BY <2>1, <2>2, NatByInduction
  <2> QED
    BY <1>0, <2>3
<1>10. f \in [0 .. Len(new) -> Seq(AnyFact)]
  BY <1>6, <1>9
<1>11. \A n \in 1 .. Len(new) : f[n] = f[n - 1] \/ f[n] = Append(f[n - 1], NewFact(new[n]))
  BY <1>8 DEF Step
<1> QED
  BY <1>3, <1>7, <1>10, <1>11

\* An addition takes nothing away and brings one fact of a new id.
LEMMA AddedKeeps ==
    ASSUME NEW fs \in Seq(AnyFact), Unique(fs), \A f \in Members(fs) : f.id <= MaxKnown,
           NEW new \in Seq(New), Len(new) <= 1
    PROVE  /\ Added(fs, new) \in Seq(AnyFact)
           /\ Unique(Added(fs, new))
           /\ Len(Added(fs, new)) <= Len(fs) + 1
           /\ Members(fs) \subseteq Members(Added(fs, new))
           /\ \A f \in Members(Added(fs, new)) :
                 f \in Members(fs) \/ (Len(new) = 1 /\ f = NewFact(new[1]))
<1>0. Len(new) \in Nat /\ Len(fs) \in Nat /\ \A n \in 1 .. Len(new) : new[n] \in New
  OBVIOUS
<1>1. PICK h \in [0 .. Len(new) -> Seq(AnyFact)] :
              /\ Added(fs, new) = h[Len(new)]
              /\ h[0] = fs
              /\ \A n \in 1 .. Len(new) :
                    \/ h[n] = h[n - 1]
                    \/ h[n] = Append(h[n - 1], NewFact(new[n]))
  BY AddedUnfolds
<1>2. CASE Added(fs, new) = fs
  BY <1>0, <1>2
<1>3. CASE Added(fs, new) # fs
  <2>0. Len(new) = 0 => Added(fs, new) = fs
    BY <1>1
  <2>1. Len(new) = 1
    <3>1. PICK n \in Nat : n = Len(new)
      BY <1>0
    <3> QED
      BY <1>3, <2>0, <3>1
  <2>2. 1 \in 1 .. Len(new) /\ 1 - 1 = 0 /\ new[1] \in New
    BY <1>0, <2>1
  <2>3. h[1] = h[1 - 1] \/ h[1] = Append(h[1 - 1], NewFact(new[1]))
    BY <1>1, <2>2
  <2>4. Added(fs, new) = Append(fs, NewFact(new[1]))
    BY <1>1, <1>3, <2>1, <2>2, <2>3
  <2>5. PICK x : x = NewFact(new[1])
    OBVIOUS
  <2>6. x \in AnyFact /\ x.id = MaxKnown + 2
    BY <2>2, <2>5, NewFactType
  <2>7. \A f \in Members(fs) : f.id \in Nat /\ f.id <= MaxKnown
    <3>1. \A f \in Members(fs) : f \in AnyFact
      BY SeqElements
    <3> QED
      BY <3>1 DEF AnyFact
  <2>8. \A f \in Members(fs) : f.id # x.id
    BY <2>6, <2>7, FactsBounds
  <2>9. x \notin Members(fs)
    BY <2>8
  <2>10. PICK t : t = Append(fs, x)
    OBVIOUS
  <2>11. /\ t \in Seq(AnyFact) /\ Len(t) = Len(fs) + 1
         /\ Members(t) = Members(fs) \cup {x} /\ Distinct(t)
    BY <2>6, <2>9, <2>10, AppendAdds DEF Unique
  <2>12. Unique(t)
    BY <2>8, <2>11 DEF Unique
  <2> QED
    BY <1>0, <2>1, <2>4, <2>5, <2>10, <2>11, <2>12
<1> QED
  BY <1>2, <1>3

\* The limit keeps as many facts as it allows, and each it drops has that many others
\* that are as confident.
LEMMA TrimmedKeeps ==
    ASSUME NEW fs \in Seq(AnyFact), Unique(fs)
    PROVE  /\ Trimmed(fs) \in Seq(AnyFact)
           /\ Unique(Trimmed(fs))
           /\ Len(Trimmed(fs)) <= Len(fs) /\ Len(Trimmed(fs)) <= MaxFacts
           /\ Members(Trimmed(fs)) \subseteq Members(fs)
           /\ \A f \in Members(fs) \ Members(Trimmed(fs)) :
                 Cardinality({g \in Members(fs) : g.id # f.id /\ g.confidence >= f.confidence})
                   >= MaxFacts
<1>0. /\ Len(fs) \in Nat /\ DOMAIN fs = 1 .. Len(fs) /\ MaxFacts \in Nat
      /\ \A i \in 1 .. Len(fs) : fs[i] \in AnyFact /\ fs[i] \in Members(fs)
      /\ \A x \in Members(fs) : \E i \in 1 .. Len(fs) : fs[i] = x
  BY FactsBounds, SeqElements
<1>1. CASE Len(fs) <= MaxFacts
  <2>1. Trimmed(fs) = fs
    BY <1>1 DEF Trimmed
  <2> QED
    BY <1>0, <1>1, <2>1
<1>2. CASE ~(Len(fs) <= MaxFacts)
  <2>0. PICK N \in Nat : N = Len(fs)
    BY <1>0
  <2> DEFINE Before(j, i) == \/ fs[j].confidence > fs[i].confidence
                             \/ fs[j].confidence = fs[i].confidence /\ j < i
             Pred(i) == {j \in DOMAIN fs : Before(j, i)}
             rank(i) == Cardinality(Pred(i))
             nth(r) == CHOOSE i \in DOMAIN fs : rank(i) = r - 1
  <2>1. Trimmed(fs) = [r \in 1 .. MaxFacts |-> fs[nth(r)]]
    BY <1>2, Zenon DEF Trimmed
  <2>2. \A i \in 1 .. N : fs[i] \in AnyFact /\ fs[i].confidence \in Nat
    <3>1. \A i \in 1 .. N : fs[i] \in AnyFact
      BY <1>0, <2>0
    <3>2. \A f \in AnyFact : f.confidence \in Nat
      BY FactsBounds DEF AnyFact
    <3> QED
      BY <3>1, <3>2
  <2>3. /\ \A i \in 1 .. N : ~Before(i, i)
        /\ \A i, j, k \in 1 .. N : Before(i, j) /\ Before(j, k) => Before(i, k)
        /\ \A i, j \in 1 .. N : i # j => Before(i, j) \/ Before(j, i)
    BY <2>2
  <2>4. \A i, j \in 1 .. N : Before(j, i) => fs[j].confidence >= fs[i].confidence
    BY <2>2
  <2>5. IsFiniteSet(1 .. N) /\ Cardinality(1 .. N) = N
    <3>1. /\ IsFiniteSet(1 .. N)
          /\ Cardinality(1 .. N) = IF 1 > N THEN 0 ELSE N - 1 + 1
      <4>1. 1 \in Int /\ N \in Int
        OBVIOUS
      <4> QED
        BY <4>1, FS_Interval, Zenon
    <3> QED
      BY <3>1
  <2>a. \A i \in 1 .. N : \A j : j \in Pred(i) <=> j \in 1 .. N /\ Before(j, i)
    BY <1>0, <2>0
  <2>b. \A i \in 1 .. N : Pred(i) \in SUBSET (1 .. N)
    BY <1>0, <2>0
  <2> HIDE DEF Before, Pred
  <2>6. \A i \in 1 .. N : IsFiniteSet(Pred(i)) /\ rank(i) \in Nat
    BY <2>5, <2>b, FS_Subset, FS_CardinalityType
  <2>7. ASSUME NEW i \in 1 .. N
        PROVE  rank(i) \in 0 .. N - 1
    <3>1. PICK U : U = (1 .. N) \ {i}
      OBVIOUS
    <3>2. IsFiniteSet(U) /\ Cardinality(U) = N - 1
      BY <2>5, <3>1, FS_RemoveElement
    <3>3. Pred(i) \in SUBSET U
      BY <2>3, <2>a, <3>1
    <3>4. Cardinality(Pred(i)) <= N - 1
      BY <3>2, <3>3, FS_Subset
    <3> QED
      BY <2>6, <3>4
  <2>8. ASSUME NEW i \in 1 .. N, NEW j \in 1 .. N, Before(j, i)
        PROVE  rank(j) < rank(i)
    <3>1. PICK U : U = Pred(j) \cup {j}
      OBVIOUS
    <3>2. j \notin Pred(j)
      BY <2>3, <2>a
    <3>3. U \in SUBSET Pred(i)
      BY <2>3, <2>8, <2>a, <3>1
    <3>4. Cardinality(U) = Cardinality(Pred(j)) + 1
      BY <2>6, <3>1, <3>2, FS_AddElement
    <3>5. Cardinality(U) <= Cardinality(Pred(i))
      BY <2>6, <3>3, FS_Subset
    <3> QED
      BY <2>6, <3>4, <3>5
  <2> HIDE DEF rank
  <2>9. \A i, j \in 1 .. N : rank(i) = rank(j) => i = j
    BY <2>3, <2>6, <2>8
  <2>10. \A r \in 0 .. N - 1 : \E i \in 1 .. N : rank(i) = r
    <3>1. PICK R : R = [i \in 1 .. N |-> rank(i)]
      OBVIOUS
    <3>2. R \in [1 .. N -> 0 .. N - 1]
      BY <2>7, <3>1
    <3>3. R \in Injection(1 .. N, 0 .. N - 1)
      BY <2>9, <3>1, <3>2 DEF Injection, IsInjective
    <3>4. IsFiniteSet(0 .. N - 1) /\ Cardinality(0 .. N - 1) = N
      <4>1. /\ IsFiniteSet(0 .. N - 1)
            /\ Cardinality(0 .. N - 1) = IF 0 > N - 1 THEN 0 ELSE N - 1 - 0 + 1
        <5>1. 0 \in Int /\ N - 1 \in Int
          OBVIOUS
        <5> QED
          BY <5>1, FS_Interval, Zenon
      <4> QED
        BY <4>1
    <3>5. R \in Surjection(1 .. N, 0 .. N - 1)
      BY <2>5, <3>3, <3>4, FS_Injection
    <3> QED
      BY <3>1, <3>5 DEF Surjection
  <2>11. ASSUME NEW r \in 1 .. MaxFacts
         PROVE  nth(r) \in 1 .. N /\ rank(nth(r)) = r - 1
    <3>1. r - 1 \in 0 .. N - 1
      BY <1>0, <1>2, <2>0
    <3>2. \E i \in DOMAIN fs : rank(i) = r - 1
      BY <1>0, <2>0, <2>10, <3>1
    <3>3. nth(r) \in DOMAIN fs /\ rank(nth(r)) = r - 1
      BY <3>2, Zenon
    <3> QED
      BY <1>0, <2>0, <3>3
  <2> HIDE DEF nth
  <2>12. PICK t : t = Trimmed(fs)
    OBVIOUS
  <2>13. /\ t \in Seq(AnyFact) /\ Len(t) = MaxFacts
         /\ \A r \in 1 .. MaxFacts : t[r] = fs[nth(r)]
    <3>1. t \in [1 .. MaxFacts -> AnyFact]
      BY <2>1, <2>2, <2>11, <2>12
    <3> QED
      BY <1>0, <2>1, <2>12, <3>1
  <2>14. Members(t) \subseteq Members(fs)
    BY <1>0, <2>0, <2>11, <2>13 DEF Members
  <2>15. Distinct(t)
    <3>1. \A i, j \in 1 .. N : fs[i] = fs[j] => i = j
      BY <2>0 DEF Unique, Distinct
    <3>2. \A r, q \in 1 .. MaxFacts : nth(r) = nth(q) => r = q
      BY <1>0, <2>11
    <3> QED
      BY <2>11, <2>13, <3>1, <3>2 DEF Distinct
  <2>16. Unique(t)
    BY <2>14, <2>15 DEF Unique
  <2>17. ASSUME NEW f \in Members(fs), f \notin Members(t)
         PROVE  Cardinality({g \in Members(fs) : g.id # f.id /\ g.confidence >= f.confidence})
                   >= MaxFacts
    <3>1. PICK i \in 1 .. N : fs[i] = f
      BY <1>0, <2>0
    <3>2. rank(i) >= MaxFacts
      <4> SUFFICES ASSUME rank(i) < MaxFacts PROVE FALSE
        BY <1>0, <2>6
      <4>1. PICK r \in 1 .. MaxFacts : r = rank(i) + 1
        BY <1>0, <2>6
      <4>2. rank(nth(r)) = rank(i) /\ nth(r) \in 1 .. N
        BY <2>6, <2>11, <4>1
      <4>3. nth(r) = i
        BY <2>9, <4>2
      <4>4. t[r] = f
        BY <2>13, <3>1, <4>3
      <4> QED
        BY <2>13, <2>17, <4>4 DEF Members
    <3>3. PICK G : G = {g \in Members(fs) : g.id # f.id /\ g.confidence >= f.confidence}
      OBVIOUS
    <3>4. IsFiniteSet(G)
      BY <3>3, DistinctCount, FS_Subset DEF Unique
    <3>5. \A j \in Pred(i) : fs[j] \in G
      <4>1. \A j \in Pred(i) : j \in 1 .. N /\ j # i /\ Before(j, i)
        BY <2>3, <2>a
      <4>2. \A j \in 1 .. N : j # i => fs[j] # f /\ fs[j] \in Members(fs)
        BY <1>0, <2>0, <3>1 DEF Unique, Distinct
      <4>3. \A j \in 1 .. N : j # i => fs[j].id # f.id
        BY <4>2 DEF Unique
      <4>4. \A j \in Pred(i) : fs[j].confidence >= f.confidence
        BY <2>4, <3>1, <4>1
      <4> QED
        BY <3>3, <4>1, <4>2, <4>3, <4>4
    <3>6. PICK h : h = [j \in Pred(i) |-> fs[j]]
      OBVIOUS
    <3>7. \A j, k \in Pred(i) : fs[j] = fs[k] => j = k
      BY <2>0, <2>a DEF Unique, Distinct
    <3>8. h \in Injection(Pred(i), G)
      <4>1. h \in [Pred(i) -> G]
        BY <3>5, <3>6
      <4> QED
        BY <3>6, <3>7, <4>1 DEF Injection, IsInjective
    <3>9. Cardinality(Pred(i)) <= Cardinality(G)
      BY <3>4, <3>8, FS_Injection
    <3>10. Cardinality(G) \in Nat /\ Cardinality(Pred(i)) \in Nat
      BY <2>6, <3>4, FS_CardinalityType DEF rank
    <3>11. Cardinality(G) >= MaxFacts
      BY <1>0, <3>2, <3>9, <3>10 DEF rank
    <3> QED
      BY <3>3, <3>11
  <2>18. Len(t) <= Len(fs) /\ Len(t) <= MaxFacts
    BY <1>0, <1>2, <2>13
  <2> QED
    BY <2>12, <2>13, <2>14, <2>16, <2>17, <2>18
<1> QED
  BY <1>1, <1>2

\* No more confident than a fact it was made of.
Capped(fs, x) == \E f \in Members(fs) : f.id \in x.from /\ f.confidence >= x.confidence

\* What a merge makes of facts that are there.
LEMMA MergedKeeps ==
    ASSUME NEW fs \in Seq(AnyFact), NEW m \in Merge, m.sources \subseteq Ids(fs)
    PROVE  /\ MergedFact(fs, m) \in AnyFact /\ MergedFact(fs, m).from = m.sources
           /\ MergedFact(fs, m).upload = m.upload /\ Capped(fs, MergedFact(fs, m))
<1>0. /\ Len(fs) \in Nat /\ DOMAIN fs = 1 .. Len(fs) /\ Members(fs) \subseteq AnyFact
      /\ \A i \in 1 .. Len(fs) : fs[i] \in AnyFact /\ fs[i] \in Members(fs)
  BY SeqElements
<1>1. /\ m.sources \in SUBSET (1 .. MaxKnown + 1) /\ Cardinality(m.sources) > 1
      /\ m.confidence \in Levels /\ m.upload \in BOOLEAN
  BY DEF Merge
<1> DEFINE of == {fs[k] : k \in {k \in DOMAIN fs : fs[k].id \in m.sources}}
           tops == {f.confidence : f \in of}
           top == CHOOSE c \in tops : \A f \in of : f.confidence <= c
<1>2. \A f : f \in of <=> f \in Members(fs) /\ f.id \in m.sources
  BY <1>0 DEF Members
<1>3. PICK g \in of : TRUE
  <2>1. m.sources # {}
    <3>1. PICK S : S = m.sources
      OBVIOUS
    <3>2. Cardinality(S) > 1 /\ Cardinality({}) = 0
      BY <1>1, <3>1, FS_EmptySet
    <3>3. S # {}
      <4> SUFFICES ASSUME S = {} PROVE FALSE
        OBVIOUS
      <4>1. Cardinality(S) = 0
        BY <3>2, Zenon
      <4> QED
        BY <3>2, <4>1
    <3> QED
      BY <3>1, <3>3
  <2>2. PICK i \in m.sources : TRUE
    BY <2>1
  <2>3. \E k \in DOMAIN fs : fs[k].id = i
    BY DEF Ids
  <2> QED
    BY <2>3
<1>4. MergedFact(fs, m) =
        [id |-> 0, text |-> 0, category |-> "context",
         confidence |-> IF m.confidence < top THEN m.confidence ELSE top,
         aged |-> \A f \in of : f.aged, upload |-> m.upload, from |-> m.sources]
  BY Zenon DEF MergedFact
<1> HIDE DEF of
<1>5. \A f \in of : f.confidence \in Levels
  BY <1>0, <1>2 DEF AnyFact
<1>6. IsFiniteSet(of)
  <2>1. IsFiniteSet(1 .. Len(fs))
    BY <1>0, FS_Interval
  <2>2. PICK h : h = [i \in {k \in 1 .. Len(fs) : fs[k] \in of} |-> fs[i]]
    OBVIOUS
  <2>3. IsFiniteSet({k \in 1 .. Len(fs) : fs[k] \in of})
    BY <2>1, FS_Subset
  <2>4. h \in Surjection({k \in 1 .. Len(fs) : fs[k] \in of}, of)
    BY <1>0, <1>2, <2>2 DEF Surjection, Members
  <2> QED
    BY <2>3, <2>4, FS_Surjection
<1>7. IsFiniteSet(tops) /\ tops \subseteq Nat /\ tops # {}
  <2>1. PICK h : h = [f \in of |-> f.confidence]
    OBVIOUS
  <2>2. h \in Surjection(of, tops)
    BY <2>1 DEF Surjection
  <2> QED
    BY <1>3, <1>5, <1>6, <2>2, FS_Surjection, FactsBounds
<1>8. \E c \in tops : \A x \in tops : x <= c
  BY <1>7, GreatestExists
<1>9. \E c \in tops : \A f \in of : f.confidence <= c
  BY <1>8
<1>10. top \in tops
  BY <1>9, Zenon
<1> HIDE DEF top
<1>11. PICK t \in of : t.confidence = top
  BY <1>10
<1>12. t \in Members(fs) /\ t.id \in m.sources
  BY <1>2
<1>13. top \in Levels /\ top \in Nat /\ m.confidence \in Nat
  BY <1>1, <1>5, <1>11, FactsBounds
<1>14. PICK c \in Levels : c = IF m.confidence < top THEN m.confidence ELSE top
  BY <1>1, <1>13
<1>15. c <= top /\ c \in Nat
  BY <1>13, <1>14
<1>16. PICK b \in BOOLEAN : b = \A f \in of : f.aged
  BY Zenon
<1>17. PICK x : x = MergedFact(fs, m)
  OBVIOUS
<1>18. x = [id |-> 0, text |-> 0, category |-> "context", confidence |-> c,
            aged |-> b, upload |-> m.upload, from |-> m.sources]
  BY <1>4, <1>14, <1>16, <1>17, Zenon
<1>19. x.from = m.sources /\ x.upload = m.upload /\ x.confidence = c
  BY <1>18
<1>20. x \in AnyFact
  <2>1. m.sources \in SUBSET Nat /\ "context" \in Categories
    BY <1>1, FactsBounds DEF Categories
  <2> QED
    BY <1>1, <1>18, <2>1 DEF AnyFact
<1>21. Capped(fs, x)
  BY <1>11, <1>12, <1>13, <1>15, <1>19 DEF Capped
<1> QED
  BY <1>17, <1>19, <1>20, <1>21

\* What the consolidation pass has done: the ids it consumed are allowed ones, at least
\* as many as the facts it made; each fact is of a decision, and each id in a fact.
MadeOf(x, merges) ==
    \E i \in 1 .. Len(merges) : x.from = merges[i].sources /\ x.upload = merges[i].upload
DoneOK(fs, merges, d) ==
    /\ d.used \subseteq AllowedSources(fs) /\ IsFiniteSet(d.used)
    /\ d.made \in Seq(AnyFact) /\ Len(d.made) <= Cardinality(d.used)
    /\ \A x \in Members(d.made) : MadeOf(x, merges) /\ Capped(fs, x)
    /\ \A i \in d.used : \E x \in Members(d.made) : i \in x.from

\* One decision of the pass, carried out or skipped, keeps that.
LEMMA MergeStepKeeps ==
    ASSUME NEW fs \in Seq(AnyFact), NEW merges \in Seq(Merge), NEW n \in 1 .. Len(merges),
           NEW d, DoneOK(fs, merges, d)
    PROVE  DoneOK(fs, merges, MergeStep(fs, d, merges[n]))
<1>1. PICK m : m = merges[n]
  OBVIOUS
<1>2. m \in Merge
  BY <1>1
<1>3. PICK e : e = MergeStep(fs, d, m)
  OBVIOUS
<1>4. CASE e = d
  BY <1>1, <1>3, <1>4
<1>5. CASE e # d
  <2>1. PICK x : x = MergedFact(fs, m)
    OBVIOUS
  <2>2. /\ e = [used |-> d.used \cup m.sources, made |-> Append(d.made, x)]
        /\ MergeAllowed(fs, d.used, m)
    BY <1>3, <1>5, <2>1, Zenon DEF MergeStep
  <2>3. e.used = d.used \cup m.sources /\ e.made = Append(d.made, x)
    BY <2>2
  <2>4. m.sources \subseteq AllowedSources(fs) /\ m.sources \cap d.used = {}
    BY <2>2 DEF MergeAllowed
  <2>5. m.sources \subseteq Ids(fs)
    BY <2>4 DEF AllowedSources
  <2>6. x \in AnyFact /\ x.from = m.sources /\ x.upload = m.upload /\ Capped(fs, x)
    BY <1>2, <2>1, <2>5, MergedKeeps
  <2>7. IsFiniteSet(m.sources) /\ Cardinality(m.sources) > 1
    <3>1. m.sources \in SUBSET (1 .. MaxKnown + 1) /\ Cardinality(m.sources) > 1
      BY <1>2 DEF Merge
    <3>2. IsFiniteSet(1 .. MaxKnown + 1)
      BY FactsBounds, FS_Interval
    <3> QED
      BY <3>1, <3>2, FS_Subset
  <2>8. /\ d.made \in Seq(AnyFact) /\ IsFiniteSet(d.used)
        /\ Len(d.made) \in Nat /\ Len(d.made) <= Cardinality(d.used)
    BY DEF DoneOK
  <2>9. /\ e.made \in Seq(AnyFact) /\ Len(e.made) = Len(d.made) + 1
        /\ Members(e.made) = Members(d.made) \cup {x}
    BY <2>3, <2>6, <2>8, AppendAdds
  <2>10. IsFiniteSet(e.used) /\ Len(e.made) <= Cardinality(e.used)
    <3>1. PICK A, B : A = d.used /\ B = m.sources
      OBVIOUS
    <3>2. /\ IsFiniteSet(A \cup B)
          /\ Cardinality(A \cup B) = Cardinality(A) + Cardinality(B) - Cardinality(A \cap B)
      BY <2>7, <2>8, <3>1, FS_Union
    <3>3. Cardinality(A \cap B) = 0
      <4>1. A \cap B = {}
        BY <2>4, <3>1
      <4> QED
        BY <4>1, FS_EmptySet
    <3>4. Cardinality(A) \in Nat /\ Cardinality(B) \in Nat /\ Cardinality(B) > 1
          /\ Len(d.made) <= Cardinality(A)
      BY <2>7, <2>8, <3>1, FS_CardinalityType
    <3>5. Cardinality(A \cup B) = Cardinality(A) + Cardinality(B)
      BY <3>2, <3>3, <3>4
    <3>6. e.used = A \cup B
      BY <2>3, <3>1
    <3> QED
      BY <2>8, <2>9, <3>2, <3>4, <3>5, <3>6
  <2>11. \A y \in Members(e.made) : MadeOf(y, merges) /\ Capped(fs, y)
    <3>1. MadeOf(x, merges)
      BY <1>1, <2>6 DEF MadeOf
    <3> QED
      BY <2>6, <2>9, <3>1 DEF DoneOK
  <2>12. \A i \in e.used : \E y \in Members(e.made) : i \in y.from
    BY <2>3, <2>6, <2>9 DEF DoneOK
  <2>13. e.used \subseteq AllowedSources(fs)
    BY <2>3, <2>4 DEF DoneOK
  <2>14. DoneOK(fs, merges, e)
    BY <2>9, <2>10, <2>11, <2>12, <2>13 DEF DoneOK
  <2> QED
    BY <1>1, <1>3, <2>14
<1> QED
  BY <1>4, <1>5

\* The consolidation pass, unfolded.
LEMMA ConsolidatedUnfolds ==
    ASSUME NEW fs \in Seq(AnyFact), NEW merges \in Seq(Merge)
    PROVE  \E d : DoneOK(fs, merges, d) /\ Consolidated(fs, merges) = Without(fs, d.used) \o d.made
<1> DEFINE none == [used |-> {}, made |-> <<>>]
           Eqn(g) == g = [n \in 0 .. Len(merges) |->
                            IF n = 0 THEN none ELSE MergeStep(fs, g[n - 1], merges[n])]
           f == CHOOSE g : Eqn(g)
<1>0. Len(merges) \in Nat
  OBVIOUS
<1>1. PICK V : V = {d \in [used : SUBSET Nat, made : Seq(AnyFact)] : DoneOK(fs, merges, d)}
  OBVIOUS
<1>2. \A d : DoneOK(fs, merges, d) /\ d = [used |-> d.used, made |-> d.made] => d \in V
  <2>1. AllowedSources(fs) \subseteq Nat
    <3>1. \A k \in DOMAIN fs : fs[k].id \in Nat
      <4>1. \A k \in DOMAIN fs : fs[k] \in AnyFact
        OBVIOUS
      <4> QED
        BY <4>1 DEF AnyFact
    <3> QED
      BY <3>1 DEF AllowedSources, Ids
  <2> QED
    BY <1>1, <2>1 DEF DoneOK
<1>3. none \in V
  <2>1. PICK d : d = none
    OBVIOUS
  <2>2. d.used = {} /\ d.made = <<>>
    BY <2>1
  <2>3. Members(d.made) = {} /\ d.made \in Seq(AnyFact) /\ Len(d.made) = 0
    BY <2>2 DEF Members
  <2>4. DoneOK(fs, merges, d)
    BY <2>2, <2>3, FS_EmptySet DEF DoneOK
  <2> QED
    BY <1>2, <2>1, <2>2, <2>4
<1>4. \A n \in 1 .. Len(merges), d \in V : MergeStep(fs, d, merges[n]) \in V
  <2> TAKE n \in 1 .. Len(merges), d \in V
  <2>1. DoneOK(fs, merges, d) /\ d = [used |-> d.used, made |-> d.made]
    BY <1>1
  <2>2. DoneOK(fs, merges, MergeStep(fs, d, merges[n]))
    BY <2>1, MergeStepKeeps
  <2>3. PICK e : e = MergeStep(fs, d, merges[n])
    OBVIOUS
  <2>4. e = [used |-> e.used, made |-> e.made]
    BY <2>1, <2>3 DEF MergeStep
  <2> QED
    BY <1>2, <2>2, <2>3, <2>4
<1> HIDE DEF none
<1>5. \E g : Eqn(g)
  <2>1. PICK step : step = [n \in 1 .. Len(merges) |-> [d \in V |-> MergeStep(fs, d, merges[n])]]
    OBVIOUS
  <2>2. step \in [1 .. Len(merges) -> [V -> V]]
    BY <1>4, <2>1
  <2>3. \E g : IsFold(g, V, Len(merges), none, step)
    BY <1>0, <1>3, <2>2, FoldExists
  <2>4. PICK g \in [0 .. Len(merges) -> V] :
            g[0] = none /\ \A n \in 1 .. Len(merges) : g[n] = step[n][g[n - 1]]
    BY <2>3 DEF IsFold
  <2>5. \A n \in 0 .. Len(merges) : n # 0 => n \in 1 .. Len(merges) /\ n - 1 \in 0 .. Len(merges)
    BY <1>0
  <2>6. \A n \in 0 .. Len(merges) :
           g[n] = IF n = 0 THEN none ELSE MergeStep(fs, g[n - 1], merges[n])
    BY <2>1, <2>4, <2>5
  <2>7. Eqn(g)
    BY <2>4, <2>6
  <2> HIDE DEF Eqn
  <2> QED
    BY <2>7
<1>6. Consolidated(fs, merges) = Without(fs, f[Len(merges)].used) \o f[Len(merges)].made
  BY ZenonT(60) DEF Consolidated, none
<1>7. Eqn(f)
  <2> HIDE DEF Eqn
  <2> QED BY <1>5, Zenon
<1> HIDE DEF f
<1>8. ASSUME NEW n \in 0 .. Len(merges)
      PROVE  f[n] = IF n = 0 THEN none ELSE MergeStep(fs, f[n - 1], merges[n])
  BY <1>7, Zenon
<1> HIDE DEF Eqn
<1>9. f[Len(merges)] \in V
  <2> DEFINE P == {n \in Nat : n <= Len(merges) => f[n] \in V}
  <2>1. 0 \in P
    BY <1>0, <1>3, <1>8
  <2>2. ASSUME NEW n \in Nat, n \in P
        PROVE  n + 1 \in P
    <3>1. SUFFICES ASSUME n + 1 <= Len(merges)
                   PROVE  f[n + 1] \in V
      OBVIOUS
    <3>2. n + 1 \in 1 .. Len(merges) /\ n + 1 \in 0 .. Len(merges) /\ n + 1 # 0
          /\ (n + 1) - 1 = n /\ n <= Len(merges)
      BY <1>0, <3>1
    <3>3. f[n + 1] = MergeStep(fs, f[(n + 1) - 1], merges[n + 1])
      BY <1>8, <3>2, Zenon
    <3> QED
      BY <1>4, <2>2, <3>2, <3>3
  <2>3. Nat \subseteq P
    <3> HIDE DEF P
    <3> QED BY <2>1, <2>2, NatByInduction
  <2> QED
    BY <1>0, <2>3
<1>10. DoneOK(fs, merges, f[Len(merges)])
  BY <1>1, <1>9
<1> QED
  BY <1>6, <1>10

\* A consolidation never leaves more facts than it found, and what it takes away lives
\* on in a fact it made.
LEMMA ConsolidatedKeeps ==
    ASSUME NEW fs \in Seq(AnyFact), Unique(fs), NEW merges \in Seq(Merge)
    PROVE  /\ Consolidated(fs, merges) \in Seq(AnyFact)
           /\ Len(Consolidated(fs, merges)) <= Len(fs)
           /\ \A x \in Members(Consolidated(fs, merges)) :
                 x \in Members(fs) \/ (MadeOf(x, merges) /\ Capped(fs, x))
           /\ \A f \in Members(fs) :
                 \/ f \in Members(Consolidated(fs, merges))
                 \/ /\ f.id \in AllowedSources(fs)
                    /\ \E x \in Members(Consolidated(fs, merges)) :
                          f.id \in x.from /\ MadeOf(x, merges)
<1>1. PICK d : DoneOK(fs, merges, d) /\ Consolidated(fs, merges) = Without(fs, d.used) \o d.made
  BY ConsolidatedUnfolds
<1>2. PICK u, a, b : u = d.used /\ a = Without(fs, u) /\ b = d.made
  OBVIOUS
<1>3. /\ u \subseteq AllowedSources(fs) /\ IsFiniteSet(u)
      /\ b \in Seq(AnyFact) /\ Len(b) <= Cardinality(u)
      /\ \A x \in Members(b) : MadeOf(x, merges) /\ Capped(fs, x)
      /\ \A i \in u : \E x \in Members(b) : i \in x.from
  BY <1>1, <1>2 DEF DoneOK
<1>4. /\ a \in Seq(AnyFact) /\ Len(a) <= Len(fs) /\ Unique(a)
      /\ Members(a) = {f \in Members(fs) : f.id \notin u}
  BY <1>2, WithoutKeeps
<1>5. PICK c : c = a \o b
  OBVIOUS
<1>6. c \in Seq(AnyFact) /\ Len(c) = Len(a) + Len(b)
  BY <1>3, <1>4, <1>5, JoinedAt
<1>7. Members(c) = Members(a) \cup Members(b)
  <2>1. Len(a) \in Nat /\ Len(b) \in Nat
    BY <1>3, <1>4
  <2>2. /\ \A i \in 1 .. Len(a) : c[i] = a[i]
        /\ \A i \in 1 .. Len(b) : c[Len(a) + i] = b[i]
        /\ \A k \in 1 .. Len(c) : k \in 1 .. Len(a) \/ \E i \in 1 .. Len(b) : k = Len(a) + i
    BY <1>3, <1>4, <1>5, JoinedAt
  <2>3. /\ \A i \in 1 .. Len(a) : i \in 1 .. Len(c)
        /\ \A i \in 1 .. Len(b) : Len(a) + i \in 1 .. Len(c)
    BY <1>6, <2>1
  <2>4. \A x \in Members(c) : x \in Members(a) \/ x \in Members(b)
    <3> TAKE x \in Members(c)
    <3>1. PICK k \in 1 .. Len(c) : c[k] = x
      BY DEF Members
    <3>2. CASE k \in 1 .. Len(a)
      BY <2>2, <3>1, <3>2 DEF Members
    <3>3. CASE \E i \in 1 .. Len(b) : k = Len(a) + i
      BY <2>2, <3>1, <3>3 DEF Members
    <3> QED
      BY <2>2, <3>2, <3>3
  <2>5. \A x \in Members(a) : x \in Members(c)
    BY <2>2, <2>3 DEF Members
  <2>6. \A x \in Members(b) : x \in Members(c)
    BY <2>2, <2>3 DEF Members
  <2> QED
    BY <2>4, <2>5, <2>6
<1>8. Len(c) <= Len(fs)
  <2>1. PICK D : D = {f \in Members(fs) : f.id \in u}
    OBVIOUS
  <2>2. /\ IsFiniteSet(Members(fs)) /\ Cardinality(Members(fs)) = Len(fs)
        /\ IsFiniteSet(Members(a)) /\ Cardinality(Members(a)) = Len(a)
    BY <1>4, DistinctCount DEF Unique
  <2>3. IsFiniteSet(D)
    BY <2>1, <2>2, FS_Subset
  <2>4. Cardinality(u) <= Cardinality(D)
    <3>1. PICK h : h = [f \in D |-> f.id]
      OBVIOUS
    <3>2. \A i \in u : \E f \in D : f.id = i
      <4>1. \A i \in u : \E k \in DOMAIN fs : fs[k].id = i
        BY <1>3 DEF AllowedSources, Ids
      <4>2. \A k \in DOMAIN fs : fs[k] \in Members(fs)
        BY SeqElements
      <4> QED
        BY <2>1, <4>1, <4>2
    <3>3. h \in Surjection(D, u)
      BY <2>1, <3>1, <3>2 DEF Surjection
    <3> QED
      BY <2>3, <3>3, FS_Surjection
  <2>5. Members(fs) = Members(a) \cup D /\ Members(a) \cap D = {}
    BY <1>4, <2>1
  <2>6. Cardinality(Members(fs)) = Cardinality(Members(a)) + Cardinality(D)
    <3>1. PICK A : A = Members(a)
      OBVIOUS
    <3>2. Cardinality(A \cup D) = Cardinality(A) + Cardinality(D) - Cardinality(A \cap D)
      BY <2>2, <2>3, <3>1, FS_Union
    <3>3. Cardinality(A \cap D) = 0
      BY <2>5, <3>1, FS_EmptySet
    <3>4. Cardinality(A) \in Nat /\ Cardinality(D) \in Nat
      BY <2>2, <2>3, <3>1, FS_CardinalityType
    <3>5. Cardinality(A \cup D) = Cardinality(A) + Cardinality(D)
      BY <3>2, <3>3, <3>4
    <3> QED
      BY <2>5, <3>1, <3>5
  <2>7. Len(a) \in Nat /\ Len(b) \in Nat /\ Len(fs) \in Nat /\ Cardinality(u) \in Nat
        /\ Cardinality(D) \in Nat
    BY <1>3, <1>4, <2>3, FS_CardinalityType
  <2>8. Len(b) <= Cardinality(D) /\ Len(fs) = Len(a) + Cardinality(D)
    BY <1>3, <2>2, <2>4, <2>6, <2>7
  <2> QED
    BY <1>6, <2>7, <2>8
<1>9. \A x \in Members(c) : x \in Members(fs) \/ (MadeOf(x, merges) /\ Capped(fs, x))
  BY <1>3, <1>4, <1>7
<1>10. \A f \in Members(fs) :
          \/ f \in Members(c)
          \/ f.id \in AllowedSources(fs)
             /\ \E x \in Members(c) : f.id \in x.from /\ MadeOf(x, merges)
  BY <1>3, <1>4, <1>7
<1> QED
  BY <1>1, <1>2, <1>5, <1>6, <1>8, <1>9, <1>10

-----------------------------------------------------------------------------
(* What an update does to the facts of a memory *)

\* Facts as they are before an update: numbered, and none made by a merge.
Known(fs) ==
    /\ fs \in Seq(AnyFact) /\ Len(fs) <= MaxKnown
    /\ \A i \in 1 .. Len(fs) : fs[i].id = i /\ fs[i].from = {}

\* Such facts are distinct.
LEMMA KnownUnique ==
    ASSUME NEW fs, Known(fs)
    PROVE  /\ fs \in Seq(AnyFact) /\ Unique(fs) /\ Members(fs) \subseteq AnyFact
           /\ \A f \in Members(fs) : /\ f.id \in 1 .. Len(fs) /\ fs[f.id] = f
                                     /\ f.id <= MaxKnown /\ f.from = {}
<1>1. fs \in Seq(AnyFact) /\ Len(fs) <= MaxKnown /\ Len(fs) \in Nat /\ MaxKnown \in Nat
  BY FactsBounds DEF Known
<1>2. \A i \in 1 .. Len(fs) : fs[i].id = i /\ fs[i].from = {} /\ i <= MaxKnown
  BY <1>1 DEF Known
<1>3. \A f \in Members(fs) : f.id \in 1 .. Len(fs) /\ fs[f.id] = f
                               /\ f.id <= MaxKnown /\ f.from = {}
  BY <1>2 DEF Members
<1>4. Distinct(fs)
  BY <1>2 DEF Distinct
<1>5. \A f, g \in Members(fs) : f.id = g.id => f = g
  BY <1>3
<1> QED
  BY <1>1, <1>3, <1>4, <1>5, SeqElements DEF Unique

\* Facts before the update that are as confident as f, and new ones.
AsConfident(fs, u, f) ==
    {i \in DOMAIN fs : fs[i].id # f.id /\ fs[i].confidence >= f.confidence}
    \cup {MaxKnown + i : i \in {i \in DOMAIN u.new : u.new[i].confidence >= f.confidence}}

\* The answer is what _normalize_memory_update_data leaves of it.
LEMMA AnswerType ==
    ASSUME NEW u \in Answer
    PROVE  u.new \in Seq(New) /\ Len(u.new) <= 1 /\ u.merge \in Seq(Merge)
<1>1. /\ u.new \in {<<>>} \cup {<<n>> : n \in New}
      /\ u.merge \in {<<>>} \cup {<<m>> : m \in Merge}
                       \cup {<<m, m>> : m \in {m \in Merge : ~m.upload}}
  BY Zenon DEF Answer
<1>2. u.new \in Seq(New) /\ Len(u.new) <= 1
  <2>1. CASE u.new = <<>>
    BY <2>1
  <2>2. CASE u.new # <<>>
    <3>1. PICK n \in New : u.new = <<n>>
      BY <1>1, <2>2
    <3> QED
      BY <3>1
  <2> QED
    BY <2>1, <2>2
<1>3. u.merge \in Seq(Merge)
  <2>1. CASE u.merge = <<>>
    BY <2>1
  <2>2. CASE \E m \in Merge : u.merge = <<m>> \/ u.merge = <<m, m>>
    <3>1. PICK m \in Merge : u.merge = <<m>> \/ u.merge = <<m, m>>
      BY <2>2
    <3>2. <<m>> \in Seq(Merge) /\ <<m, m>> \in Seq(Merge)
      OBVIOUS
    <3> QED
      BY <3>1, <3>2, Zenon
  <2> QED
    BY <1>1, <2>1, <2>2
<1> QED
  BY <1>2, <1>3

\* The facts of an update at the moments between its passes: without those it found
\* contradicted, without the stale ones, with the new ones, within the limit, merged.
Stages(fs, u, removed, fresh, more, kept, merged) ==
    /\ removed \in Seq(AnyFact) /\ Unique(removed)
    /\ Members(removed) = {f \in Members(fs) : f.id \notin u.remove}
    /\ fresh \in Seq(AnyFact) /\ Len(fresh) <= MaxKnown
    /\ Members(fresh) = {f \in Members(removed) : f.id \notin StaleRemovals(removed, u.stale)}
    /\ more \in Seq(AnyFact) /\ Unique(more) /\ Len(more) <= MaxKnown + 1
    /\ Members(fresh) \subseteq Members(more)
    /\ \A f \in Members(more) :
          f \in Members(fresh) \/ (Len(u.new) = 1 /\ f = NewFact(u.new[1]))
    /\ kept \in Seq(AnyFact) /\ Unique(kept) /\ kept = Trimmed(more)
    /\ merged \in Seq(AnyFact) /\ merged = Consolidated(kept, u.merge)
    /\ Applied(fs, u) = merged

\* The passes of _apply_updates, one after the other.
LEMMA UpdateStages ==
    ASSUME NEW fs, Known(fs), NEW u \in Answer
    PROVE  \E removed, fresh, more, kept, merged : Stages(fs, u, removed, fresh, more, kept, merged)
<1>0. /\ fs \in Seq(AnyFact) /\ Unique(fs) /\ Len(fs) <= MaxKnown /\ Len(fs) \in Nat
      /\ \A f \in Members(fs) : f.id <= MaxKnown
  BY KnownUnique DEF Known
<1>1. u.new \in Seq(New) /\ Len(u.new) <= 1 /\ u.merge \in Seq(Merge)
  BY AnswerType
<1>2. PICK removed : removed = Without(fs, u.remove)
  OBVIOUS
<1>3. /\ removed \in Seq(AnyFact) /\ Unique(removed) /\ Len(removed) <= Len(fs)
      /\ Members(removed) = {f \in Members(fs) : f.id \notin u.remove}
  BY <1>0, <1>2, WithoutKeeps
<1>4. PICK gone : gone = StaleRemovals(removed, u.stale)
  OBVIOUS
<1>5. PICK fresh : fresh = Without(removed, gone)
  OBVIOUS
<1>6. /\ fresh \in Seq(AnyFact) /\ Unique(fresh) /\ Len(fresh) <= Len(removed)
      /\ Members(fresh) = {f \in Members(removed) : f.id \notin gone}
  BY <1>3, <1>5, WithoutKeeps
<1>7. \A f \in Members(fresh) : f.id <= MaxKnown
  BY <1>0, <1>3, <1>6
<1>8. PICK more : more = Added(fresh, u.new)
  OBVIOUS
<1>9. /\ more \in Seq(AnyFact) /\ Unique(more) /\ Len(more) <= Len(fresh) + 1
      /\ Members(fresh) \subseteq Members(more)
      /\ \A f \in Members(more) :
            f \in Members(fresh) \/ (Len(u.new) = 1 /\ f = NewFact(u.new[1]))
  BY <1>1, <1>6, <1>7, <1>8, AddedKeeps
<1>10. Len(fresh) <= MaxKnown /\ Len(more) <= MaxKnown + 1
  <2>1. Len(fresh) \in Nat /\ Len(removed) \in Nat /\ Len(more) \in Nat /\ MaxKnown \in Nat
    BY <1>3, <1>6, <1>9, FactsBounds
  <2> QED
    BY <1>0, <1>3, <1>6, <1>9, <2>1
<1>11. PICK kept : kept = Trimmed(more)
  OBVIOUS
<1>12. kept \in Seq(AnyFact) /\ Unique(kept)
  BY <1>9, <1>11, TrimmedKeeps
<1>13. PICK merged : merged = Consolidated(kept, u.merge)
  OBVIOUS
<1>14. merged \in Seq(AnyFact)
  BY <1>1, <1>12, <1>13, ConsolidatedKeeps
<1>15. Applied(fs, u) = merged
  BY <1>2, <1>4, <1>5, <1>8, <1>11, <1>13, Zenon DEF Applied
<1> QED
  BY <1>3, <1>4, <1>6, <1>9, <1>10, <1>11, <1>12, <1>13, <1>14, <1>15, Zenon DEF Stages

\* Between them: what is there, and how much.
LEMMA UpdateLimits ==
    ASSUME Known(facts), update \in Answer, NEW after, after = Scrubbed(Applied(facts, update))
    PROVE  /\ after \in Seq(AnyFact) /\ Len(after) <= MaxFacts /\ Len(after) <= MaxKnown + 1
           /\ \A k \in DOMAIN after : after[k].from # {} =>
                 \E i \in DOMAIN facts : /\ facts[i].id \in after[k].from
                                         /\ facts[i].confidence >= after[k].confidence
<1>a. PICK removed, fresh, more, kept, merged : Stages(facts, update, removed, fresh, more, kept, merged)
  BY UpdateStages
<1>0. /\ removed \in Seq(AnyFact) /\ Unique(removed)
      /\ Members(removed) = {f \in Members(facts) : f.id \notin update.remove}
      /\ fresh \in Seq(AnyFact) /\ Len(fresh) <= MaxKnown
      /\ Members(fresh) = {f \in Members(removed) : f.id \notin StaleRemovals(removed, update.stale)}
      /\ more \in Seq(AnyFact) /\ Unique(more) /\ Len(more) <= MaxKnown + 1
      /\ Members(fresh) \subseteq Members(more)
      /\ \A f \in Members(more) :
            f \in Members(fresh) \/ (Len(update.new) = 1 /\ f = NewFact(update.new[1]))
      /\ kept \in Seq(AnyFact) /\ Unique(kept) /\ kept = Trimmed(more)
      /\ merged \in Seq(AnyFact) /\ merged = Consolidated(kept, update.merge)
      /\ Applied(facts, update) = merged
  BY <1>a DEF Stages
<1>1. update.new \in Seq(New) /\ Len(update.new) <= 1 /\ update.merge \in Seq(Merge)
  BY AnswerType
<1>2. /\ Len(kept) <= Len(more) /\ Len(kept) <= MaxFacts /\ Members(kept) \subseteq Members(more)
  BY <1>0, TrimmedKeeps
<1>3. /\ Len(merged) <= Len(kept)
      /\ \A x \in Members(merged) :
            x \in Members(kept) \/ (MadeOf(x, update.merge) /\ Capped(kept, x))
  BY <1>0, <1>1, ConsolidatedKeeps
<1>4. /\ after \in Seq(AnyFact) /\ Len(after) <= Len(merged)
      /\ Members(after) = {f \in Members(merged) : ~f.upload}
  BY <1>0, ScrubbedKeeps
<1>5. Len(after) <= MaxFacts /\ Len(after) <= MaxKnown + 1
  <2>1. /\ Len(after) \in Nat /\ Len(merged) \in Nat /\ Len(kept) \in Nat /\ Len(more) \in Nat
        /\ MaxFacts \in Nat /\ MaxKnown \in Nat
    BY <1>0, <1>4, FactsBounds
  <2> QED
    BY <1>0, <1>2, <1>3, <1>4, <2>1
<1>6. \A f \in Members(facts) : /\ f.id \in DOMAIN facts /\ facts[f.id] = f
                                /\ f.from = {}
  BY KnownUnique
<1>7. \A f \in Members(kept) : f \in Members(facts) \/ (f.id = MaxKnown + 2 /\ f.from = {})
  <2>1. Len(update.new) = 1 => update.new[1] \in New
    BY <1>1
  <2>2. Len(update.new) = 1 => /\ NewFact(update.new[1]).id = MaxKnown + 2
                               /\ NewFact(update.new[1]).from = {}
    BY <2>1, NewFactType
  <2> QED
    BY <1>0, <1>2, <2>2
<1>8. ASSUME NEW x \in Members(after), x.from # {}
      PROVE  \E i \in DOMAIN facts : facts[i].id \in x.from /\ facts[i].confidence >= x.confidence
  <2>1. x \in Members(merged)
    BY <1>4
  <2>2. x \notin Members(kept)
    BY <1>6, <1>7, <1>8
  <2>3. MadeOf(x, update.merge) /\ Capped(kept, x)
    BY <1>3, <2>1, <2>2
  <2>4. PICK f \in Members(kept) : f.id \in x.from /\ f.confidence >= x.confidence
    BY <2>3 DEF Capped
  <2>5. PICK i \in 1 .. Len(update.merge) : x.from = update.merge[i].sources
    BY <2>3 DEF MadeOf
  <2>6. update.merge[i] \in Merge
    BY <1>1
  <2>7. update.merge[i].sources \in SUBSET (1 .. MaxKnown + 1)
    BY <2>6 DEF Merge
  <2>8. f.id \in 1 .. MaxKnown + 1
    BY <2>4, <2>5, <2>7
  <2>9. f.id # MaxKnown + 2
    BY <2>8, FactsBounds
  <2>10. f \in Members(facts)
    BY <1>7, <2>9
  <2> QED
    BY <1>6, <2>4, <2>10
<1>9. \A k \in DOMAIN after : after[k] \in Members(after)
  BY <1>4, SeqElements
<1> QED
  BY <1>4, <1>5, <1>8, <1>9

\* Why a fact is gone.
LEMMA UpdateExplained ==
    ASSUME Known(facts), update \in Answer, NEW after, after = Scrubbed(Applied(facts, update)),
           NEW f \in Members(facts)
    PROVE  f \in Members(after) \/ Explained(f, update, after)
<1>a. PICK removed, fresh, more, kept, merged : Stages(facts, update, removed, fresh, more, kept, merged)
  BY UpdateStages
<1>0. /\ removed \in Seq(AnyFact) /\ Unique(removed)
      /\ Members(removed) = {g \in Members(facts) : g.id \notin update.remove}
      /\ fresh \in Seq(AnyFact) /\ Len(fresh) <= MaxKnown
      /\ Members(fresh) = {g \in Members(removed) : g.id \notin StaleRemovals(removed, update.stale)}
      /\ more \in Seq(AnyFact) /\ Unique(more) /\ Len(more) <= MaxKnown + 1
      /\ Members(fresh) \subseteq Members(more)
      /\ \A g \in Members(more) :
            g \in Members(fresh) \/ (Len(update.new) = 1 /\ g = NewFact(update.new[1]))
      /\ kept \in Seq(AnyFact) /\ Unique(kept) /\ kept = Trimmed(more)
      /\ merged \in Seq(AnyFact) /\ merged = Consolidated(kept, update.merge)
      /\ Applied(facts, update) = merged
  BY <1>a DEF Stages
<1>1. update.new \in Seq(New) /\ Len(update.new) <= 1 /\ update.merge \in Seq(Merge)
  BY AnswerType
<1>2. /\ facts \in Seq(AnyFact) /\ Unique(facts) /\ Members(facts) \subseteq AnyFact
      /\ Len(facts) \in Nat /\ DOMAIN facts = 1 .. Len(facts) /\ Len(facts) <= MaxKnown
      /\ \A g \in Members(facts) : /\ g.id \in 1 .. Len(facts) /\ facts[g.id] = g
                                   /\ g.id <= MaxKnown
  BY KnownUnique DEF Known
<1>3. CASE f.id \in update.remove
  BY <1>3 DEF Explained
<1>4. CASE f.id \in StaleRemovals(removed, update.stale) /\ f.id \notin update.remove
  <2>1. f.id \in update.stale /\ f.id \in StaleCandidates(removed)
    BY <1>4 DEF StaleRemovals
  <2>2. PICK k \in DOMAIN removed :
           removed[k].id = f.id /\ removed[k].aged /\ removed[k].category # Protected
    BY <2>1 DEF StaleCandidates
  <2>3. removed[k] \in Members(removed)
    BY <1>0, SeqElements
  <2>4. removed[k] = f
    BY <1>0, <1>4, <2>2, <2>3 DEF Unique
  <2> QED
    BY <2>1, <2>2, <2>4 DEF Explained
<1>5. CASE f \in Members(more) /\ f \notin Members(kept)
  <2>1. PICK G : G = {g \in Members(more) : g.id # f.id /\ g.confidence >= f.confidence}
    OBVIOUS
  <2>2. Cardinality(G) >= MaxFacts
    BY <1>0, <1>5, <2>1, TrimmedKeeps
  <2>3. PICK C : C = AsConfident(facts, update, f)
    OBVIOUS
  <2>4. Len(update.new) = 1 => /\ update.new[1] \in New
                               /\ NewFact(update.new[1]).id = MaxKnown + 2
                               /\ NewFact(update.new[1]).confidence = update.new[1].confidence
    BY <1>1, NewFactType
  <2>5. \A g \in G : g \in Members(facts) \/ (Len(update.new) = 1 /\ g = NewFact(update.new[1]))
    BY <1>0, <2>1
  <2> DEFINE to(g) == IF g.id = MaxKnown + 2 THEN MaxKnown + 1 ELSE g.id
  <2>6. \A g \in G : to(g) \in C
    <3> TAKE g \in G
    <3>1. CASE g \in Members(facts)
      <4>1. g.id \in Nat /\ g.id <= MaxKnown /\ g.id \in DOMAIN facts /\ facts[g.id] = g
        BY <1>2, <3>1
      <4>2. to(g) = g.id
        BY <4>1, FactsBounds
      <4>3. g.id # f.id /\ g.confidence >= f.confidence
        BY <2>1
      <4> HIDE DEF to
      <4> QED
        BY <2>3, <4>1, <4>2, <4>3 DEF AsConfident
    <3>2. CASE Len(update.new) = 1 /\ g = NewFact(update.new[1])
      <4>1. to(g) = MaxKnown + 1
        BY <2>4, <3>2
      <4>2. 1 \in DOMAIN update.new /\ update.new[1].confidence >= f.confidence
        BY <1>1, <2>1, <2>4, <3>2
      <4> HIDE DEF to
      <4> QED
        BY <2>3, <4>1, <4>2 DEF AsConfident
    <3> QED
      BY <2>5, <3>1, <3>2
  <2>7. \A g, h \in G : to(g) = to(h) => g = h
    <3>1. \A g \in G : g.id \in Nat /\ (g.id <= MaxKnown \/ g.id = MaxKnown + 2)
      BY <1>2, <2>4, <2>5, FactsBounds
    <3>2. \A g, h \in G : to(g) = to(h) => g.id = h.id
      BY <3>1, FactsBounds
    <3>3. \A g, h \in G : g.id = h.id => g = h
      BY <1>0, <2>1 DEF Unique
    <3> QED
      BY <3>2, <3>3
  <2> HIDE DEF to
  <2>8. IsFiniteSet(C)
    <3>1. C \subseteq 1 .. MaxKnown + 1
      <4>1. \A i \in DOMAIN facts : i \in 1 .. MaxKnown + 1
        BY <1>2, FactsBounds
      <4>2. \A i \in DOMAIN update.new : i = 1
        BY <1>1
      <4>3. MaxKnown + 1 \in 1 .. MaxKnown + 1
        BY FactsBounds
      <4> QED
        BY <2>3, <4>1, <4>2, <4>3 DEF AsConfident
    <3>2. IsFiniteSet(1 .. MaxKnown + 1)
      BY FactsBounds, FS_Interval
    <3> QED
      BY <3>1, <3>2, FS_Subset
  <2>9. PICK h : h = [g \in G |-> to(g)]
    OBVIOUS
  <2>10. h \in Injection(G, C)
    <3>1. h \in [G -> C]
      BY <2>6, <2>9
    <3> QED
      BY <2>7, <2>9, <3>1 DEF Injection, IsInjective
  <2>11. IsFiniteSet(G) /\ Cardinality(G) <= Cardinality(C)
    BY <2>8, <2>10, FS_Injection
  <2>12. Cardinality(C) >= MaxFacts
    <3>1. Cardinality(C) \in Nat /\ Cardinality(G) \in Nat /\ MaxFacts \in Nat
      BY <2>8, <2>11, FactsBounds, FS_CardinalityType
    <3> QED
      BY <2>2, <2>11, <3>1
  <2> QED
    BY <2>3, <2>12, Zenon DEF Explained, AsConfident
<1>6. CASE f \in Members(kept)
  <2>1. \/ f \in Members(merged)
        \/ /\ f.id \in AllowedSources(kept)
           /\ \E x \in Members(merged) : f.id \in x.from /\ MadeOf(x, update.merge)
    BY <1>0, <1>1, <1>6, ConsolidatedKeeps
  <2>2. /\ after \in Seq(AnyFact)
        /\ Members(after) = {g \in Members(merged) : ~g.upload}
    BY <1>0, ScrubbedKeeps
  <2>3. CASE f \in Members(merged)
    <3>1. CASE f.upload
      BY <3>1 DEF Explained
    <3>2. CASE ~f.upload
      BY <2>2, <2>3, <3>2
    <3> QED
      BY <3>1, <3>2
  <2>4. CASE /\ f.id \in AllowedSources(kept)
             /\ \E x \in Members(merged) : f.id \in x.from /\ MadeOf(x, update.merge)
    <3>1. PICK k \in DOMAIN kept : kept[k].id = f.id /\ kept[k].category # Protected
      BY <2>4 DEF AllowedSources
    <3>2. kept[k] \in Members(kept)
      BY <1>0, SeqElements
    <3>3. f.category # Protected
      BY <1>0, <1>6, <3>1, <3>2 DEF Unique
    <3>4. PICK x \in Members(merged) : f.id \in x.from /\ MadeOf(x, update.merge)
      BY <2>4
    <3>5. PICK i \in 1 .. Len(update.merge) :
             x.from = update.merge[i].sources /\ x.upload = update.merge[i].upload
      BY <3>4 DEF MadeOf
    <3>6. CASE x.upload
      <4>1. i \in DOMAIN update.merge /\ f.id \in update.merge[i].sources /\ update.merge[i].upload
        BY <1>1, <3>4, <3>5, <3>6
      <4> QED
        BY <3>3, <4>1 DEF Explained
    <3>7. CASE ~x.upload
      <4>1. x \in Members(after)
        BY <2>2, <3>7
      <4>2. PICK k2 \in 1 .. Len(after) : after[k2] = x
        BY <4>1 DEF Members
      <4>3. k2 \in DOMAIN after /\ f.id \in after[k2].from
        BY <2>2, <3>4, <4>2
      <4> QED
        BY <3>3, <4>3 DEF Explained
    <3> QED
      BY <3>6, <3>7
  <2> QED
    BY <2>1, <2>3, <2>4
<1> QED
  BY <1>0, <1>3, <1>4, <1>5, <1>6

-----------------------------------------------------------------------------
(* The memory before and after an update *)

\* Until the update is applied the memory is as it was found; afterwards it is short.
FactsInv ==
    /\ update \in Answer /\ applied \in BOOLEAN
    /\ ~applied => Known(facts)
    /\ facts \in Seq(AnyFact) /\ Len(facts) <= MaxKnown + 1

\* A memory is found with the facts of earlier updates.
LEMMA FactsInitInv == FactsInit => FactsInv
<1> SUFFICES ASSUME FactsInit PROVE FactsInv
  OBVIOUS
<1>1. PICK n \in 0 .. MaxKnown :
         facts \in {f \in [1 .. n -> Fact] : \A i \in 1 .. n : f[i].id = i /\ f[i].text = i}
  BY DEF FactsInit
<1>2. n \in Nat /\ n <= MaxKnown /\ MaxKnown \in Nat
  BY FactsBounds
<1>3. Fact \subseteq AnyFact /\ \A f \in Fact : f.from = {}
  <2>1. 1 .. MaxKnown \subseteq Nat
    BY <1>2
  <2>2. \A f \in Fact : f.from = {}
    BY DEF Fact
  <2> QED
    BY <2>1, <2>2 DEF Fact, AnyFact
<1>4. facts \in [1 .. n -> AnyFact] /\ \A i \in 1 .. n : facts[i] \in Fact /\ facts[i].id = i
  BY <1>1, <1>3
<1>5. facts \in Seq(AnyFact) /\ Len(facts) = n
  BY <1>2, <1>4
<1>6. Known(facts)
  BY <1>2, <1>3, <1>4, <1>5 DEF Known
<1>7. update \in Answer /\ applied = FALSE
  BY DEF FactsInit
<1>8. Len(facts) <= MaxKnown + 1
  BY <1>2, <1>5
<1> QED
  BY <1>5, <1>6, <1>7, <1>8, Zenon DEF FactsInv

\* The update leaves it short.
LEMMA FactsStepInv == FactsInv /\ [FactsNext]_factVars => FactsInv'
<1> SUFFICES ASSUME FactsInv, [FactsNext]_factVars PROVE FactsInv'
  OBVIOUS
<1>1. CASE UNCHANGED factVars
  BY <1>1 DEF FactsInv, factVars, Known
<1>2. CASE FactsNext
  <2>1. /\ ~applied /\ applied' = TRUE /\ update' = update
        /\ facts' = Scrubbed(Applied(facts, update))
    BY <1>2 DEF FactsNext, FinalizeUpdate
  <2>2. Known(facts) /\ update \in Answer
    BY <2>1 DEF FactsInv
  <2>3. facts' \in Seq(AnyFact) /\ Len(facts') <= MaxKnown + 1
    BY <2>1, <2>2, UpdateLimits
  <2> QED
    BY <2>1, <2>2, <2>3 DEF FactsInv
<1> QED
  BY <1>1, <1>2

\* _apply_updates leaves a list of well-formed facts, at most one longer than the most a
\* memory is found with, for every answer of the model.
THEOREM FactsTypeCorrect == FactsSpec => []FactsTypeOK
<1>1. FactsInv => FactsTypeOK
  BY DEF FactsInv, FactsTypeOK
<1> QED BY FactsInitInv, FactsStepInv, <1>1, PTL DEF FactsSpec

\* Whatever the model answers, and whatever facts it meets, _finalize_update takes no
\* fact away without a reason - a contradiction, age, the limit, a mention of an upload,
\* a merge it lives on in - and leaves no more facts than the limit and no merged fact
\* more confident than the best of its sources.
THEOREM FactsUpdateSound == FactsSpec => UpdateSound
<1>1. FactsInv /\ [FactsNext]_factVars =>
         [\A i \in DOMAIN facts :
            \/ facts[i] \in {facts'[k] : k \in DOMAIN facts'}
            \/ Explained(facts[i], update, facts')]_factVars
  <2> SUFFICES ASSUME FactsInv, FactsNext, NEW i \in DOMAIN facts
               PROVE  \/ facts[i] \in {facts'[k] : k \in DOMAIN facts'}
                      \/ Explained(facts[i], update, facts')
    BY DEF factVars
  <2>1. facts' = Scrubbed(Applied(facts, update)) /\ Known(facts) /\ update \in Answer
    BY DEF FactsNext, FinalizeUpdate, FactsInv
  <2>2. PICK after : after = facts'
    OBVIOUS
  <2>3. facts[i] \in Members(facts)
    BY SeqElements DEF FactsInv
  <2>4. facts[i] \in Members(after) \/ Explained(facts[i], update, after)
    BY <2>1, <2>2, <2>3, UpdateExplained
  <2>5. after \in Seq(AnyFact)
    BY <2>1, <2>2, UpdateLimits
  <2>6. facts[i] \in Members(after) => facts[i] \in {after[k] : k \in DOMAIN after}
    BY <2>5 DEF Members
  <2> QED
    BY <2>2, <2>4, <2>6
<1>2. FactsInv /\ [FactsNext]_factVars =>
         [/\ Len(facts') <= MaxFacts
          /\ \A k \in DOMAIN facts' : facts'[k].from # {} =>
                \E i \in DOMAIN facts : /\ facts[i].id \in facts'[k].from
                                        /\ facts[i].confidence >= facts'[k].confidence]_factVars
  <2> SUFFICES ASSUME FactsInv, FactsNext
               PROVE  /\ Len(facts') <= MaxFacts
                      /\ \A k \in DOMAIN facts' : facts'[k].from # {} =>
                            \E i \in DOMAIN facts : /\ facts[i].id \in facts'[k].from
                                                    /\ facts[i].confidence >= facts'[k].confidence
    BY DEF factVars
  <2>1. facts' = Scrubbed(Applied(facts, update)) /\ Known(facts) /\ update \in Answer
    BY DEF FactsNext, FinalizeUpdate, FactsInv
  <2> QED
    BY <2>1, UpdateLimits
<1> QED
  BY FactsInitInv, FactsStepInv, <1>1, <1>2, PTL
     DEF FactsSpec, UpdateSound, NothingSilentlyLost, LimitsHold

=============================================================================
