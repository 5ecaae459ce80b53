----------------------------- MODULE MemoryFile -----------------------------
(***************************************************************************)
(* One user's memory file and the process's cache of it.  FileMemoryStorage *)
(* caches what it read or wrote with the file's modification time; its lock *)
(* guards the cache alone, so load, save and the read-modify-write built    *)
(* from them (a fact created or deleted over the API, the background        *)
(* updater, clear and reload) interleave between file and cache.            *)
(***************************************************************************)
EXTENDS Naturals, FiniteSets

CONSTANTS Writers,   \* requests and the updater, each on a thread of its own
          Facts,     \* facts they add or delete
          MaxSaves   \* bound: saves

ASSUME MemoryFileBounds == IsFiniteSet(Writers) /\ MaxSaves \in Nat

VARIABLES
    file,    \* the file: its facts and its modification time
    cached,  \* _memory_cache: facts and time, or nothing
    op,      \* what each writer is doing
    held,    \* every content the file has had (history)
    crossed  \* the times of the files that came while another save or reload was
             \* between its own write or read and its stat (history)

fileVars == <<file, cached, op, held, crossed>>

\* Modification times are the number of the save; 0: the file does not exist.
NoCache == [facts |-> {}, mtime |-> MaxSaves + 1]
Idle == [at |-> "idle", mtime |-> 0, facts |-> {}]

FileTypeOK ==
    /\ file \in [facts : SUBSET Facts, mtime : 0 .. MaxSaves]
    /\ cached \in [facts : SUBSET Facts, mtime : 0 .. MaxSaves + 1]
    /\ op \in [Writers -> [at : {"idle", "look", "read", "cache", "have", "saved",
                                 "stamp"},
                           mtime : 0 .. MaxSaves, facts : SUBSET Facts]]
    /\ held \subseteq SUBSET Facts
    /\ crossed \subseteq 0 .. MaxSaves

FileInit ==
    /\ file = [facts |-> {}, mtime |-> 0]
    /\ cached = NoCache
    /\ op = [w \in Writers |-> Idle]
    /\ held = {{}}
    /\ crossed = {}

----------------------------------------------------------------------------
\* load: the file's time is read first, without the lock.
Load(w) ==
    /\ op[w].at = "idle"
    /\ op' = [op EXCEPT ![w] = [at |-> "look", mtime |-> file.mtime, facts |-> {}]]
    /\ UNCHANGED <<file, cached, held, crossed>>

\* load, under the lock: a cache of that time is what the caller gets.
LookUp(w) ==
    /\ op[w].at = "look"
    /\ op' = [op EXCEPT ![w] =
                IF cached.mtime = op[w].mtime
                THEN [@ EXCEPT !.at = "have", !.facts = cached.facts]
                ELSE [@ EXCEPT !.at = "read"]]
    /\ UNCHANGED <<file, cached, held, crossed>>

\* _load_memory_from_file, on a miss.
ReadFile(w) ==
    /\ op[w].at = "read"
    /\ op' = [op EXCEPT ![w] = [@ EXCEPT !.at = "cache", !.facts = file.facts]]
    /\ UNCHANGED <<file, cached, held, crossed>>

\* A bug: the time is read again, after the file.
FillCacheRestats(w) ==
    /\ op[w].at = "cache"
    /\ cached' = [facts |-> op[w].facts, mtime |-> file.mtime]
    /\ op' = [op EXCEPT ![w].at = "have"]
    /\ UNCHANGED <<file, held, crossed>>

\* What was read is cached under the time that was read.
FillCache(w) ==
    /\ op[w].at = "cache"
    /\ cached' = [facts |-> op[w].facts, mtime |-> op[w].mtime]
    /\ op' = [op EXCEPT ![w].at = "have"]
    /\ UNCHANGED <<file, held, crossed>>

\* get_memory: the caller only wanted to read.
Returned(w) ==
    /\ op[w].at = "have"
    /\ op' = [op EXCEPT ![w] = Idle]
    /\ UNCHANGED <<file, cached, held, crossed>>

\* create_memory_fact, delete_memory_fact, clear_memory_data and the updater's
\* _apply_updates, on what load returned.
Edited(facts) ==
    {facts \cup {f} : f \in Facts \ facts} \cup {facts \ {f} : f \in facts} \cup {{}}

\* save raises OSError before the rename: the copy it edited is dropped.
SaveFails(w) ==
    /\ op[w].at = "have"
    /\ op' = [op EXCEPT ![w] = Idle]
    /\ UNCHANGED <<file, cached, held, crossed>>

\* save: a temporary file replaces the old one.
Replace(w) ==
    /\ op[w].at = "have"
    /\ file.mtime < MaxSaves
    /\ \E facts \in Edited(op[w].facts) :
          /\ file' = [facts |-> facts, mtime |-> file.mtime + 1]
          /\ op' = [op EXCEPT ![w] = [@ EXCEPT !.at = "saved", !.facts = facts]]
          /\ held' = held \cup {facts}
    /\ crossed' = crossed \cup {m \in {file.mtime + 1} :
                                  \E x \in Writers \ {w} : op[x].at = "saved"}
    /\ UNCHANGED cached

\* save, reload: the time of whatever file is there now.
Stamp(w) ==
    /\ op[w].at = "saved"
    /\ op' = [op EXCEPT ![w] = [@ EXCEPT !.at = "stamp", !.mtime = file.mtime]]
    /\ UNCHANGED <<file, cached, held, crossed>>

\* reload: the file first and its time after, as in save.
Reload(w) ==
    /\ op[w].at = "idle"
    /\ op' = [op EXCEPT ![w] = [@ EXCEPT !.at = "saved", !.facts = file.facts]]
    /\ UNCHANGED <<file, cached, held, crossed>>

\* save, reload, under the lock: what was written or read is cached under it.
CacheSaved(w) ==
    /\ op[w].at = "stamp"
    /\ cached' = [facts |-> op[w].facts, mtime |-> op[w].mtime]
    /\ op' = [op EXCEPT ![w] = Idle]
    /\ UNCHANGED <<file, held, crossed>>

FileNext ==
    \E w \in Writers :
        \/ Load(w) \/ LookUp(w) \/ ReadFile(w) \/ FillCache(w) \/ Returned(w)
        \/ Reload(w) \/ SaveFails(w) \/ Replace(w) \/ Stamp(w) \/ CacheSaved(w)

FileSpec == FileInit /\ [][FileNext]_fileVars

----------------------------------------------------------------------------
(* Properties                                                              *)

\* The agent and the API never work from memory that was not on disk: the
\* cache holds what the file has held, also after a save that failed half-way
\* ("a subsequent save() failure cannot corrupt the still-cached original").
CacheWasOnDisk == cached.mtime <= MaxSaves => cached.facts \in held

\* A hit is fresh: a cache entry of the file's time holds the file's facts, so that load
\* misses no save.  The exception is a file that replaced another's before that one's
\* save, or a reload, had asked for its time: old facts are then cached under the new
\* time, and served until the next save.
HitIsFresh ==
    cached.mtime = file.mtime => cached.facts = file.facts \/ file.mtime \in crossed

============================================================================
