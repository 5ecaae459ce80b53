----------------------------- MODULE MemoryFacts -----------------------------
(***************************************************************************)
(* What one background update does to a user's facts: _apply_updates, with *)
(* the normalisation before it and the scrubbing of upload mentions after  *)
(* it.  The update comes from a model and may say anything: name facts it  *)
(* was never shown, merge a fact twice, raise a confidence.  The facts it  *)
(* meets may mention an upload: those made or edited by hand, and imported *)
(* ones, are not scrubbed when they are saved.                             *)
(***************************************************************************)
EXTENDS Naturals, Sequences, FiniteSets, Filters

CONSTANTS
    MaxFacts,        \* max_facts
    Threshold,       \* fact_confidence_threshold
    MaxStale,        \* staleness_max_removals_per_cycle
    MinGroup,        \* consolidation_min_facts
    MaxGroups,       \* consolidation_max_groups_per_cycle
    MaxSources,      \* consolidation_max_sources
    Levels,          \* confidences, as whole numbers
    MaxKnown         \* bound: facts before the update

ASSUME MemoryFactsBounds ==
    /\ {MaxFacts, Threshold, MaxStale, MinGroup, MaxGroups, MaxSources, MaxKnown}
          \subseteq Nat
    /\ Levels \subseteq Nat

VARIABLES facts,   \* the facts of the memory, in order
          update,  \* the model's answer
          applied  \* _finalize_update has run

factVars == <<facts, update, applied>>

\* staleness_protected_categories and another; a fact's id is its number, and
\* text stands for its content: two facts of one text say the same.
Protected == "correction"
Categories == {Protected, "context"}
Fact == [id : 1 .. MaxKnown, text : 1 .. MaxKnown, category : Categories,
         confidence : Levels, aged : BOOLEAN, upload : BOOLEAN, from : {{}}]

\* The model's answer, after _normalize_memory_update_data: source ids are
\* deduplicated and single-source merges dropped.
New == [text : {1, MaxKnown + 1}, category : {"context"}, confidence : Levels,
        upload : BOOLEAN]
Merge == [sources : {s \in SUBSET (1 .. MaxKnown + 1) : Cardinality(s) > 1},
          confidence : Levels, upload : BOOLEAN]
Answer == [remove : {{}, {1}}, stale : {{}, 1 .. MaxKnown},
           new : {<<>>} \cup {<<n>> : n \in New},
           merge : {<<>>} \cup {<<m>> : m \in Merge}
                     \cup {<<m, m>> : m \in {m \in Merge : ~m.upload}}]

FactsInit ==
    /\ \E n \in 0 .. MaxKnown :
         facts \in {f \in [1 .. n -> Fact] :
                       \A i \in 1 .. n : f[i].id = i /\ f[i].text = i}
    /\ update \in {u \in Answer : u.remove = {} \/ u.stale = {}}
    /\ applied = FALSE

Texts(fs) == {fs[i].text : i \in DOMAIN fs}
Ids(fs) == {fs[i].id : i \in DOMAIN fs}
Without(fs, ids) == Kept(fs, {f \in Members(fs) : f.id \notin ids})

----------------------------------------------------------------------------
\* _select_stale_candidates: aged, and of no protected category.
StaleCandidates(fs) ==
    {i \in Ids(fs) : \E k \in DOMAIN fs :
        fs[k].id = i /\ fs[k].aged /\ fs[k].category # Protected}

\* The staleness removals: what is no candidate is ignored, and beyond the cap
\* the least confident go first, the earlier of two equals.
StaleRemovals(fs, named) ==
    LET ids == named \cap StaleCandidates(fs)
        at(i) == CHOOSE k \in DOMAIN fs : fs[k].id = i
        before(i, j) == \/ fs[at(i)].confidence < fs[at(j)].confidence
                        \/ fs[at(i)].confidence = fs[at(j)].confidence /\ at(i) < at(j)
    IN  {i \in ids : Cardinality({j \in ids : before(j, i)}) < MaxStale}

\* New facts: confident enough, and saying what no fact says yet.
NewFact(n) ==
    [id |-> MaxKnown + 2, text |-> n.text, category |-> n.category,
     confidence |-> n.confidence, aged |-> FALSE, upload |-> n.upload, from |-> {}]

Added(fs, new) ==
    LET upTo[n \in 0 .. Len(new)] ==
          IF n = 0 THEN fs
          ELSE IF new[n].confidence >= Threshold /\ new[n].text \notin Texts(upTo[n - 1])
               THEN Append(upTo[n - 1], NewFact(new[n]))
               ELSE upTo[n - 1]
    IN  upTo[Len(new)]

\* The max_facts limit: the most confident, the earlier of two equals.
Trimmed(fs) ==
    IF Len(fs) <= MaxFacts THEN fs
    ELSE LET rank(i) == Cardinality({j \in DOMAIN fs :
                            \/ fs[j].confidence > fs[i].confidence
                            \/ fs[j].confidence = fs[i].confidence /\ j < i})
         IN  [r \in 1 .. MaxFacts |-> fs[CHOOSE i \in DOMAIN fs : rank(i) = r - 1]]

\* A bug: protected categories can be merged too.
AllowedSourcesAny(fs) == Ids(fs)

\* _select_consolidation_candidates: large groups of no protected category.
AllowedSources(fs) ==
    {i \in Ids(fs) : \E k \in DOMAIN fs :
        /\ fs[k].id = i
        /\ fs[k].category # Protected
        /\ Cardinality({j \in DOMAIN fs : fs[j].category = fs[k].category}) >= MinGroup}

\* The guardrails of one consolidation decision.
MergeAllowed(fs, used, m) ==
    /\ m.sources \cap used = {}
    /\ m.sources \subseteq AllowedSources(fs)
    /\ Cardinality(m.sources) <= MaxSources

\* The merged fact: the model's confidence, at most the most confident source's,
\* and the age of the newest source.
MergedFact(fs, m) ==
    LET of == {fs[k] : k \in {k \in DOMAIN fs : fs[k].id \in m.sources}}
        top == CHOOSE c \in {f.confidence : f \in of} :
                   \A f \in of : f.confidence <= c
    IN  [id |-> 0, text |-> 0, category |-> "context",
         confidence |-> IF m.confidence < top THEN m.confidence ELSE top,
         aged |-> \A f \in of : f.aged, upload |-> m.upload, from |-> m.sources]

\* One decision of the consolidation pass: done holds the ids consumed so far and
\* the facts made of them.
MergeStep(fs, done, m) ==
    IF /\ Len(done.made) < MaxGroups
       /\ MergeAllowed(fs, done.used, m)
       /\ MergedFact(fs, m).confidence >= Threshold
    THEN [used |-> done.used \cup m.sources, made |-> Append(done.made, MergedFact(fs, m))]
    ELSE done

\* The consolidation pass, over the facts that survived the trim.
Consolidated(fs, merges) ==
    LET upTo[n \in 0 .. Len(merges)] ==
          IF n = 0 THEN [used |-> {}, made |-> <<>>] ELSE MergeStep(fs, upTo[n - 1], merges[n])
        done == upTo[Len(merges)]
    IN  Without(fs, done.used) \o done.made

\* _apply_updates: contradictions, staleness, new facts, limit, consolidation.
Applied(fs, u) ==
    LET removed == Without(fs, u.remove)
        fresh == Without(removed, StaleRemovals(removed, u.stale))
    IN  Consolidated(Trimmed(Added(fresh, u.new)), u.merge)

\* _strip_upload_mentions_from_memory.
Scrubbed(fs) == Kept(fs, {f \in Members(fs) : ~f.upload})

\* _finalize_update.
FinalizeUpdate ==
    /\ ~applied
    /\ applied' = TRUE
    /\ facts' = Scrubbed(Applied(facts, update))
    /\ UNCHANGED update

FactsNext == FinalizeUpdate

FactsSpec == FactsInit /\ [][FactsNext]_factVars

----------------------------------------------------------------------------
(* Properties                                                              *)

FactsTypeOK ==
    /\ Len(facts) <= MaxKnown + 1
    /\ update \in Answer
    /\ applied \in BOOLEAN

\* Why a fact may be gone after an update: the model found it contradicted, it
\* is stale and no correction, MaxFacts others are as confident, it mentions an
\* upload, it lives on in a merge of unprotected facts, or its merge mentioned an
\* upload.  A correction that mentions an upload goes with the next update, and
\* what is scrubbed has taken part in the limit before.
Explained(f, u, after) ==
    \/ f.id \in u.remove
    \/ f.category # Protected /\ f.aged /\ f.id \in u.stale
    \/ Cardinality({i \in DOMAIN facts : facts[i].id # f.id
                       /\ facts[i].confidence >= f.confidence}
                   \cup {MaxKnown + i : i \in {i \in DOMAIN u.new :
                            u.new[i].confidence >= f.confidence}}) >= MaxFacts
    \/ f.upload
    \/ /\ f.category # Protected
       /\ \/ \E i \in DOMAIN after : f.id \in after[i].from
          \/ \E i \in DOMAIN u.merge : f.id \in u.merge[i].sources /\ u.merge[i].upload

\* The apply-time guardrails hold whatever the model answered: no fact is lost
\* without a reason, an explicit correction least of all, a merge never leaves
\* its sources deleted and its result trimmed away.
NothingSilentlyLost ==
    [][\A i \in DOMAIN facts :
          \/ facts[i] \in {facts'[k] : k \in DOMAIN facts'}
          \/ Explained(facts[i], update, facts')]_factVars

\* An update leaves at most max_facts facts, although facts created by hand
\* are not limited and merges come after the limit; and no merge is more
\* confident than its best source.
LimitsHold ==
    [][/\ Len(facts') <= MaxFacts
       /\ \A k \in DOMAIN facts' : facts'[k].from # {} =>
             \E i \in DOMAIN facts : /\ facts[i].id \in facts'[k].from
                                     /\ facts[i].confidence >= facts'[k].confidence
      ]_factVars

\* Both: an update takes nothing away without a reason and adds nothing beyond
\* its limits, whatever the model answers.
UpdateSound == NothingSilentlyLost /\ LimitsHold

============================================================================
