---------------------------- MODULE SandboxProofs ----------------------------
(***************************************************************************)
(* Proofs about the two sandbox providers, for any number of threads,      *)
(* acquisitions, replicas and machines.                                    *)
(*                                                                         *)
(* AioSandboxes.  The inductive invariant AioInv says                      *)
(*                                                                         *)
(*   AcqOK    what an acquisition knows at its unit.  It has the lock file *)
(*            from discover to ready, so that the container it waits for   *)
(*            is the thread's or has died, and the one it drops is not the *)
(*            thread's;                                                    *)
(*   MapsOK   the infos in the maps were made, and the warm entries of one *)
(*            sandbox share a container;                                   *)
(*   StopsOK  the same of what the idle checker and shutdown are stopping; *)
(*                                                                         *)
(* and NothingLeaks.  A step moves one acquisition (GoesOK, OverOK), or    *)
(* one sandbox between the maps, a victim and a list of stops; what is not *)
(* touched is kept (EntriesKept, StillHandled).                            *)
(*                                                                         *)
(* E2bSandboxes.  E2bInv says that the two maps of the machines in use are *)
(* each other's inverse and name the thread a machine was made for         *)
(* (Bound), as the pool does (ParkedRight); that an acquisition has its    *)
(* thread's lock and, once its search of the pool and the service has      *)
(* found nothing, nothing runs for its thread (TakerOK); and that a thread *)
(* has one machine unless a call to the service failed (Single).           *)
(***************************************************************************)
EXTENDS AioSandboxes, E2bSandboxes, FilterProofs, FiniteSetTheorems, SequenceTheorems

AcqRecord == [at : Units \cup {"idle"}, of : Threads \cup {Nobody}, post : BOOLEAN,
              live : BOOLEAN, info : Info \cup {Nobody}, victim : SUBSET Sandbox,
              next : Units \cup {"idle"}]

\* The units of an acquisition that run with its lock file held.
Late == {"discover", "register", "count", "evict", "create", "ready"}

\* Where an acquisition goes on after a stop.
AfterStop == {"idle", "reclaim", "wait", "discover", "create"}

\* The container of the thread has taken the place of the one with this id.
Replaced(cid, t) == cid = 0 \/ cid # container[t]
Ours(cid, t) == cid = 0 \/ container[t] \in {cid, 0, Foreign} \cup lost

\* What is known of an acquisition at its unit: it has a victim only while it
\* stops it; the info it holds is one that was made; it has the lock file unless
\* it was cancelled; the container it waits for is the thread's, or has died; the
\* one it drops has died.
AcqOK(c) ==
  /\ acq[c].at # "idle" => acq[c].of \in Threads
  /\ acq[c].at # "stop" => acq[c].victim = {}
  /\ \A v, w \in acq[c].victim : v.of = w.of /\ v.info.cid = w.info.cid
  /\ acq[c].at = "stop" => acq[c].next \in AfterStop
  /\ acq[c].at \in HoldsInfo => acq[c].info \in Info /\ acq[c].info.cid <= made
  /\ acq[c].at = "register" => acq[c].info.cid = 0
  /\ acq[c].at \in Late \/ (acq[c].at = "stop" /\ acq[c].next \in Late) => acq[c].post
  /\ acq[c].live /\ acq[c].post => acq[c].at # "idle" /\ filelock[acq[c].of] = c
  /\ acq[c].at = "ready" => acq[c].live /\ Ours(acq[c].info.cid, acq[c].of)
  /\ acq[c].at \in {"drop", "drop_warm"} => Replaced(acq[c].info.cid, acq[c].of)

\* The maps hold infos that were made, and the warm entries of a sandbox are of
\* one container.
MapsOK ==
  /\ \A t \in Threads : active[t] # Nobody => active[t].cid <= made
  /\ \A e \in Members(warm) : e.info.cid <= made
  /\ \A e, f \in Members(warm) : e.of = f.of => e.info.cid = f.info.cid

\* Nothing is left to stop before the next sandboxes are taken.
StopsOK ==
  /\ sweep.at \notin {"stop", "reap"} => sweep.stops = {}
  /\ ~shut.called => shut.stops = {} /\ shut.ids = {}

AioInv == AioTypeOK /\ (\A c \in Acquisitions : AcqOK(c)) /\ MapsOK /\ StopsOK /\ NothingLeaks

\* The ways in which the thread's container is looked after.
InMap(t) == active[t] # Nobody /\ active[t].cid \in {0, container[t]}
InPool(t) == \E e \in Members(warm) : e.of = t /\ e.info.cid \in {0, container[t]}
InStops(t) == \E v \in sweep.stops \cup shut.stops : v.of = t /\ v.info.cid \in {0, container[t]}
InVictim(t) == \E c \in Acquisitions : \E v \in acq[c].victim :
                  v.of = t /\ v.info.cid \in {0, container[t]}
Awaited(t) == \E c \in Acquisitions :
                 acq[c].of = t /\ acq[c].at = "ready" /\ acq[c].info.cid = container[t]

LEMMA WarmEntries ==
  ASSUME NEW t, warm \in Seq(Sandbox)
  PROVE  /\ WarmInfo(t) = {e.info : e \in {f \in Members(warm) : f.of = t}}
         /\ WarmOf(t) = {} <=> \A e \in Members(warm) : e.of # t
         /\ Members(warm) \subseteq Sandbox
<1>1. DOMAIN warm = 1 .. Len(warm)
  OBVIOUS
<1> QED
  BY <1>1 DEF WarmInfo, WarmOf, Members

LEMMA WarmEntriesNext ==
  ASSUME NEW t, (warm \in Seq(Sandbox))'
  PROVE  /\ WarmInfo(t)' = {e.info : e \in {f \in Members(warm)' : f.of = t}}
         /\ Members(warm)' \subseteq Sandbox
<1>1. DOMAIN warm' = 1 .. Len(warm')
  OBVIOUS
<1> QED
  BY <1>1 DEF WarmInfo, WarmOf, Members

LEMMA PoolTyped ==
  ASSUME AioTypeOK
  PROVE  \A e \in Members(warm) : e \in Sandbox /\ e.of \in Threads /\ e.info \in Info
                                 /\ e.info.cid \in Nat
<1>1. warm \in Seq(Sandbox)
  BY DEF AioTypeOK
<1>2. Members(warm) \subseteq Sandbox
  BY <1>1 DEF Members
<1> QED
  BY <1>2 DEF Sandbox, Info

LEMMA HandledHow ==
  ASSUME NEW t, warm \in Seq(Sandbox)
  PROVE  Handled(t) <=> InMap(t) \/ InPool(t) \/ InStops(t) \/ InVictim(t) \/ Awaited(t)
<1>1. (\E i \in WarmInfo(t) : i.cid \in {0, container[t]}) <=> InPool(t)
  BY WarmEntries DEF InPool
<1>2. (\E i \in ({active[t]} \ {Nobody}) \cup WarmInfo(t) : i.cid \in {0, container[t]})
         <=> InMap(t) \/ InPool(t)
  BY <1>1 DEF InMap
<1>3. (\E v \in Stops : v.of = t /\ v.info.cid \in {0, container[t]}) <=> InStops(t) \/ InVictim(t)
  BY DEF Stops, InStops, InVictim
<1> QED
  BY <1>2, <1>3 DEF Handled, Awaited

LEMMA HandledHowNext ==
  ASSUME NEW t, (warm \in Seq(Sandbox))'
  PROVE  InMap(t)' \/ InPool(t)' \/ InStops(t)' \/ InVictim(t)' \/ Awaited(t)' => Handled(t)'
<1>1. InPool(t)' => \E i \in WarmInfo(t)' : i.cid \in {0, container'[t]}
  BY WarmEntriesNext DEF InPool
<1>2. InMap(t)' \/ InPool(t)' =>
        \E i \in ({active'[t]} \ {Nobody}) \cup WarmInfo(t)' : i.cid \in {0, container'[t]}
  BY <1>1 DEF InMap
<1>3. InStops(t)' \/ InVictim(t)' => \E v \in Stops' : v.of = t /\ v.info.cid \in {0, container'[t]}
  BY DEF Stops, InStops, InVictim
<1> QED
  BY <1>2, <1>3 DEF Handled, Awaited

LEMMA DrainedWarm ==
  ASSUME NEW t, warm \in Seq(Sandbox)
  PROVE  /\ Drained(t) \in Seq(Sandbox)
         /\ Members(Drained(t)) = {e \in Members(warm) : e.of # t}
  BY KeptProperties, WarmEntries DEF Drained

LEMMA AioInitInv == AioInit => AioInv
<1> SUFFICES ASSUME AioInit PROVE AioInv
  OBVIOUS
<1> USE DEF AioInit
<1>1. Foreign \in Nat /\ MaxInfos \in Nat /\ MaxFaults \in Nat
  BY AioAssumption DEF Foreign
<1>2. NoAcq \in AcqRecord
  BY DEF NoAcq, AcqRecord
<1>3. acq \in [Acquisitions -> AcqRecord]
  BY <1>2
<1>4. sweep.stops = {} /\ shut.stops = {} /\ shut.ids = {} /\ Members(warm) = {}
  BY DEF Asleep, NotShut, Members
<1>5. AioTypeOK
  BY <1>1, <1>3 DEF AioTypeOK, AcqRecord, Asleep, NotShut
<1>6. \A c \in Acquisitions : AcqOK(c)
  BY DEF AcqOK, NoAcq, HoldsInfo, Late
<1>7. MapsOK /\ StopsOK
  BY <1>4 DEF MapsOK, StopsOK
<1>8. NothingLeaks
  BY <1>1 DEF NothingLeaks
<1> QED
  BY <1>5, <1>6, <1>7, <1>8 DEF AioInv

\* What a step may do to the containers as the other acquisitions see it: one dies,
\* another process starts one, or one is started by the holder of the lock file or
\* by a cancelled acquisition.
Tame(d) ==
  /\ made \in Nat /\ made' \in Nat /\ made <= made'
  /\ lost \subseteq lost'
  /\ \A t \in Threads : filelock[t] = d => filelock'[t] = d
  /\ \A t \in Threads : \/ container'[t] \in {container[t], 0, Foreign}
                        \/ container'[t] = made + 1 /\ (made + 1 \in lost' \/ filelock[t] # d)

LEMMA OthersOK ==
  ASSUME AioTypeOK, NEW d \in Acquisitions, AcqOK(d), acq'[d] = acq[d], Tame(d)
  PROVE  AcqOK(d)'
<1> USE DEF HoldsInfo
<1>1. MaxInfos \in Nat /\ Foreign = MaxInfos + 1
  BY AioAssumption DEF Foreign
<1>2. acq[d].at # "idle" => acq[d].of \in Threads
  BY DEF AcqOK
<1>3. acq[d].at \in HoldsInfo => acq[d].info.cid \in 0 .. MaxInfos /\ acq[d].info.cid <= made
                                 /\ acq[d].info \in Info
  BY DEF AcqOK, Info
<1>4. acq[d].at \in HoldsInfo => acq[d].info.cid <= made'
  BY <1>1, <1>3 DEF Tame
<1>5. acq[d].live /\ acq[d].post => acq[d].at # "idle" /\ filelock'[acq[d].of] = d
  BY <1>2 DEF AcqOK, Tame
<1>6. acq[d].at = "ready" => filelock[acq[d].of] = d /\ acq[d].of \in Threads
  BY <1>2 DEF AcqOK, Late
<1>7. acq[d].at = "ready" => Ours(acq[d].info.cid, acq[d].of)'
  BY <1>6 DEF AcqOK, Ours, Tame
<1>8. acq[d].at \in {"drop", "drop_warm"} => Replaced(acq[d].info.cid, acq[d].of)'
  <2> SUFFICES ASSUME acq[d].at \in {"drop", "drop_warm"}, acq[d].info.cid # 0
               PROVE  acq[d].info.cid # container'[acq[d].of]
    BY DEF Replaced
  <2>1. acq[d].of \in Threads /\ acq[d].info.cid # container[acq[d].of]
    BY <1>2 DEF AcqOK, Replaced
  <2> QED
    BY <1>1, <1>3, <2>1 DEF Tame
<1> QED
  BY <1>2, <1>3, <1>4, <1>5, <1>7, <1>8 DEF AcqOK

\* The types of the locks and of the acquisitions.
CallsOK ==
  /\ locked \in [Threads -> Acquisitions \cup {Nobody}]
  /\ filelock \in [Threads -> Acquisitions \cup {Nobody}]
  /\ acq \in [Acquisitions -> AcqRecord]

LEMMA CallsTyped == AioTypeOK => CallsOK
  BY DEF AioTypeOK, CallsOK, AcqRecord

LEMMA OverCalls ==
  ASSUME CallsOK, NEW c \in Acquisitions, Over(c)
  PROVE  /\ CallsOK'
         /\ acq'[c] = NoAcq
         /\ \A d \in Acquisitions \ {c} : acq'[d] = acq[d]
         /\ \A d \in Acquisitions \ {c} : \A t \in Threads : filelock[t] = d => filelock'[t] = d
         /\ AcqOK(c)'
<1>1. NoAcq \in AcqRecord
  BY DEF NoAcq, AcqRecord
<1>2. acq' \in [Acquisitions -> AcqRecord] /\ acq'[c] = NoAcq
  BY <1>1 DEF Over, CallsOK
<1>3. CallsOK'
  BY <1>2 DEF Over, CallsOK
<1>4. AcqOK(c)'
  BY <1>2 DEF AcqOK, NoAcq, HoldsInfo, Late
<1> QED
  BY <1>2, <1>3, <1>4 DEF Over, CallsOK

\* The acquisition goes on, or is over.
LEMMA GoesCalls ==
  ASSUME CallsOK, NEW c \in Acquisitions, NEW s \in Units \cup {"idle"}, NEW f \in AcqRecord,
         Goes(c, s, f)
  PROVE  /\ CallsOK'
         /\ \A d \in Acquisitions \ {c} : acq'[d] = acq[d]
         /\ \A d \in Acquisitions \ {c} : \A t \in Threads : filelock[t] = d => filelock'[t] = d
         /\ \/ acq'[c] = NoAcq /\ AcqOK(c)' /\ (s = "idle" \/ (~acq[c].live /\ Awaits(c, s)))
            \/ /\ UNCHANGED <<locked, filelock>>
               /\ s # "idle" /\ (acq[c].live \/ ~Awaits(c, s))
               /\ acq'[c].at = s /\ acq'[c].of = f.of /\ acq'[c].post = f.post
               /\ acq'[c].live = f.live /\ acq'[c].victim = f.victim
               /\ s \in HoldsInfo => acq'[c].info = f.info
               /\ s = "stop" => acq'[c].next = f.next
<1>1. CASE s = "idle" \/ (~acq[c].live /\ Awaits(c, s))
  <2>1. Over(c)
    BY <1>1 DEF Goes
  <2> QED
    BY <2>1, <1>1, OverCalls
<1>2. CASE ~(s = "idle" \/ (~acq[c].live /\ Awaits(c, s)))
  <2>1. UNCHANGED <<locked, filelock>>
    BY <1>2 DEF Goes
  <2>2. PICK i \in Info \cup {Nobody} : i = IF s \in HoldsInfo THEN f.info ELSE Nobody
    BY DEF AcqRecord
  <2>3. PICK n \in Units \cup {"idle"} : n = IF s = "stop" THEN f.next ELSE "idle"
    BY DEF AcqRecord
  <2>4. PICK x \in AcqRecord : x = [f EXCEPT !.at = s, !.info = i, !.next = n]
    BY DEF AcqRecord
  <2>5. acq' = [acq EXCEPT ![c] = x]
    BY <1>2, <2>2, <2>3, <2>4 DEF Goes, AcqRecord
  <2>6. acq'[c] = x /\ \A d \in Acquisitions \ {c} : acq'[d] = acq[d]
    BY <2>5 DEF CallsOK
  <2>7. acq' \in [Acquisitions -> AcqRecord]
    BY <2>5 DEF CallsOK
  <2>8. /\ x.at = s /\ x.of = f.of /\ x.post = f.post /\ x.live = f.live
        /\ x.victim = f.victim /\ x.info = i /\ x.next = n
    BY <2>4 DEF AcqRecord
  <2>9. CallsOK'
    BY <2>1, <2>7 DEF CallsOK
  <2> QED
    BY <1>2, <2>1, <2>2, <2>3, <2>6, <2>8, <2>9
<1> QED
  BY <1>1, <1>2

\* What a step of acquisition c may do to the containers.
Mild(c) ==
  /\ made \in Nat /\ made' \in Nat /\ made <= made'
  /\ lost \subseteq lost'
  /\ \A t \in Threads : \/ container'[t] \in {container[t], 0, Foreign}
                        \/ container'[t] = made + 1 /\ (made + 1 \in lost' \/ filelock[t] = c)

\* What the acquisition takes along when it goes on at s.
AcqFits(c, s, f) ==
  /\ f \in AcqRecord
  /\ acq[c].at # "idle" /\ f.of = acq[c].of /\ f.post = acq[c].post /\ f.live = acq[c].live
  /\ s # "stop" => f.victim = {}
  /\ \A v, w \in f.victim : v.of = w.of /\ v.info.cid = w.info.cid
  /\ s = "stop" => f.next \in AfterStop
  /\ s \in HoldsInfo => f.info \in Info /\ f.info.cid <= made'
  /\ s = "register" => f.info.cid = 0
  /\ s \in Late \/ (s = "stop" /\ f.next \in Late) => f.post
  /\ s = "ready" => f.info.cid = 0 \/ container'[f.of] \in {f.info.cid, 0, Foreign} \cup lost'
  /\ s \in {"drop", "drop_warm"} => f.info.cid = 0 \/ f.info.cid # container'[f.of]

LEMMA OverOK ==
  ASSUME AioInv, NEW c \in Acquisitions, Over(c), Mild(c)
  PROVE  CallsOK' /\ \A d \in Acquisitions : AcqOK(d)'
<1>1. AioTypeOK /\ CallsOK
  BY CallsTyped DEF AioInv
<1>2. ASSUME NEW d \in Acquisitions \ {c}
      PROVE  AcqOK(d)'
  <2>1. acq'[d] = acq[d] /\ \A t \in Threads : filelock[t] = d => filelock'[t] = d
    BY <1>1, OverCalls
  <2>2. Tame(d)
    BY <2>1 DEF Tame, Mild
  <2> QED
    BY <1>1, <2>1, <2>2, OthersOK DEF AioInv
<1>3. CallsOK' /\ AcqOK(c)'
  BY <1>1, OverCalls
<1> QED
  BY <1>2, <1>3

LEMMA GoesOK ==
  ASSUME AioInv, NEW c \in Acquisitions, NEW s \in Units \cup {"idle"}, NEW f,
         Goes(c, s, f), AcqFits(c, s, f), Mild(c)
  PROVE  CallsOK' /\ \A d \in Acquisitions : AcqOK(d)'
<1>1. f \in AcqRecord
  BY DEF AcqFits
<1>2. AioTypeOK /\ CallsOK /\ AcqOK(c)
  BY CallsTyped DEF AioInv
<1>3. ASSUME NEW d \in Acquisitions \ {c}
      PROVE  AcqOK(d)'
  <2>1. acq'[d] = acq[d] /\ \A t \in Threads : filelock[t] = d => filelock'[t] = d
    BY <1>1, <1>2, GoesCalls
  <2>2. Tame(d)
    BY <2>1 DEF Tame, Mild
  <2> QED
    BY <1>2, <2>1, <2>2, OthersOK DEF AioInv
<1>4. CASE acq'[c] = NoAcq /\ AcqOK(c)'
  BY <1>1, <1>2, <1>3, <1>4, GoesCalls
<1>5. CASE /\ UNCHANGED <<locked, filelock>>
           /\ s # "idle" /\ (acq[c].live \/ ~Awaits(c, s))
           /\ acq'[c].at = s /\ acq'[c].of = f.of /\ acq'[c].post = f.post
           /\ acq'[c].live = f.live /\ acq'[c].victim = f.victim
           /\ s \in HoldsInfo => acq'[c].info = f.info
           /\ s = "stop" => acq'[c].next = f.next
  <2>1. f.of \in Threads
    BY <1>2 DEF AcqOK, AcqFits
  <2>2. f.live /\ f.post => filelock'[f.of] = c
    BY <1>2, <1>5 DEF AcqOK, AcqFits
  <2>3. s = "ready" => f.live
    BY <1>5 DEF Awaits, AcqFits
  <2>4. s = "ready" => s \in HoldsInfo
    BY DEF HoldsInfo
  <2>5. s \in {"drop", "drop_warm", "register"} => s \in HoldsInfo
    BY DEF HoldsInfo
  <2>6. s = "ready" => Ours(acq[c].info.cid, acq[c].of)'
    BY <1>5, <2>4 DEF AcqFits, Ours
  <2>7. s \in {"drop", "drop_warm"} => Replaced(acq[c].info.cid, acq[c].of)'
    BY <1>5, <2>5 DEF AcqFits, Replaced
  <2>8. AcqOK(c)'
    BY <1>5, <2>1, <2>2, <2>3, <2>4, <2>5, <2>6, <2>7 DEF AcqOK, AcqFits
  <2> QED
    BY <1>1, <1>2, <1>3, <2>8, GoesCalls
<1> QED
  BY <1>1, <1>2, <1>4, <1>5, GoesCalls

\* A step that leaves the acquisitions alone.
LEMMA CallsKept ==
  ASSUME AioInv, UNCHANGED <<locked, filelock, acq>>,
         made' \in Nat, made <= made', lost \subseteq lost',
         \A t \in Threads : container'[t] \in {container[t], 0, Foreign}
  PROVE  CallsOK' /\ \A d \in Acquisitions : AcqOK(d)'
<1>1. AioTypeOK /\ CallsOK
  BY CallsTyped DEF AioInv
<1>2. made \in Nat
  BY <1>1, AioAssumption DEF AioTypeOK
<1>3. ASSUME NEW d \in Acquisitions PROVE AcqOK(d)'
  <2>1. Tame(d)
    BY <1>2 DEF Tame
  <2> QED
    BY <1>1, <2>1, OthersOK DEF AioInv
<1> QED
  BY <1>1, <1>3 DEF CallsOK

\* The types of the rest.
WorldOK ==
  /\ container \in [Threads -> 0 .. Foreign]
  /\ made \in 0 .. MaxInfos
  /\ lost \subseteq 1 .. MaxInfos
  /\ faults \in 0 .. MaxFaults
TablesOK ==
  /\ active \in [Threads -> Info \cup {Nobody}]
  /\ idle \in [Threads -> BOOLEAN]
  /\ warm \in Seq(Sandbox)
EndsOK ==
  /\ sweep \in [at : {"asleep", "verify", "destroy", "stop", "reap"}, ids : SUBSET Threads,
                now : Threads \cup {Nobody}, stops : SUBSET Sandbox]
  /\ shut \in [called : BOOLEAN, ids : SUBSET Threads, stops : SUBSET Sandbox]

LEMMA AioTypes == AioTypeOK <=> WorldOK /\ TablesOK /\ EndsOK /\ CallsOK
  BY DEF AioTypeOK, WorldOK, TablesOK, EndsOK, CallsOK, AcqRecord

LEMMA AioTypesNext == AioTypeOK' <=> WorldOK' /\ TablesOK' /\ EndsOK' /\ CallsOK'
  BY DEF AioTypeOK, WorldOK, TablesOK, EndsOK, CallsOK, AcqRecord

LEMMA AioNumbers ==
  ASSUME AioInv
  PROVE  /\ MaxInfos \in Nat /\ MaxFaults \in Nat /\ Foreign = MaxInfos + 1
         /\ made \in Nat /\ made <= MaxInfos /\ faults \in Nat
         /\ \A t \in Threads : container[t] \in 0 .. Foreign
         /\ \A i \in Info : i.cid \in 0 .. MaxInfos /\ i # Nobody
  BY AioAssumption DEF AioInv, AioTypeOK, Foreign, Info

\* The stops that are under way, and the acquisition that waits for the container,
\* survive a step of anybody else.
LEMMA CareKept ==
  ASSUME AioInv, (warm \in Seq(Sandbox))', NEW t \in Threads, container'[t] = container[t],
         \A v : v \in sweep.stops \cup shut.stops /\ v.of = t => v \in sweep'.stops \cup shut'.stops,
         \A c \in Acquisitions : acq'[c] = acq[c] \/ (acq[c].victim = {} /\ acq[c].at # "ready")
  PROVE  InStops(t) \/ InVictim(t) \/ Awaited(t) => Handled(t)'
<1>1. InStops(t) => InStops(t)'
  BY DEF InStops
<1>2. InVictim(t) => InVictim(t)'
  BY DEF InVictim
<1>3. Awaited(t) => Awaited(t)'
  BY DEF Awaited
<1> QED
  BY <1>1, <1>2, <1>3, HandledHowNext

\* The entries of the thread survive a step that leaves them alone.
LEMMA EntriesKept ==
  ASSUME AioInv, (warm \in Seq(Sandbox))', NEW t \in Threads, container'[t] = container[t],
         active'[t] = active[t], \A e \in Members(warm) : e.of = t => e \in Members(warm)'
  PROVE  InMap(t) \/ InPool(t) => Handled(t)'
<1>1. InMap(t) => InMap(t)'
  BY DEF InMap
<1>2. InPool(t) => InPool(t)'
  BY DEF InPool
<1> QED
  BY <1>1, <1>2, HandledHowNext

\* It is enough to look at the threads whose container is still the same.
LEMMA StillHandled ==
  ASSUME AioInv, lost \subseteq lost',
         \A t \in Threads : container'[t] \in (1 .. MaxInfos) \ lost' =>
            \/ Handled(t)'
            \/ /\ container'[t] = container[t]
               /\ InMap(t) \/ InPool(t) \/ InStops(t) \/ InVictim(t) \/ Awaited(t) => Handled(t)'
  PROVE  NothingLeaks'
<1>1. warm \in Seq(Sandbox)
  BY DEF AioInv, AioTypeOK
<1>2. SUFFICES ASSUME NEW t \in Threads, container'[t] \in (1 .. MaxInfos) \ lost'
      PROVE  Handled(t)'
  BY DEF NothingLeaks
<1>3. container'[t] = container[t] => Handled(t)
  BY <1>2 DEF AioInv, NothingLeaks
<1> QED
  BY <1>1, <1>2, <1>3, HandledHow

\* Steps of an acquisition between two units that change neither a map nor a
\* container.
LEMMA PlainStep ==
  ASSUME AioInv, NEW c \in Acquisitions, acq[c].at \notin {"stop", "ready"},
         \A d \in Acquisitions \ {c} : acq'[d] = acq[d],
         CallsOK', \A d \in Acquisitions : AcqOK(d)',
         UNCHANGED <<active, warm, container, lost, sweep, shut>>,
         idle' \in [Threads -> BOOLEAN], made' \in made .. MaxInfos, faults' \in 0 .. MaxFaults
  PROVE  AioInv'
<1>1. AioTypeOK /\ MapsOK /\ StopsOK /\ AcqOK(c)
  BY DEF AioInv
<1>2. MaxInfos \in Nat /\ made \in Nat /\ made <= made'
  BY AioNumbers
<1>3. TablesOK' /\ EndsOK' /\ WorldOK'
  BY <1>1, <1>2, AioTypes DEF TablesOK, EndsOK, WorldOK
<1>4. \A t \in Threads : active[t] # Nobody => active[t].cid \in Nat
  BY <1>1 DEF AioTypeOK, Info
<1>5. \A e \in Members(warm) : e.info.cid \in Nat
  BY <1>1, PoolTyped
<1>6. Members(warm)' = Members(warm)
  BY DEF Members
<1>7. MapsOK' /\ StopsOK'
  BY <1>1, <1>2, <1>4, <1>5, <1>6 DEF MapsOK, StopsOK
<1>8. acq[c].victim = {}
  BY <1>1 DEF AcqOK
<1>9. \A t \in Threads : InMap(t) \/ InPool(t) \/ InStops(t) \/ InVictim(t) \/ Awaited(t) => Handled(t)'
  BY <1>3, <1>6, <1>8, CareKept, EntriesKept DEF TablesOK
<1>10. NothingLeaks'
  BY <1>9, StillHandled
<1> QED
  BY <1>3, <1>7, <1>10, AioTypesNext DEF AioInv

\* The same for a step that goes on, and for one that ends the acquisition.
LEMMA PlainGoes ==
  ASSUME AioInv, NEW c \in Acquisitions, NEW s \in Units \cup {"idle"}, NEW f,
         Goes(c, s, f), AcqFits(c, s, f), acq[c].at \notin {"stop", "ready"},
         UNCHANGED <<active, warm, container, lost, sweep, shut>>,
         idle' \in [Threads -> BOOLEAN], made' \in made .. MaxInfos, faults' \in 0 .. MaxFaults
  PROVE  AioInv'
<1>1. made \in Nat /\ MaxInfos \in Nat
  BY AioNumbers
<1>2. Mild(c)
  BY <1>1 DEF Mild
<1>3. CallsOK' /\ \A d \in Acquisitions : AcqOK(d)'
  BY <1>2, GoesOK
<1>4. \A d \in Acquisitions \ {c} : acq'[d] = acq[d]
  BY GoesCalls, CallsTyped DEF AioInv, AcqFits
<1> QED
  BY <1>3, <1>4, PlainStep

LEMMA PlainOver ==
  ASSUME AioInv, NEW c \in Acquisitions, Over(c), acq[c].at \notin {"stop", "ready"},
         UNCHANGED <<active, warm, container, lost, sweep, shut>>,
         idle' \in [Threads -> BOOLEAN], made' \in made .. MaxInfos, faults' \in 0 .. MaxFaults
  PROVE  AioInv'
<1>1. made \in Nat /\ MaxInfos \in Nat
  BY AioNumbers
<1>2. Mild(c)
  BY <1>1 DEF Mild
<1>3. CallsOK' /\ \A d \in Acquisitions : AcqOK(d)'
  BY <1>2, OverOK
<1>4. \A d \in Acquisitions \ {c} : acq'[d] = acq[d]
  BY OverCalls, CallsTyped DEF AioInv
<1> QED
  BY <1>3, <1>4, PlainStep

LEMMA StepFits ==
  ASSUME AioInv, NEW c \in Acquisitions, acq[c].at \notin {"idle", "stop"},
         NEW s \in Units \ ({"stop"} \cup HoldsInfo), s \in Late => acq[c].post
  PROVE  AcqFits(c, s, acq[c])
<1>1. acq[c] \in AcqRecord /\ AcqOK(c)
  BY CallsTyped DEF AioInv, CallsOK
<1> QED
  BY <1>1 DEF AcqFits, AcqOK, HoldsInfo

LEMMA InfoFits ==
  ASSUME AioInv, NEW c \in Acquisitions, acq[c].at \notin {"idle", "stop"},
         NEW i \in Info, i.cid <= made', NEW s \in {"probe", "probe_warm", "register"},
         s = "register" => i.cid = 0 /\ acq[c].post
  PROVE  AcqFits(c, s, [acq[c] EXCEPT !.info = i])
<1>1. acq[c] \in AcqRecord /\ AcqOK(c)
  BY CallsTyped DEF AioInv, CallsOK
<1>2. PICK f : f = [acq[c] EXCEPT !.info = i]
  OBVIOUS
<1>3. /\ f \in AcqRecord /\ f.of = acq[c].of /\ f.post = acq[c].post /\ f.live = acq[c].live
      /\ f.victim = acq[c].victim /\ f.info = i
  BY <1>1, <1>2 DEF AcqRecord
<1>4. AcqFits(c, s, f)
  BY <1>1, <1>3 DEF AcqFits, AcqOK, HoldsInfo, Late
<1> QED
  BY <1>2, <1>4

LEMMA ActiveTyped ==
  ASSUME AioInv, NEW t \in Threads, active[t] # Nobody
  PROVE  active[t] \in Info /\ active[t].cid \in Nat /\ active[t].cid <= made
<1>1. active[t] \in Info
  BY DEF AioInv, AioTypeOK
<1> QED
  BY <1>1 DEF AioInv, MapsOK, Info

LEMMA WarmTyped ==
  ASSUME AioInv, NEW t, NEW i \in WarmInfo(t)
  PROVE  /\ i \in Info /\ i.cid <= made
         /\ \E e \in Members(warm) : e.of = t /\ e.info = i
         /\ \A e \in Members(warm) : e.of = t => e.info.cid = i.cid
<1>1. AioTypeOK /\ warm \in Seq(Sandbox) /\ MapsOK
  BY DEF AioInv, AioTypeOK
<1>2. PICK e \in Members(warm) : e.of = t /\ e.info = i
  BY <1>1, WarmEntries
<1> QED
  BY <1>1, <1>2, PoolTyped DEF MapsOK

LEMMA ReuseStep ==
  ASSUME AioInv, NEW c \in Acquisitions, Reuse(c)
  PROVE  AioInv'
<1> USE DEF Reuse, At, Units, maps, world
<1>1. /\ idle' \in [Threads -> BOOLEAN] /\ made' \in made .. MaxInfos
      /\ faults' \in 0 .. MaxFaults /\ made' = made
  BY AioNumbers DEF AioInv, AioTypeOK
<1>2. acq[c].of \in Threads
  BY DEF AioInv, AcqOK
<1>3. CASE active[acq[c].of] # Nobody
  <2>1. AcqFits(c, "probe", [acq[c] EXCEPT !.info = active[acq[c].of]])
    BY <1>1, <1>2, <1>3, ActiveTyped, InfoFits
  <2> QED
    BY <1>1, <1>3, <2>1, PlainGoes
<1>4. CASE active[acq[c].of] = Nobody
  <2>1. AcqFits(c, "reclaim", acq[c])
    BY StepFits DEF HoldsInfo, Late
  <2> QED
    BY <1>1, <1>4, <2>1, PlainGoes DEF Step
<1> QED
  BY <1>3, <1>4

LEMMA AfterReclaimFits ==
  ASSUME AioInv, NEW c \in Acquisitions, acq[c].at \notin {"idle", "stop"}
  PROVE  AfterReclaim(c) \in Units /\ AcqFits(c, AfterReclaim(c), acq[c])
<1>1. CASE acq[c].post
  BY <1>1, StepFits DEF AfterReclaim, Units, HoldsInfo
<1>2. CASE ~acq[c].post
  BY <1>2, StepFits DEF AfterReclaim, Units, HoldsInfo, Late
<1> QED
  BY <1>1, <1>2

LEMMA ReclaimStep ==
  ASSUME AioInv, NEW c \in Acquisitions, Reclaim(c)
  PROVE  AioInv'
<1> USE DEF Reclaim, At, maps, world
<1>1. /\ idle' \in [Threads -> BOOLEAN] /\ made' \in made .. MaxInfos
      /\ faults' \in 0 .. MaxFaults /\ made' = made
  BY AioNumbers DEF AioInv, AioTypeOK
<1>2. CASE Step(c, AfterReclaim(c))
  BY <1>1, <1>2, AfterReclaimFits, PlainGoes DEF Step
<1>3. CASE \E i \in WarmInfo(acq[c].of) : Goes(c, "probe_warm", [acq[c] EXCEPT !.info = i])
  <2>1. PICK i \in WarmInfo(acq[c].of) : Goes(c, "probe_warm", [acq[c] EXCEPT !.info = i])
    BY <1>3
  <2>2. i \in Info /\ i.cid <= made'
    BY <1>1, WarmTyped
  <2>3. AcqFits(c, "probe_warm", [acq[c] EXCEPT !.info = i])
    BY <2>2, InfoFits
  <2> QED
    BY <1>1, <2>1, <2>3, PlainGoes DEF Units
<1> QED
  BY <1>2, <1>3

LEMMA ProbeStep ==
  ASSUME AioInv, NEW c \in Acquisitions, Probe(c)
  PROVE  AioInv'
<1> USE DEF Probe, At, maps
<1>1. /\ idle' \in [Threads -> BOOLEAN] /\ made' \in made .. MaxInfos
      /\ faults' \in 0 .. MaxFaults /\ made' = made
  BY AioNumbers DEF AioInv, AioTypeOK, Fault
<1>2. CASE Step(c, IF At(c, "probe") THEN "confirm" ELSE "confirm_warm")
  <2>1. PICK s \in {"confirm", "confirm_warm"} : Step(c, s)
    BY <1>2
  <2>2. AcqFits(c, s, acq[c])
    BY StepFits DEF HoldsInfo, Late, Units
  <2> QED
    BY <1>1, <2>1, <2>2, PlainGoes DEF Step, Units
<1>3. CASE container[acq[c].of] = 0 /\ Step(c, IF At(c, "probe") THEN "drop" ELSE "drop_warm")
  <2>1. PICK s \in {"drop", "drop_warm"} : Step(c, s)
    BY <1>3
  <2>2. acq[c] \in AcqRecord /\ AcqOK(c)
    BY CallsTyped DEF AioInv, CallsOK
  <2>3. acq[c].info \in Info /\ acq[c].info.cid <= made'
    BY <1>1, <2>2 DEF AcqOK, HoldsInfo
  <2>4. acq[c].info.cid = 0 \/ acq[c].info.cid # container'[acq[c].of]
    BY <1>3
  <2>5. AcqFits(c, s, acq[c])
    BY <2>2, <2>3, <2>4 DEF AcqFits, AcqOK, Late
  <2> QED
    BY <1>1, <2>1, <2>5, PlainGoes DEF Step, Units
<1> QED
  BY <1>2, <1>3

LEMMA ConfirmStep ==
  ASSUME AioInv, NEW c \in Acquisitions, Confirm(c)
  PROVE  AioInv'
<1> USE DEF Confirm, At, world
<1>1. made' \in made .. MaxInfos /\ faults' \in 0 .. MaxFaults
  BY AioNumbers DEF AioInv, AioTypeOK
<1>2. idle \in [Threads -> BOOLEAN]
  BY DEF AioInv, AioTypeOK
<1>3. idle' \in [Threads -> BOOLEAN]
  BY <1>2
<1>4. CASE Over(c)
  BY <1>3, <1>1, <1>4, PlainOver
<1>5. CASE Step(c, "reclaim")
  <2>1. AcqFits(c, "reclaim", acq[c])
    BY StepFits DEF HoldsInfo, Late, Units
  <2> QED
    BY <1>3, <1>1, <1>5, <2>1, PlainGoes DEF Step, Units
<1> QED
  BY <1>4, <1>5

LEMMA DiscoverStep ==
  ASSUME AioInv, NEW c \in Acquisitions, Discover(c)
  PROVE  AioInv'
<1> USE DEF Discover, At, maps
<1>1. idle' \in [Threads -> BOOLEAN] /\ faults' \in 0 .. MaxFaults
  BY AioNumbers DEF AioInv, AioTypeOK, Fault
<1>2. acq[c].post
  BY DEF AioInv, AcqOK, Late
<1>3. CASE /\ made < MaxInfos /\ made' = made + 1
           /\ Goes(c, "register", [acq[c] EXCEPT !.info = NewInfo(0)])
  <2>1. made' \in made .. MaxInfos
    BY <1>3, AioNumbers
  <2>2. PICK i : i = NewInfo(0)
    OBVIOUS
  <2>3. i \in Info /\ i.cid = 0 /\ i.cid <= made'
    BY <1>3, <2>2, AioNumbers DEF NewInfo, Info
  <2>4. AcqFits(c, "register", [acq[c] EXCEPT !.info = i])
    BY <1>2, <2>3, InfoFits
  <2> QED
    BY <1>1, <1>3, <2>1, <2>2, <2>4, PlainGoes DEF Units
<1>4. CASE Step(c, "count") /\ UNCHANGED made
  <2>1. made' \in made .. MaxInfos
    BY <1>4, AioNumbers
  <2>2. AcqFits(c, "count", acq[c])
    BY <1>2, StepFits DEF HoldsInfo, Units
  <2> QED
    BY <1>1, <1>4, <2>1, <2>2, PlainGoes DEF Step, Units
<1> QED
  BY <1>3, <1>4

LEMMA CountStep ==
  ASSUME AioInv, NEW c \in Acquisitions, Count(c)
  PROVE  AioInv'
<1>1. PICK s \in {"evict", "create"} : Step(c, s)
  BY DEF Count
<1>2. /\ acq[c].at = "count" /\ UNCHANGED <<active, idle, warm, container, made, lost, faults, sweep, shut>>
  BY DEF Count, At, maps, world
<1>3. idle' \in [Threads -> BOOLEAN] /\ made' \in made .. MaxInfos /\ faults' \in 0 .. MaxFaults
  BY <1>2, AioNumbers DEF AioInv, AioTypeOK
<1>4. acq[c].post
  BY <1>2 DEF AioInv, AcqOK, Late
<1>5. AcqFits(c, s, acq[c])
  BY <1>2, <1>4, StepFits DEF HoldsInfo, Units
<1> QED
  BY <1>1, <1>2, <1>3, <1>5, PlainGoes DEF Step, Units

LEMMA AcquireStep ==
  ASSUME AioInv, NEW c \in Acquisitions, NEW t \in Threads, Acquire(c, t)
  PROVE  AioInv'
<1> USE DEF Acquire, At, maps, world
<1>1. AioTypeOK /\ CallsOK
  BY CallsTyped DEF AioInv
<1>2. PICK f : f = [NoAcq EXCEPT !.at = "reuse", !.of = t]
  OBVIOUS
<1>3. /\ f \in AcqRecord /\ f.at = "reuse" /\ f.of = t /\ f.victim = {} /\ f.post = FALSE
  BY <1>2 DEF NoAcq, AcqRecord, Units
<1>4. acq' = [acq EXCEPT ![c] = f]
  BY <1>2
<1>5. acq'[c] = f /\ \A d \in Acquisitions \ {c} : acq'[d] = acq[d]
  BY <1>1, <1>4 DEF CallsOK
<1>6. CallsOK'
  BY <1>1, <1>3, <1>4 DEF CallsOK
<1>7. AcqOK(c)'
  BY <1>3, <1>5 DEF AcqOK, HoldsInfo, Late
<1>8. ASSUME NEW d \in Acquisitions \ {c} PROVE AcqOK(d)'
  <2>1. Tame(d)
    BY AioNumbers DEF Tame
  <2> QED
    BY <1>1, <1>5, <2>1, OthersOK DEF AioInv
<1>9. idle' \in [Threads -> BOOLEAN] /\ made' \in made .. MaxInfos /\ faults' \in 0 .. MaxFaults
  BY <1>1, AioNumbers DEF AioTypeOK
<1> QED
  BY <1>5, <1>6, <1>7, <1>8, <1>9, PlainStep

LEMMA LockFileStep ==
  ASSUME AioInv, NEW c \in Acquisitions, LockFile(c)
  PROVE  AioInv'
<1>1. /\ acq[c].at = "wait" /\ filelock[acq[c].of] = Nobody
      /\ filelock' = [filelock EXCEPT ![acq[c].of] = c]
      /\ UNCHANGED <<active, idle, warm, container, made, lost, faults, locked, sweep, shut>>
  BY DEF LockFile, At, maps, world
<1>2. AioTypeOK /\ CallsOK /\ AcqOK(c)
  BY CallsTyped DEF AioInv
<1>3. acq[c] \in AcqRecord /\ "reuse" \in Units
  BY <1>2 DEF CallsOK, Units
<1>4. PICK a \in AcqRecord : a = acq[c]
  BY <1>3
<1>5. PICK b \in BOOLEAN : b = TRUE
  OBVIOUS
<1>6. PICK f : f = [a EXCEPT !.at = "reuse", !.post = b]
  OBVIOUS
<1>7. f \in AcqRecord
  BY <1>3, <1>6 DEF AcqRecord
<1>8. f.at = "reuse" /\ f.of = acq[c].of /\ f.victim = acq[c].victim
  BY <1>4, <1>6 DEF AcqRecord
<1>9. acq' = [acq EXCEPT ![c] = f]
  BY <1>2, <1>4, <1>5, <1>6 DEF LockFile, CallsOK, AcqRecord
<1>10. acq'[c] = f /\ \A d \in Acquisitions \ {c} : acq'[d] = acq[d]
  BY <1>2, <1>9 DEF CallsOK
<1>11. acq[c].of \in Threads /\ acq[c].victim = {}
  BY <1>1, <1>2 DEF AcqOK
<1>12. filelock'[acq[c].of] = c /\ filelock' \in [Threads -> Acquisitions \cup {Nobody}]
  BY <1>1, <1>2, <1>11 DEF CallsOK
<1>13. CallsOK'
  BY <1>1, <1>2, <1>7, <1>9, <1>12 DEF CallsOK
<1>14. AcqOK(c)'
  BY <1>8, <1>10, <1>11, <1>12 DEF AcqOK, HoldsInfo, Late
<1>15. ASSUME NEW d \in Acquisitions \ {c} PROVE AcqOK(d)'
  <2>1. Nobody # d
    BY AioAssumption
  <2>2. \A t \in Threads : filelock[t] = d => filelock'[t] = d
    BY <1>1, <1>2, <1>11, <2>1 DEF CallsOK
  <2>3. Tame(d)
    BY <1>1, <2>2, AioNumbers DEF Tame
  <2> QED
    BY <1>2, <1>10, <2>3, OthersOK DEF AioInv
<1>16. idle' \in [Threads -> BOOLEAN] /\ made' \in made .. MaxInfos /\ faults' \in 0 .. MaxFaults
  BY <1>1, <1>2, AioNumbers DEF AioTypeOK
<1> QED
  BY <1>1, <1>10, <1>13, <1>14, <1>15, <1>16, PlainStep

\* A cancelled acquisition gives its locks back, and the container it was waiting
\* for is lost.
LEMMA CancelAcquireStep ==
  ASSUME AioInv, NEW c \in Acquisitions, CancelAcquire(c)
  PROVE  AioInv'
<1>1. AioTypeOK /\ CallsOK /\ AcqOK(c) /\ MapsOK /\ StopsOK
  BY CallsTyped DEF AioInv
<1>2. /\ acq[c].at # "idle" /\ acq[c].live
      /\ locked' = [locked EXCEPT ![acq[c].of] = Nobody]
      /\ UNCHANGED <<active, idle, warm, container, made, sweep, shut, faults>>
  BY DEF CancelAcquire, maps
<1>3. acq[c].of \in Threads
  BY <1>1, <1>2 DEF AcqOK
<1>4. PICK t \in Threads : t = acq[c].of
  BY <1>3
<1>5. filelock' = [filelock EXCEPT ![t] = IF filelock[t] = c THEN Nobody ELSE filelock[t]]
  BY <1>1, <1>4 DEF CancelAcquire, CallsOK
<1>6. PICK a \in AcqRecord : a = acq[c]
  BY <1>1 DEF CallsOK
<1>7. PICK b \in BOOLEAN : b = FALSE
  OBVIOUS
<1>8. PICK g : g = [a EXCEPT !.live = b]
  OBVIOUS
<1>9. /\ g \in AcqRecord /\ g.at = a.at /\ g.of = a.of /\ g.post = a.post /\ g.info = a.info
      /\ g.victim = a.victim /\ g.next = a.next /\ g.live = b
  BY <1>8 DEF AcqRecord
<1>10. NoAcq \in AcqRecord
  BY DEF NoAcq, AcqRecord
<1>11. PICK f \in AcqRecord : f = IF a.at \in {"wait", "ready"} THEN NoAcq ELSE g
  BY <1>9, <1>10
<1>12. acq' = [acq EXCEPT ![c] = f]
  BY <1>1, <1>6, <1>7, <1>8, <1>11 DEF CancelAcquire, CallsOK
<1>13. acq'[c] = f /\ \A d \in Acquisitions \ {c} : acq'[d] = acq[d]
  BY <1>1, <1>12 DEF CallsOK
<1>14. CallsOK'
  BY <1>1, <1>2, <1>3, <1>5, <1>12 DEF CallsOK
<1>15. AcqOK(c)'
  <2>1. CASE a.at \in {"wait", "ready"}
    BY <1>11, <1>13, <2>1 DEF AcqOK, NoAcq, HoldsInfo, Late
  <2>2. CASE a.at \notin {"wait", "ready"}
    <3>1. f = g /\ ~f.live
      BY <1>7, <1>9, <1>11, <2>2
    <3>2. a.at \in {"drop", "drop_warm"} => Replaced(a.info.cid, a.of)
      BY <1>1, <1>6 DEF AcqOK
    <3>3. f.at \in {"drop", "drop_warm"} => f.info.cid = 0 \/ f.info.cid # container'[f.of]
      BY <1>2, <1>9, <3>1, <3>2 DEF Replaced
    <3>4. f.at # "ready"
      BY <1>9, <2>2, <3>1
    <3>5. f.at # "idle" => f.of \in Threads
      BY <1>3, <1>6, <1>9, <3>1
    <3>6. /\ f.at # "stop" => f.victim = {}
          /\ \A v, w \in f.victim : v.of = w.of /\ v.info.cid = w.info.cid
          /\ f.at = "stop" => f.next \in AfterStop
          /\ f.at \in HoldsInfo => f.info \in Info /\ f.info.cid <= made
          /\ f.at = "register" => f.info.cid = 0
          /\ f.at \in Late \/ (f.at = "stop" /\ f.next \in Late) => f.post
      BY <1>1, <1>6, <1>9, <3>1 DEF AcqOK
    <3> QED
      BY <1>2, <1>13, <3>1, <3>3, <3>4, <3>5, <3>6 DEF AcqOK, Replaced
  <2> QED
    BY <2>1, <2>2
<1>16. lost' = lost \cup (IF a.at = "ready" THEN {a.info.cid} \ {0} ELSE {})
  BY <1>6 DEF CancelAcquire, At
<1>17. a.at = "ready" => a.info.cid \in 0 .. MaxInfos
  BY <1>1, <1>6 DEF AcqOK, HoldsInfo, Info
<1>18. lost' \subseteq 1 .. MaxInfos /\ lost \subseteq lost'
  <2>1. lost \subseteq 1 .. MaxInfos /\ MaxInfos \in Nat
    BY <1>1, AioNumbers DEF AioTypeOK
  <2>2. a.at = "ready" => {a.info.cid} \ {0} \subseteq 1 .. MaxInfos
    BY <1>17, <2>1
  <2> QED
    BY <1>16, <2>1, <2>2
<1>19. ASSUME NEW d \in Acquisitions \ {c} PROVE AcqOK(d)'
  <2>1. \A u \in Threads : filelock[u] = d => filelock'[u] = d
    BY <1>1, <1>5 DEF CallsOK
  <2>2. Tame(d)
    BY <1>2, <1>18, <2>1, AioNumbers DEF Tame
  <2> QED
    BY <1>1, <1>13, <2>2, OthersOK DEF AioInv
<1>20. TablesOK' /\ EndsOK' /\ WorldOK'
  BY <1>1, <1>2, <1>18, AioTypes DEF TablesOK, EndsOK, WorldOK
<1>21. MapsOK' /\ StopsOK'
  BY <1>1, <1>2 DEF MapsOK, StopsOK, Members
<1>22. NothingLeaks'
  <2>1. ASSUME NEW u \in Threads, container'[u] \in (1 .. MaxInfos) \ lost',
               InMap(u) \/ InPool(u) \/ InStops(u) \/ InVictim(u) \/ Awaited(u)
        PROVE  Handled(u)'
    <3>1. InMap(u) => InMap(u)'
      BY <1>2 DEF InMap
    <3>2. InPool(u) => InPool(u)'
      BY <1>2 DEF InPool, Members
    <3>3. InStops(u) => InStops(u)'
      BY <1>2 DEF InStops
    <3>4. acq[c].victim = {} \/ acq'[c].victim = acq[c].victim
      BY <1>1, <1>6, <1>9, <1>11, <1>13 DEF AcqOK
    <3>5. InVictim(u) => InVictim(u)'
      BY <1>2, <1>13, <3>4 DEF InVictim
    <3>6. acq[c].at = "ready" => acq[c].info.cid = 0 \/ acq[c].info.cid # container[u]
      BY <1>2, <1>6, <1>16, <2>1
    <3>7. container[u] # 0
      BY <1>2, <2>1, AioNumbers
    <3>8. Awaited(u) => Awaited(u)'
      BY <1>2, <1>13, <3>6, <3>7 DEF Awaited
    <3> QED
      BY <1>20, <2>1, <3>1, <3>2, <3>3, <3>5, <3>8, HandledHowNext DEF TablesOK
  <2> QED
    BY <1>2, <1>18, <2>1, StillHandled
<1> QED
  BY <1>14, <1>15, <1>19, <1>20, <1>21, <1>22, AioTypesNext DEF AioInv

\* The sandbox that _remove_tracked_sandbox takes out of the maps is the one whose
\* container runs, unless the maps had two.
LEMMA UntrackOK ==
  ASSUME AioInv, NEW t \in Threads, Untrack(t)
  PROVE  /\ TablesOK'
         /\ lost \subseteq lost' /\ lost' \subseteq 1 .. MaxInfos
         /\ Tracked(t) \subseteq Sandbox
         /\ \A v, w \in Tracked(t) : v.of = w.of /\ v.info.cid = w.info.cid
         /\ made' = made => MapsOK'
         /\ \A u \in Threads \ {t} : /\ active'[u] = active[u]
                                     /\ \A e \in Members(warm) : e.of = u => e \in Members(warm)'
         /\ InMap(t) \/ InPool(t) => \/ container[t] \notin (1 .. MaxInfos) \ lost'
                                     \/ \E v \in Tracked(t) : v.of = t /\ v.info.cid \in {0, container[t]}
<1>1. AioTypeOK /\ TablesOK /\ MapsOK /\ warm \in Seq(Sandbox)
  BY AioTypes DEF AioInv, TablesOK
<1>2. /\ warm' \in Seq(Sandbox)
      /\ Members(warm)' = {e \in Members(warm) : e.of # t}
  <2>1. warm' = Drained(t)
    BY DEF Untrack
  <2>2. Members(warm)' = Members(Drained(t))
    BY <2>1 DEF Members
  <2> QED
    BY <1>1, <2>1, <2>2, DrainedWarm
<1>3. TablesOK'
  BY <1>1, <1>2 DEF Untrack, TablesOK
<1>4. \A i \in Info : Forgotten(t, i) \subseteq {container[t]} \ {0, Foreign}
  BY DEF Forgotten
<1>5. \A i \in WarmInfo(t) : /\ i \in Info
                             /\ \E e \in Members(warm) : e.of = t /\ e.info = i
                             /\ \A e \in Members(warm) : e.of = t => e.info.cid = i.cid
  BY WarmTyped
<1>6. active[t] # Nobody => active[t] \in Info
  BY ActiveTyped
<1>7. \A v \in Tracked(t) : v.of = t /\ v.info \in Info /\ v \in Sandbox
  BY <1>5, <1>6 DEF Tracked, Sandbox
<1>8. \A v, w \in Tracked(t) : v.info.cid = w.info.cid
  BY <1>5 DEF Tracked
<1>9. lost' = lost \cup UNION {Forgotten(t, v.info) : v \in Tracked(t)}
  BY DEF Untrack
<1>10. {container[t]} \ {0, Foreign} \subseteq 1 .. MaxInfos /\ lost \subseteq 1 .. MaxInfos
  BY <1>1, AioNumbers DEF AioTypeOK
<1>11. lost' \subseteq 1 .. MaxInfos
  BY <1>4, <1>7, <1>9, <1>10
<1>12. made' = made => MapsOK'
  BY <1>1, <1>2 DEF MapsOK, Untrack, TablesOK
<1>13. \A u \in Threads \ {t} : active'[u] = active[u]
  BY <1>1 DEF Untrack, TablesOK
<1>14. ASSUME InMap(t) \/ InPool(t), container[t] \in (1 .. MaxInfos) \ lost'
       PROVE  \E v \in Tracked(t) : v.of = t /\ v.info.cid \in {0, container[t]}
  <2>1. CASE active[t] = Nobody
    <3>1. PICK e \in Members(warm) : e.of = t /\ e.info.cid \in {0, container[t]}
      BY <1>14, <2>1 DEF InMap, InPool
    <3>2. e.info \in WarmInfo(t)
      BY <1>1, <3>1, WarmEntries
    <3>3. PICK v : v = [of |-> t, info |-> e.info]
      OBVIOUS
    <3>4. v \in Tracked(t)
      BY <2>1, <3>2, <3>3 DEF Tracked
    <3> QED
      BY <3>1, <3>3, <3>4
  <2>2. CASE active[t] # Nobody
    <3>1. PICK v : v = [of |-> t, info |-> active[t]]
      OBVIOUS
    <3>2. v \in Tracked(t) /\ v.of = t /\ v.info = active[t]
      BY <2>2, <3>1 DEF Tracked
    <3>3. CASE WarmOf(t) = {}
      <4>1. ~InPool(t)
        BY <1>1, <3>3, WarmEntries DEF InPool
      <4> QED
        BY <1>14, <3>2, <4>1 DEF InMap
    <3>4. CASE WarmOf(t) # {}
      <4>1. Twice(t)
        BY <2>2, <3>4 DEF Twice
      <4>2. container[t] \notin {0, Foreign}
        BY <1>14, AioNumbers
      <4>3. v.info.cid \notin {0, container[t]} => container[t] \in lost'
        <5>1. v.info.cid \notin {0, container[t]} => container[t] \in Forgotten(t, v.info)
          BY <4>1, <4>2 DEF Forgotten
        <5> QED
          BY <1>9, <3>2, <5>1
      <4> QED
        BY <1>14, <3>2, <4>3
    <3> QED
      BY <3>3, <3>4
  <2> QED
    BY <2>1, <2>2
<1> QED
  BY <1>2, <1>3, <1>7, <1>8, <1>9, <1>11, <1>12, <1>13, <1>14

\* All of one thread, and of one container.
OfOne(V) == \A v, w \in V : v.of = w.of /\ v.info.cid = w.info.cid

LEMMA VictimFits ==
  ASSUME AioInv, NEW c \in Acquisitions, acq[c].at # "idle", NEW f \in AcqRecord,
         f.of = acq[c].of, f.post = acq[c].post, f.live = acq[c].live,
         f.next \in AfterStop, f.next \in Late => f.post, OfOne(f.victim)
  PROVE  AcqFits(c, "stop", f)
  BY DEF AcqFits, HoldsInfo, Late, OfOne

LEMMA GoesStop ==
  ASSUME AioInv, NEW c \in Acquisitions, NEW f \in AcqRecord, Goes(c, "stop", f)
  PROVE  acq'[c].victim = f.victim /\ \A d \in Acquisitions \ {c} : acq'[d] = acq[d]
<1>1. CallsOK /\ "stop" \in Units
  BY CallsTyped DEF AioInv, Units
<1>2. ~Awaits(c, "stop")
  BY DEF Awaits
<1> QED
  BY <1>1, <1>2, GoesCalls

LEMMA DropSandboxStep ==
  ASSUME AioInv, NEW c \in Acquisitions, DropSandbox(c)
  PROVE  AioInv'
<1>1. AioTypeOK /\ CallsOK /\ AcqOK(c) /\ MapsOK /\ StopsOK
  BY CallsTyped DEF AioInv
<1>2. /\ acq[c].at \in {"drop", "drop_warm"}
      /\ UNCHANGED <<container, made, faults, sweep, shut>>
  BY DEF DropSandbox, At
<1>3. PICK t \in Threads : t = acq[c].of
  BY <1>1, <1>2 DEF AcqOK
<1>4. AfterReclaim(c) \in Units /\ AfterReclaim(c) \in AfterStop /\ (AfterReclaim(c) \in Late => acq[c].post)
  BY DEF AfterReclaim, Units, Late, AfterStop
<1>5. PICK n \in AfterStop :
        /\ n \in Units
        /\ n = IF At(c, "drop") THEN "reclaim" ELSE AfterReclaim(c)
        /\ n \in Late => acq[c].post
        /\ AcqFits(c, n, acq[c])
  <2>1. AcqFits(c, "reclaim", acq[c]) /\ "reclaim" \in Units /\ "reclaim" \in AfterStop /\ "reclaim" \notin Late
    BY <1>2, StepFits DEF HoldsInfo, Late, Units, AfterStop
  <2>2. AcqFits(c, AfterReclaim(c), acq[c])
    BY <1>2, AfterReclaimFits
  <2> QED
    BY <1>4, <2>1, <2>2
<1>6. CASE ~StillTracked(c)
  <2>1. UNCHANGED <<active, idle, warm, lost>> /\ Goes(c, n, acq[c])
    BY <1>5, <1>6 DEF DropSandbox, maps, Step
  <2>2. idle' \in [Threads -> BOOLEAN] /\ made' \in made .. MaxInfos /\ faults' \in 0 .. MaxFaults
    BY <1>1, <1>2, <2>1, AioNumbers DEF AioTypeOK
  <2> QED
    BY <1>2, <1>5, <2>1, <2>2, PlainGoes
<1>7. CASE StillTracked(c)
  <2>1. Untrack(t) /\ Goes(c, "stop", [acq[c] EXCEPT !.next = n, !.victim = Tracked(t)])
    BY <1>3, <1>5, <1>7 DEF DropSandbox
  <2>2. /\ TablesOK' /\ lost \subseteq lost' /\ lost' \subseteq 1 .. MaxInfos
        /\ Tracked(t) \in SUBSET Sandbox
        /\ \A v, w \in Tracked(t) : v.of = w.of /\ v.info.cid = w.info.cid
        /\ MapsOK'
    BY <1>2, <2>1, UntrackOK
  <2>3. PICK f : f = [acq[c] EXCEPT !.next = n, !.victim = Tracked(t)]
    OBVIOUS
  <2>4. acq[c].at # "idle" /\ n \in AfterStop
    BY <1>2
  <2>5. PICK V \in SUBSET Sandbox : V = Tracked(t)
    BY <2>2
  <2>6. OfOne(V)
    BY <2>2, <2>5 DEF OfOne
  <2>7. n \in Late => acq[c].post
    BY <1>5
  <2>8. f = [acq[c] EXCEPT !.next = n, !.victim = V]
    BY <2>3, <2>5
  <2>9. acq[c] \in AcqRecord
    BY <1>1, CallsTyped DEF CallsOK
  <2>10. /\ f \in AcqRecord /\ f.of = acq[c].of /\ f.post = acq[c].post
        /\ f.live = acq[c].live /\ f.victim = V /\ f.next = n
    BY <2>9, <2>8 DEF AcqRecord, AfterStop, Units
  <2>11. AcqFits(c, "stop", f) /\ f.victim = V
    BY <2>4, <2>6, <2>7, <2>10, VictimFits
  <2>12. AcqFits(c, "stop", f) /\ f.victim = Tracked(t)
    BY <2>5, <2>11
  <2>13. AcqFits(c, "stop", f) /\ f.victim = Tracked(t) /\ f \in AcqRecord
    BY <2>12 DEF AcqFits
  <2>14. acq'[c].victim = Tracked(t) /\ \A d \in Acquisitions \ {c} : acq'[d] = acq[d]
    BY <2>1, <2>3, <2>13, GoesStop
  <2>15. Mild(c)
    BY <1>2, <2>2, AioNumbers DEF Mild
  <2>16. CallsOK' /\ \A d \in Acquisitions : AcqOK(d)'
    BY <2>1, <2>3, <2>13, <2>15, GoesOK DEF Units
  <2>17. WorldOK' /\ EndsOK' /\ StopsOK'
    BY <1>1, <1>2, <2>2, AioTypes DEF WorldOK, EndsOK, StopsOK
  <2>18. acq[c].victim = {} /\ acq[c].at # "ready"
    BY <1>1, <1>2 DEF AcqOK
  <2>19. ASSUME NEW u \in Threads
         PROVE  InStops(u) \/ InVictim(u) \/ Awaited(u) => Handled(u)'
    BY <1>2, <2>2, <2>14, <2>18, CareKept DEF TablesOK
  <2>20. ASSUME NEW u \in Threads \ {t}
         PROVE  InMap(u) \/ InPool(u) => Handled(u)'
    <3>1. active'[u] = active[u] /\ \A e \in Members(warm) : e.of = u => e \in Members(warm)'
      BY <2>1, UntrackOK
    <3> QED
      BY <1>2, <2>2, <3>1, EntriesKept DEF TablesOK
  <2>21. ASSUME InMap(t) \/ InPool(t), container[t] \in (1 .. MaxInfos) \ lost'
         PROVE  Handled(t)'
    <3>1. PICK v \in Tracked(t) : v.of = t /\ v.info.cid \in {0, container[t]}
      BY <2>1, <2>21, UntrackOK
    <3>2. InVictim(t)'
      BY <1>2, <2>14, <3>1 DEF InVictim
    <3> QED
      BY <2>2, <3>2, HandledHowNext DEF TablesOK
  <2>22. NothingLeaks'
    BY <1>2, <2>2, <2>19, <2>20, <2>21, StillHandled
  <2> QED
    BY <2>2, <2>16, <2>17, <2>22, AioTypesNext DEF AioInv
<1> QED
  BY <1>6, <1>7

\* docker stop: the container it was called for runs no more, or is lost.
LEMMA StopOK ==
  ASSUME AioInv, NEW v \in Sandbox, Stop(v)
  PROVE  /\ WorldOK' /\ made' = made /\ lost \subseteq lost'
         /\ \A u \in Threads : container'[u] \in {container[u], 0}
         /\ \A u \in Threads : u # v.of => container'[u] = container[u]
         /\ container'[v.of] \in (1 .. MaxInfos) \ lost' =>
               container'[v.of] = container[v.of] /\ v.info.cid \notin {0, container[v.of]}
<1>1. PICK t \in Threads : t = v.of
  BY DEF Sandbox
<1>2. WorldOK /\ container \in [Threads -> 0 .. Foreign] /\ 0 \in 0 .. Foreign
  BY AioTypes, AioNumbers DEF AioInv, WorldOK
<1>3. CASE /\ container' = IF v.info.cid \in {0, container[v.of]}
                           THEN [container EXCEPT ![v.of] = 0] ELSE container
           /\ UNCHANGED <<made, lost, faults>>
  <2>1. container' = IF v.info.cid \in {0, container[t]} THEN [container EXCEPT ![t] = 0] ELSE container
    BY <1>1, <1>3
  <2>2. container' \in [Threads -> 0 .. Foreign]
    BY <1>2, <2>1
  <2>3. WorldOK'
    BY <1>2, <1>3, <2>2 DEF WorldOK
  <2>4. v.info.cid \in {0, container[t]} => container'[t] = 0
    BY <1>2, <2>1
  <2>5. 0 \notin 1 .. MaxInfos
    BY AioNumbers
  <2> QED
    BY <1>1, <1>2, <1>3, <2>1, <2>3, <2>4, <2>5
<1>4. CASE /\ Fault
           /\ lost' = lost \cup ({container[v.of]} \ {0, Foreign})
           /\ UNCHANGED <<container, made>>
  <2>1. {container[t]} \ {0, Foreign} \subseteq 1 .. MaxInfos
    BY AioNumbers
  <2>2. faults' \in 0 .. MaxFaults
    BY <1>4, AioNumbers DEF Fault
  <2>3. WorldOK'
    BY <1>1, <1>2, <1>4, <2>1, <2>2 DEF WorldOK
  <2>4. container'[t] \in 1 .. MaxInfos => container[t] \notin {0, Foreign}
    BY <1>4, AioNumbers
  <2>5. container'[t] \in 1 .. MaxInfos => container'[t] \in lost'
    BY <1>1, <1>4, <2>4
  <2> QED
    BY <1>1, <1>4, <2>3, <2>5
<1> QED
  BY <1>3, <1>4 DEF Stop

LEMMA StopVictimStep ==
  ASSUME AioInv, NEW c \in Acquisitions, StopVictim(c)
  PROVE  AioInv'
<1>1. AioTypeOK /\ CallsOK /\ AcqOK(c) /\ MapsOK /\ StopsOK
  BY CallsTyped DEF AioInv
<1>2. /\ acq[c].at = "stop" /\ UNCHANGED <<active, idle, warm, sweep, shut>>
      /\ Goes(c, acq[c].next, [acq[c] EXCEPT !.victim = {}])
  BY DEF StopVictim, At, maps
<1>3. PICK v \in acq[c].victim : Stop(v)
  BY DEF StopVictim
<1>4. v \in Sandbox
  BY <1>1 DEF CallsOK, AcqRecord
<1>5. /\ WorldOK' /\ made' = made /\ lost \subseteq lost'
      /\ \A u \in Threads : container'[u] \in {container[u], 0}
      /\ \A u \in Threads : u # v.of => container'[u] = container[u]
      /\ container'[v.of] \in (1 .. MaxInfos) \ lost' =>
            container'[v.of] = container[v.of] /\ v.info.cid \notin {0, container[v.of]}
  BY <1>3, <1>4, StopOK
<1>6. PICK s \in AfterStop : s = acq[c].next
  BY <1>1, <1>2 DEF AcqOK
<1>7. PICK f : f = [acq[c] EXCEPT !.victim = {}]
  OBVIOUS
<1>8. /\ f \in AcqRecord /\ f.of = acq[c].of /\ f.post = acq[c].post /\ f.live = acq[c].live
      /\ f.victim = {}
  BY <1>1, <1>7 DEF CallsOK, AcqRecord
<1>9. s \in Units \cup {"idle"} /\ Goes(c, s, f)
  BY <1>2, <1>6, <1>7 DEF AfterStop, Units
<1>10. AcqFits(c, s, f)
  BY <1>1, <1>2, <1>6, <1>8 DEF AcqFits, AcqOK, AfterStop, HoldsInfo
<1>11. Mild(c)
  BY <1>5, AioNumbers DEF Mild
<1>12. CallsOK' /\ \A d \in Acquisitions : AcqOK(d)'
  BY <1>9, <1>10, <1>11, GoesOK
<1>13. \A d \in Acquisitions \ {c} : acq'[d] = acq[d]
  BY <1>1, <1>8, <1>9, GoesCalls
<1>14. TablesOK' /\ EndsOK'
  BY <1>1, <1>2, AioTypes DEF TablesOK, EndsOK
<1>15. MapsOK' /\ StopsOK'
  BY <1>1, <1>2, <1>5 DEF MapsOK, StopsOK, Members
<1>16. ASSUME NEW u \in Threads, container'[u] \in (1 .. MaxInfos) \ lost',
              InMap(u) \/ InPool(u) \/ InStops(u) \/ InVictim(u) \/ Awaited(u)
       PROVE  Handled(u)'
  <2>1. container'[u] = container[u]
    BY <1>5, <1>16, AioNumbers
  <2>2. \A w \in acq[c].victim : w.of = u => w.info.cid \notin {0, container[u]}
    BY <1>1, <1>3, <1>5, <1>16 DEF AcqOK
  <2>3. InMap(u) => InMap(u)'
    BY <1>2, <2>1 DEF InMap
  <2>4. InPool(u) => InPool(u)'
    BY <1>2, <2>1 DEF InPool, Members
  <2>5. InStops(u) => InStops(u)'
    BY <1>2, <2>1 DEF InStops
  <2>6. InVictim(u) => InVictim(u)'
    BY <1>13, <2>1, <2>2 DEF InVictim
  <2>7. Awaited(u) => Awaited(u)'
    BY <1>2, <1>13, <2>1 DEF Awaited
  <2> QED
    BY <1>14, <1>16, <2>3, <2>4, <2>5, <2>6, <2>7, HandledHowNext DEF TablesOK
<1>17. NothingLeaks'
  <2>1. \A u \in Threads : container'[u] \in (1 .. MaxInfos) \ lost' => container'[u] = container[u]
    BY <1>5, AioNumbers
  <2> QED
    BY <1>5, <1>16, <2>1, StillHandled
<1> QED
  BY <1>5, <1>12, <1>14, <1>15, <1>17, AioTypesNext DEF AioInv

\* An acquisition ends with its sandbox in the active map, under the container
\* that runs or in the place of nothing that does.
LEMMA RegisterStep ==
  ASSUME AioInv, NEW c \in Acquisitions, Over(c), acq[c].at # "stop",
         NEW t \in Threads, NEW i \in Info, i.cid <= made, Register(t, i),
         acq[c].at = "ready" => acq[c].of = t,
         \/ container[t] \notin (1 .. MaxInfos) \ lost'
         \/ i.cid \in {0, container[t]}
         \/ ~InMap(t) /\ ~InPool(t) /\ acq[c].at # "ready",
         warm' \in Seq(Sandbox), Members(warm)' \subseteq Members(warm),
         \A e \in Members(warm) : e.of # t => e \in Members(warm)',
         UNCHANGED <<container, made, sweep, shut>>,
         lost \subseteq lost', lost' \subseteq 1 .. MaxInfos, faults' \in 0 .. MaxFaults
  PROVE  AioInv'
<1>1. AioTypeOK /\ CallsOK /\ AcqOK(c) /\ MapsOK /\ StopsOK
  BY CallsTyped DEF AioInv
<1>2. active' = [active EXCEPT ![t] = i] /\ idle' = [idle EXCEPT ![t] = FALSE]
  BY DEF Register
<1>3. active'[t] = i /\ \A u \in Threads \ {t} : active'[u] = active[u]
  BY <1>1, <1>2 DEF AioTypeOK
<1>4. TablesOK'
  BY <1>1, <1>2 DEF AioTypeOK, TablesOK
<1>5. WorldOK' /\ EndsOK'
  BY <1>1, AioTypes DEF WorldOK, EndsOK
<1>6. MapsOK' /\ StopsOK'
  BY <1>1, <1>3 DEF MapsOK, StopsOK
<1>7. Mild(c)
  BY AioNumbers DEF Mild
<1>8. CallsOK' /\ \A d \in Acquisitions : AcqOK(d)'
  BY <1>7, OverOK
<1>9. acq[c].victim = {} /\ \A d \in Acquisitions \ {c} : acq'[d] = acq[d]
  BY <1>1, OverCalls DEF AcqOK
<1>10. ASSUME NEW u \in Threads, u # t \/ acq[c].at # "ready"
       PROVE  InStops(u) \/ InVictim(u) \/ Awaited(u) => Handled(u)'
  <2>1. InStops(u) => InStops(u)'
    BY DEF InStops
  <2>2. InVictim(u) => InVictim(u)'
    BY <1>9 DEF InVictim
  <2>3. Awaited(u) => Awaited(u)'
    BY <1>9, <1>10 DEF Awaited
  <2> QED
    BY <1>4, <2>1, <2>2, <2>3, HandledHowNext DEF TablesOK
<1>11. ASSUME NEW u \in Threads \ {t}
       PROVE  InMap(u) \/ InPool(u) => Handled(u)'
  BY <1>3, EntriesKept
<1>12. i.cid \in {0, container[t]} => Handled(t)'
  <2>1. i # Nobody
    BY AioNumbers
  <2>2. i.cid \in {0, container[t]} => InMap(t)'
    BY <1>3, <2>1 DEF InMap
  <2> QED
    BY <1>4, <2>2, HandledHowNext DEF TablesOK
<1>13. NothingLeaks'
  BY <1>10, <1>11, <1>12, StillHandled
<1> QED
  BY <1>4, <1>5, <1>6, <1>8, <1>13, AioTypesNext DEF AioInv

LEMMA RegisterDiscoveredStep ==
  ASSUME AioInv, NEW c \in Acquisitions, RegisterDiscovered(c)
  PROVE  AioInv'
<1>1. AioTypeOK /\ AcqOK(c)
  BY DEF AioInv
<1>2. /\ acq[c].at = "register" /\ Register(acq[c].of, acq[c].info) /\ Over(c)
      /\ UNCHANGED <<warm, container, made, lost, faults, sweep, shut>>
  BY DEF RegisterDiscovered, At, world
<1>3. PICK t \in Threads, i \in Info : /\ t = acq[c].of /\ i = acq[c].info
                                       /\ i.cid = 0 /\ i.cid <= made
  BY <1>1, <1>2 DEF AcqOK, HoldsInfo
<1>4. /\ warm' \in Seq(Sandbox) /\ Members(warm)' = Members(warm)
      /\ lost' \subseteq 1 .. MaxInfos /\ faults' \in 0 .. MaxFaults
  BY <1>1, <1>2 DEF AioTypeOK, Members
<1> QED
  BY <1>2, <1>3, <1>4, RegisterStep

LEMMA ReadyStep ==
  ASSUME AioInv, NEW c \in Acquisitions, Ready(c)
  PROVE  AioInv'
<1>1. AioTypeOK /\ CallsOK /\ AcqOK(c) /\ MapsOK /\ StopsOK
  BY CallsTyped DEF AioInv
<1>2. acq[c].at = "ready" /\ UNCHANGED <<warm, container, made, lost, sweep, shut>>
  BY DEF Ready, At
<1>3. PICK t \in Threads, i \in Info :
        /\ t = acq[c].of /\ i = acq[c].info /\ i.cid <= made
        /\ i.cid = 0 \/ container[t] \in {i.cid, 0, Foreign} \cup lost
  BY <1>1, <1>2 DEF AcqOK, HoldsInfo, Ours
<1>4. /\ warm' \in Seq(Sandbox) /\ Members(warm)' = Members(warm)
      /\ lost' \subseteq 1 .. MaxInfos
  BY <1>1, <1>2 DEF AioTypeOK, Members
<1>5. CASE Register(acq[c].of, acq[c].info) /\ Over(c) /\ UNCHANGED faults
  <2>1. container[t] \notin (1 .. MaxInfos) \ lost' \/ i.cid \in {0, container[t]}
    BY <1>2, <1>3, AioNumbers
  <2>2. faults' \in 0 .. MaxFaults
    BY <1>1, <1>5 DEF AioTypeOK
  <2> QED
    BY <1>2, <1>3, <1>4, <1>5, <2>1, <2>2, RegisterStep
<1>6. CASE /\ Fault /\ UNCHANGED <<active, idle>>
           /\ Goes(c, "stop", [acq[c] EXCEPT !.next = "idle",
                                  !.victim = {[of |-> acq[c].of, info |-> acq[c].info]}])
  <2>1. PICK v \in Sandbox : v = [of |-> t, info |-> i]
    BY DEF Sandbox
  <2>2. PICK V \in SUBSET Sandbox : V = {v}
    OBVIOUS
  <2>3. PICK f : f = [acq[c] EXCEPT !.next = "idle", !.victim = V]
    OBVIOUS
  <2>4. Goes(c, "stop", f)
    BY <1>3, <1>6, <2>1, <2>2, <2>3
  <2>5. acq[c].at # "idle" /\ "idle" \in AfterStop /\ "idle" \notin Late
    BY <1>2 DEF AfterStop, Late
  <2>6. OfOne(V)
    BY <2>2 DEF OfOne
  <2>7. acq[c] \in AcqRecord
    BY <1>1, CallsTyped DEF CallsOK
  <2>8. /\ f \in AcqRecord /\ f.of = acq[c].of /\ f.post = acq[c].post
        /\ f.live = acq[c].live /\ f.victim = V /\ f.next = "idle"
    BY <2>7, <2>3 DEF AcqRecord, AfterStop, Units
  <2>9. AcqFits(c, "stop", f) /\ f.victim = V
    BY <2>5, <2>6, <2>8, VictimFits
  <2>10. acq'[c].victim = V /\ \A d \in Acquisitions \ {c} : acq'[d] = acq[d]
    BY <2>4, <2>9, GoesStop DEF AcqFits
  <2>11. Mild(c)
    BY <1>2, AioNumbers DEF Mild
  <2>12. CallsOK' /\ \A d \in Acquisitions : AcqOK(d)'
    BY <2>4, <2>9, <2>11, GoesOK DEF Units
  <2>13. faults' \in 0 .. MaxFaults
    BY <1>6, AioNumbers DEF Fault
  <2>14. WorldOK' /\ TablesOK' /\ EndsOK' /\ MapsOK' /\ StopsOK'
    BY <1>1, <1>2, <1>4, <1>6, <2>13, AioTypes DEF WorldOK, TablesOK, EndsOK, MapsOK, StopsOK
  <2>15. ASSUME NEW u \in Threads,
                InMap(u) \/ InPool(u) \/ InStops(u) \/ InVictim(u) \/ Awaited(u)
         PROVE  Handled(u)'
    <3>1. InMap(u) => InMap(u)'
      BY <1>2, <1>6 DEF InMap
    <3>2. InPool(u) => InPool(u)'
      BY <1>2, <1>4 DEF InPool
    <3>3. InStops(u) => InStops(u)'
      BY <1>2 DEF InStops
    <3>4. acq[c].victim = {}
      BY <1>1, <1>2 DEF AcqOK
    <3>5. InVictim(u) => InVictim(u)'
      BY <1>2, <2>10, <3>4 DEF InVictim
    <3>6. v \in acq'[c].victim /\ v.of = acq[c].of /\ v.info = acq[c].info
      BY <1>3, <2>1, <2>2, <2>10
    <3>7. acq[c].of = u /\ acq[c].info.cid = container[u] => InVictim(u)'
      BY <1>2, <3>6 DEF InVictim
    <3>8. Awaited(u) => Awaited(u)' \/ InVictim(u)'
      BY <1>2, <2>10, <3>7 DEF Awaited
    <3> QED
      BY <1>4, <2>15, <3>1, <3>2, <3>3, <3>5, <3>8, HandledHowNext
  <2>16. NothingLeaks'
    BY <1>2, <2>15, StillHandled
  <2> QED
    BY <2>12, <2>14, <2>16, AioTypesNext DEF AioInv
<1> QED
  BY <1>5, <1>6 DEF Ready

LEMMA ForgottenTyped ==
  ASSUME AioInv, NEW t \in Threads, NEW i
  PROVE  Forgotten(t, i) \subseteq 1 .. MaxInfos
<1>1. {container[t]} \ {0, Foreign} \subseteq 1 .. MaxInfos
  BY AioNumbers
<1> QED
  BY <1>1 DEF Forgotten

LEMMA ConfirmWarmStep ==
  ASSUME AioInv, NEW c \in Acquisitions, ConfirmWarm(c)
  PROVE  AioInv'
<1>1. AioTypeOK /\ AcqOK(c) /\ warm \in Seq(Sandbox)
  BY DEF AioInv, AioTypeOK
<1>2. acq[c].at = "confirm_warm" /\ UNCHANGED <<container, made, faults, sweep, shut>>
  BY DEF ConfirmWarm, At
<1>3. PICK t \in Threads : t = acq[c].of
  BY <1>1, <1>2 DEF AcqOK
<1>4. CASE UNCHANGED <<maps, lost>> /\ Step(c, AfterReclaim(c))
  <2>1. UNCHANGED <<active, idle, warm, lost>>
    BY <1>4 DEF maps
  <2>2. idle' \in [Threads -> BOOLEAN] /\ made' \in made .. MaxInfos /\ faults' \in 0 .. MaxFaults
    BY <1>1, <1>2, <2>1, AioNumbers DEF AioTypeOK
  <2> QED
    BY <1>2, <1>4, <2>1, <2>2, AfterReclaimFits, PlainGoes DEF Step
<1>5. CASE \E i \in WarmInfo(t) : /\ Register(t, i) /\ warm' = Drained(t) /\ Over(c)
                                  /\ lost' = lost \cup Forgotten(t, i)
  <2>1. PICK i \in WarmInfo(t) : /\ Register(t, i) /\ warm' = Drained(t) /\ Over(c)
                                 /\ lost' = lost \cup Forgotten(t, i)
    BY <1>5
  <2>2. /\ i \in Info /\ i.cid <= made
        /\ \E e \in Members(warm) : e.of = t /\ e.info = i
        /\ \A e \in Members(warm) : e.of = t => e.info.cid = i.cid
    BY WarmTyped
  <2>3. lost \subseteq lost' /\ lost' \subseteq 1 .. MaxInfos
    <3>1. lost \subseteq 1 .. MaxInfos /\ Forgotten(t, i) \subseteq 1 .. MaxInfos
      BY <1>1, ForgottenTyped DEF AioTypeOK
    <3> QED
      BY <2>1, <3>1
  <2>4. warm' \in Seq(Sandbox) /\ Members(warm)' = {e \in Members(warm) : e.of # t}
    <3>1. Members(warm)' = Members(Drained(t))
      BY <2>1 DEF Members
    <3> QED
      BY <1>1, <2>1, <3>1, DrainedWarm
  <2>5. \/ container[t] \notin (1 .. MaxInfos) \ lost'
        \/ i.cid \in {0, container[t]}
        \/ ~InMap(t) /\ ~InPool(t)
    <3> SUFFICES ASSUME container[t] \in (1 .. MaxInfos) \ lost', i.cid \notin {0, container[t]}
                 PROVE  ~InMap(t) /\ ~InPool(t)
      OBVIOUS
    <3>1. ~InPool(t)
      BY <2>2 DEF InPool
    <3>2. WarmOf(t) # {}
      BY <1>1, <2>2, WarmEntries
    <3>3. container[t] \notin {0, Foreign}
      BY AioNumbers
    <3>4. Twice(t) => container[t] \in Forgotten(t, i)
      BY <3>3 DEF Forgotten
    <3>5. ~Twice(t)
      BY <2>1, <3>4
    <3> QED
      BY <3>1, <3>2, <3>5 DEF Twice, InMap
  <2>6. faults' \in 0 .. MaxFaults
    BY <1>1, <1>2 DEF AioTypeOK
  <2> QED
    BY <1>2, <2>1, <2>2, <2>3, <2>4, <2>5, <2>6, RegisterStep
<1> QED
  BY <1>3, <1>4, <1>5 DEF ConfirmWarm

\* The oldest entries of a sequence, and the rest.
LEMMA SplitMembers ==
  ASSUME NEW S, NEW s \in Seq(S), NEW n \in 0 .. Len(s)
  PROVE  /\ SubSeq(s, n + 1, Len(s)) \in Seq(S)
         /\ Members(SubSeq(s, n + 1, Len(s))) = {s[i] : i \in (n + 1) .. Len(s)}
         /\ Members(s) = Members(SubSeq(s, n + 1, Len(s))) \cup {s[i] : i \in 1 .. n}
<1>1. Len(s) \in Nat /\ n \in Nat /\ n <= Len(s)
  OBVIOUS
<1>2. PICK w : w = SubSeq(s, n + 1, Len(s))
  OBVIOUS
<1>3. /\ w \in Seq(S) /\ Len(w) = Len(s) - n
      /\ \A i \in 1 .. Len(w) : w[i] = s[n + i]
  BY <1>1, <1>2
<1>4. Members(w) = {s[i] : i \in (n + 1) .. Len(s)}
  <2>1. \A i \in 1 .. Len(w) : n + i \in (n + 1) .. Len(s)
    BY <1>1, <1>3
  <2>2. \A i \in (n + 1) .. Len(s) : i - n \in 1 .. Len(w) /\ s[i] = w[i - n]
    BY <1>1, <1>3
  <2> QED
    BY <1>3, <2>1, <2>2 DEF Members
<1>5. \A i \in 1 .. Len(s) : i \in 1 .. n \/ i \in (n + 1) .. Len(s)
  BY <1>1
<1>6. \A i \in Nat : i \in 1 .. n \/ i \in (n + 1) .. Len(s) => i \in 1 .. Len(s)
  BY <1>1
<1>7. Members(s) = {s[i] : i \in (n + 1) .. Len(s)} \cup {s[i] : i \in 1 .. n}
  BY <1>1, <1>5, <1>6 DEF Members
<1> QED
  BY <1>2, <1>3, <1>4, <1>7

LEMMA TailMembers ==
  ASSUME NEW S, NEW s \in Seq(S), s # <<>>
  PROVE  /\ Tail(s) \in Seq(S) /\ Head(s) \in S
         /\ Members(s) = Members(Tail(s)) \cup {Head(s)}
<1>1. Len(s) \in Nat /\ 1 \in 0 .. Len(s)
  OBVIOUS
<1>2. Tail(s) = SubSeq(s, 2, Len(s)) /\ Head(s) = s[1] /\ Head(s) \in S
  BY <1>1
<1>3. {s[i] : i \in 1 .. 1} = {s[1]}
  OBVIOUS
<1>4. /\ SubSeq(s, 1 + 1, Len(s)) \in Seq(S)
      /\ Members(s) = Members(SubSeq(s, 1 + 1, Len(s))) \cup {s[i] : i \in 1 .. 1}
  BY <1>1, SplitMembers
<1>5. 1 + 1 = 2
  OBVIOUS
<1> QED
  BY <1>2, <1>3, <1>4, <1>5

LEMMA EvictOldestStep ==
  ASSUME AioInv, NEW c \in Acquisitions, EvictOldest(c)
  PROVE  AioInv'
<1>1. AioTypeOK /\ CallsOK /\ AcqOK(c) /\ MapsOK /\ StopsOK /\ warm \in Seq(Sandbox)
  BY CallsTyped DEF AioInv, AioTypeOK
<1>2. acq[c].at = "evict" /\ UNCHANGED <<active, idle, container, made, lost, faults, sweep, shut>>
  BY DEF EvictOldest, At, world
<1>3. acq[c].post
  BY <1>1, <1>2 DEF AcqOK, Late
<1>4. CASE warm = <<>>
  <2>1. UNCHANGED warm /\ Goes(c, "create", acq[c])
    BY <1>4 DEF EvictOldest, Step
  <2>2. AcqFits(c, "create", acq[c])
    BY <1>2, <1>3, StepFits DEF HoldsInfo, Units
  <2>3. idle' \in [Threads -> BOOLEAN] /\ made' \in made .. MaxInfos /\ faults' \in 0 .. MaxFaults
    BY <1>1, <1>2, AioNumbers DEF AioTypeOK
  <2> QED
    BY <1>2, <2>1, <2>2, <2>3, PlainGoes DEF Units
<1>5. CASE warm # <<>>
  <2>1. /\ warm' = Tail(warm)
        /\ Goes(c, "stop", [acq[c] EXCEPT !.next = "create", !.victim = {Head(warm)}])
    BY <1>5 DEF EvictOldest
  <2>2. PICK v \in Sandbox : v = Head(warm)
    BY <1>1, <1>5, TailMembers
  <2>3. warm' \in Seq(Sandbox) /\ Members(warm) = Members(warm)' \cup {v}
    <3>1. Members(warm)' = Members(Tail(warm))
      BY <2>1 DEF Members
    <3> QED
      BY <1>1, <1>5, <2>1, <2>2, <3>1, TailMembers
  <2>4. PICK V \in SUBSET Sandbox : V = {v}
    OBVIOUS
  <2>5. PICK f : f = [acq[c] EXCEPT !.next = "create", !.victim = V]
    OBVIOUS
  <2>6. Goes(c, "stop", f)
    BY <2>1, <2>2, <2>4, <2>5
  <2>7. acq[c].at # "idle" /\ "create" \in AfterStop
    BY <1>2 DEF AfterStop
  <2>8. OfOne(V)
    BY <2>4 DEF OfOne
  <2>9. acq[c] \in AcqRecord
    BY <1>1, CallsTyped DEF CallsOK
  <2>10. /\ f \in AcqRecord /\ f.of = acq[c].of /\ f.post = acq[c].post
        /\ f.live = acq[c].live /\ f.victim = V /\ f.next = "create"
    BY <2>9, <2>5 DEF AcqRecord, AfterStop, Units
  <2>11. AcqFits(c, "stop", f) /\ f.victim = V
    BY <1>3, <2>7, <2>8, <2>10, VictimFits
  <2>12. acq'[c].victim = V /\ \A d \in Acquisitions \ {c} : acq'[d] = acq[d]
    BY <2>6, <2>11, GoesStop DEF AcqFits
  <2>13. Mild(c)
    BY <1>2, AioNumbers DEF Mild
  <2>14. CallsOK' /\ \A d \in Acquisitions : AcqOK(d)'
    BY <2>6, <2>11, <2>13, GoesOK DEF Units
  <2>15. WorldOK' /\ TablesOK' /\ EndsOK' /\ MapsOK' /\ StopsOK'
    BY <1>1, <1>2, <2>3, AioTypes DEF WorldOK, TablesOK, EndsOK, MapsOK, StopsOK
  <2>16. ASSUME NEW u \in Threads,
                InMap(u) \/ InPool(u) \/ InStops(u) \/ InVictim(u) \/ Awaited(u)
         PROVE  Handled(u)'
    <3>1. InMap(u) => InMap(u)'
      BY <1>2 DEF InMap
    <3>2. InPool(u) => InPool(u)' \/ InVictim(u)'
      BY <1>2, <2>3, <2>4, <2>12 DEF InPool, InVictim
    <3>3. acq[c].victim = {} /\ acq[c].at # "ready"
      BY <1>1, <1>2 DEF AcqOK
    <3>4. InStops(u) \/ InVictim(u) \/ Awaited(u) => Handled(u)'
      BY <1>2, <2>3, <2>12, <3>3, CareKept
    <3> QED
      BY <2>3, <2>16, <3>1, <3>2, <3>4, HandledHowNext
  <2>17. NothingLeaks'
    BY <1>2, <2>16, StillHandled
  <2> QED
    BY <2>14, <2>15, <2>17, AioTypesNext DEF AioInv
<1> QED
  BY <1>4, <1>5

LEMMA CreateContainerStep ==
  ASSUME AioInv, NEW c \in Acquisitions, CreateContainer(c)
  PROVE  AioInv'
<1>1. AioTypeOK /\ CallsOK /\ AcqOK(c) /\ MapsOK /\ StopsOK /\ warm \in Seq(Sandbox)
  BY CallsTyped DEF AioInv, AioTypeOK
<1>2. acq[c].at = "create" /\ UNCHANGED <<active, idle, warm, sweep, shut>>
  BY DEF CreateContainer, At, maps
<1>3. PICK t \in Threads : t = acq[c].of /\ acq[c].post
  BY <1>1, <1>2 DEF AcqOK, Late
<1>4. CASE Fault /\ Over(c) /\ UNCHANGED <<container, made, lost>>
  <2>1. idle' \in [Threads -> BOOLEAN] /\ made' \in made .. MaxInfos /\ faults' \in 0 .. MaxFaults
    BY <1>1, <1>2, <1>4, AioNumbers DEF AioTypeOK, Fault
  <2> QED
    BY <1>2, <1>4, <2>1, PlainOver
<1>5. CASE /\ made < MaxInfos /\ made' = made + 1
           /\ container' = [container EXCEPT ![t] = IF @ = 0 THEN made + 1 ELSE @]
           /\ Goes(c, "ready", [acq[c] EXCEPT !.info = NewInfo(IF container[t] = 0 THEN made + 1 ELSE 0)])
           /\ lost' = lost \cup (IF acq[c].live \/ container[t] # 0 THEN {} ELSE {made + 1})
           /\ UNCHANGED faults
  <2>1. made \in Nat /\ made + 1 \in 1 .. MaxInfos /\ MaxInfos \in Nat /\ Foreign = MaxInfos + 1
    BY <1>5, AioNumbers
  <2>2. PICK k \in 0 .. MaxInfos : k = IF container[t] = 0 THEN made + 1 ELSE 0
    BY <2>1
  <2>3. PICK i : i = NewInfo(k)
    OBVIOUS
  <2>4. i \in Info /\ i.cid = k
    BY <2>1, <2>2, <2>3 DEF NewInfo, Info
  <2>5. PICK n \in 0 .. Foreign : n = IF container[t] = 0 THEN made + 1 ELSE container[t]
    BY <2>1, AioNumbers
  <2>6. container' = [container EXCEPT ![t] = n]
    BY <1>1, <1>5, <2>5 DEF AioTypeOK
  <2>7. container'[t] = n /\ \A u \in Threads \ {t} : container'[u] = container[u]
    BY <1>1, <2>6 DEF AioTypeOK
  <2>8. lost' \subseteq 1 .. MaxInfos /\ lost \subseteq lost'
    <3>1. lost \subseteq 1 .. MaxInfos
      BY <1>1 DEF AioTypeOK
    <3> QED
      BY <1>5, <2>1, <3>1
  <2>9. WorldOK'
    <3>1. container' \in [Threads -> 0 .. Foreign]
      BY <1>1, <2>6 DEF AioTypeOK
    <3>2. made' \in 0 .. MaxInfos /\ faults' \in 0 .. MaxFaults
      BY <1>1, <1>5, <2>1 DEF AioTypeOK
    <3> QED
      BY <2>8, <3>1, <3>2 DEF WorldOK
  <2>10. Mild(c)
    <3>1. acq[c].live => filelock[t] = c
      BY <1>1, <1>3 DEF AcqOK
    <3>2. container[t] = 0 => made + 1 \in lost' \/ filelock[t] = c
      BY <1>5, <3>1
    <3> QED
      BY <1>5, <2>1, <2>5, <2>7, <2>8, <3>2 DEF Mild
  <2>11. PICK f : f = [acq[c] EXCEPT !.info = i]
    OBVIOUS
  <2>12. /\ f \in AcqRecord /\ f.of = acq[c].of /\ f.post = acq[c].post /\ f.live = acq[c].live
         /\ f.victim = acq[c].victim /\ f.info = i
    BY <1>1, <2>4, <2>11 DEF CallsOK, AcqRecord
  <2>13. Goes(c, "ready", f)
    BY <1>5, <2>2, <2>3, <2>11
  <2>14. i.cid = 0 \/ container'[t] = i.cid
    BY <2>2, <2>4, <2>5, <2>7
  <2>15. i.cid <= made'
    BY <1>5, <2>1, <2>2, <2>4
  <2>16. AcqFits(c, "ready", f)
    BY <1>1, <1>2, <1>3, <2>4, <2>12, <2>14, <2>15 DEF AcqFits, AcqOK, HoldsInfo, Late
  <2>17. CallsOK' /\ \A d \in Acquisitions : AcqOK(d)'
    BY <2>10, <2>13, <2>16, GoesOK DEF Units
  <2>18. \A d \in Acquisitions \ {c} : acq'[d] = acq[d]
    BY <1>1, <2>12, <2>13, GoesCalls DEF Units
  <2>19. TablesOK' /\ EndsOK' /\ StopsOK'
    BY <1>1, <1>2, AioTypes DEF TablesOK, EndsOK, StopsOK
  <2>20. MapsOK'
    <3>1. \A u \in Threads : active[u] # Nobody => active[u].cid \in Nat /\ active[u].cid <= made
      BY ActiveTyped
    <3>2. \A e \in Members(warm) : e.info.cid \in Nat /\ e.info.cid <= made
      BY <1>1, PoolTyped DEF MapsOK
    <3>3. Members(warm)' = Members(warm)
      BY <1>2 DEF Members
    <3> QED
      BY <1>1, <1>2, <1>5, <2>1, <3>1, <3>2, <3>3 DEF MapsOK
  <2>21. ASSUME NEW u \in Threads, container'[u] = container[u]
         PROVE  InMap(u) \/ InPool(u) \/ InStops(u) \/ InVictim(u) \/ Awaited(u) => Handled(u)'
    <3>1. acq[c].victim = {} /\ acq[c].at # "ready"
      BY <1>1, <1>2 DEF AcqOK
    <3>2. warm' \in Seq(Sandbox) /\ Members(warm)' = Members(warm)
      BY <1>1, <1>2 DEF Members
    <3>3. InStops(u) \/ InVictim(u) \/ Awaited(u) => Handled(u)'
      BY <1>2, <2>18, <2>21, <3>1, <3>2, CareKept
    <3>4. InMap(u) \/ InPool(u) => Handled(u)'
      BY <1>2, <2>21, <3>2, EntriesKept
    <3> QED
      BY <3>3, <3>4
  <2>22. ASSUME container'[t] # container[t], container'[t] \notin lost'
         PROVE  Handled(t)'
    <3>1. container[t] = 0 /\ container'[t] = made + 1 /\ i.cid = made + 1
      BY <2>2, <2>4, <2>5, <2>7, <2>22
    <3>2. acq[c].live
      BY <1>5, <2>22, <3>1
    <3>3. acq'[c].at = "ready" /\ acq'[c].of = t /\ acq'[c].info = i
      BY <1>1, <1>3, <2>12, <2>13, <3>2, GoesCalls DEF Units, HoldsInfo
    <3>4. Awaited(t)'
      BY <3>1, <3>3 DEF Awaited
    <3> QED
      BY <1>1, <1>2, <3>4, HandledHowNext
  <2>23. NothingLeaks'
    BY <2>7, <2>8, <2>21, <2>22, StillHandled
  <2> QED
    BY <2>9, <2>17, <2>19, <2>20, <2>23, AioTypesNext DEF AioInv
<1> QED
  BY <1>3, <1>4, <1>5 DEF CreateContainer

LEMMA ReleaseSandboxStep ==
  ASSUME AioInv, NEW t \in Threads, ReleaseSandbox(t)
  PROVE  AioInv'
<1>1. AioTypeOK /\ CallsOK /\ MapsOK /\ StopsOK /\ warm \in Seq(Sandbox)
  BY CallsTyped DEF AioInv, AioTypeOK
<1>2. /\ active[t] # Nobody /\ active' = [active EXCEPT ![t] = Nobody]
      /\ idle' = [idle EXCEPT ![t] = FALSE] /\ warm' = Parked(t)
      /\ lost' = lost \cup UNION {Forgotten(t, i) : i \in WarmInfo(t)}
      /\ UNCHANGED <<container, made, faults, locked, filelock, acq, sweep, shut>>
  BY DEF ReleaseSandbox, calls
<1>3. PICK e \in Sandbox : e = [of |-> t, info |-> active[t]] /\ e.info.cid <= made
  <2>1. active[t] \in Info /\ active[t].cid <= made
    BY <1>2, ActiveTyped
  <2>2. PICK e : e = [of |-> t, info |-> active[t]]
    OBVIOUS
  <2>3. e \in Sandbox /\ e.info = active[t]
    BY <2>1, <2>2 DEF Sandbox
  <2> QED
    BY <2>1, <2>2, <2>3
<1>4. warm' = IF WarmOf(t) # {} THEN warm ELSE Append(warm, e)
  BY <1>2, <1>3 DEF Parked
<1>5. Members(warm)' = IF WarmOf(t) # {} THEN Members(warm) ELSE Members(warm) \cup {e}
  <2>1. CASE WarmOf(t) # {}
    BY <1>4, <2>1 DEF Members
  <2>2. CASE WarmOf(t) = {}
    <3>1. Members(warm)' = Members(Append(warm, e))
      BY <1>4, <2>2 DEF Members
    <3> QED
      BY <1>1, <2>2, <3>1, AppendAdds
  <2> QED
    BY <2>1, <2>2
<1>6. warm' \in Seq(Sandbox)
  BY <1>1, <1>4
<1>7. WarmOf(t) = {} => \A f \in Members(warm) : f.of # t
  BY <1>1, WarmEntries
<1>8. lost \subseteq lost' /\ lost' \subseteq 1 .. MaxInfos
  <2>1. lost \subseteq 1 .. MaxInfos /\ \A i \in WarmInfo(t) : Forgotten(t, i) \subseteq 1 .. MaxInfos
    BY <1>1, ForgottenTyped DEF AioTypeOK
  <2> QED
    BY <1>2, <2>1
<1>9. TablesOK'
  BY <1>1, <1>2, <1>6 DEF AioTypeOK, TablesOK
<1>10. WorldOK' /\ EndsOK' /\ StopsOK'
  BY <1>1, <1>2, <1>8, AioTypes DEF WorldOK, EndsOK, StopsOK
<1>11. \A u \in Threads \ {t} : active'[u] = active[u]
  BY <1>1, <1>2 DEF AioTypeOK
<1>12. active'[t] = Nobody
  BY <1>1, <1>2 DEF AioTypeOK
<1>13. MapsOK'
  <2>1. e.of = t
    BY <1>3
  <2> QED
    BY <1>1, <1>2, <1>3, <1>5, <1>7, <1>11, <1>12, <2>1 DEF MapsOK
<1>14. CallsOK' /\ \A d \in Acquisitions : AcqOK(d)'
  BY <1>2, <1>8, AioNumbers, CallsKept
<1>15. ASSUME NEW u \in Threads
       PROVE  /\ InStops(u) \/ InVictim(u) \/ Awaited(u) => Handled(u)'
              /\ u # t => (InMap(u) \/ InPool(u) => Handled(u)')
  <2>1. InStops(u) \/ InVictim(u) \/ Awaited(u) => Handled(u)'
    BY <1>2, <1>6, CareKept
  <2>2. \A f \in Members(warm) : f \in Members(warm)'
    BY <1>5
  <2>3. u # t => (InMap(u) \/ InPool(u) => Handled(u)')
    BY <1>2, <1>6, <1>11, <2>2, EntriesKept
  <2> QED
    BY <2>1, <2>3
<1>16. ASSUME InMap(t) \/ InPool(t), container'[t] \in (1 .. MaxInfos) \ lost'
       PROVE  Handled(t)'
  <2>1. InPool(t) => InPool(t)'
    BY <1>2, <1>5 DEF InPool
  <2>2. CASE WarmOf(t) = {}
    <3>1. InMap(t) => InPool(t)'
      BY <1>2, <1>3, <1>5, <2>2 DEF InMap, InPool
    <3> QED
      BY <1>6, <1>16, <2>1, <3>1, HandledHowNext
  <2>3. CASE WarmOf(t) # {}
    <3>1. PICK f \in Members(warm) : f.of = t
      BY <1>1, <2>3, WarmEntries
    <3>2. f.info \in WarmInfo(t)
      BY <1>1, <3>1, WarmEntries
    <3>3. Twice(t)
      BY <1>2, <2>3 DEF Twice
    <3>4. container[t] \notin {0, Foreign}
      BY <1>2, <1>16, AioNumbers
    <3>5. f.info.cid \notin {0, container[t]} => container[t] \in Forgotten(t, f.info)
      BY <3>3, <3>4 DEF Forgotten
    <3>6. f.info.cid \in {0, container[t]}
      BY <1>2, <1>16, <3>2, <3>5
    <3>7. InPool(t)
      BY <3>1, <3>6 DEF InPool
    <3> QED
      BY <1>6, <2>1, <3>7, HandledHowNext
  <2> QED
    BY <2>2, <2>3
<1>17. NothingLeaks'
  BY <1>2, <1>8, <1>15, <1>16, StillHandled
<1> QED
  BY <1>9, <1>10, <1>13, <1>14, <1>17, AioTypesNext DEF AioInv

\* Steps that change neither the maps nor the acquisitions: the runtime stops or
\* loses a container, or starts a foreign one.
LEMMA OutsideStep ==
  ASSUME AioInv, UNCHANGED <<active, warm, locked, filelock, acq>>, idle' \in [Threads -> BOOLEAN],
         WorldOK', made' = made, lost \subseteq lost',
         \A t \in Threads : container'[t] \in {container[t], 0, Foreign},
         EndsOK', StopsOK',
         \A v \in sweep.stops \cup shut.stops :
            \/ v \in sweep'.stops \cup shut'.stops
            \/ container'[v.of] \notin (1 .. MaxInfos) \ lost'
            \/ v.info.cid \notin {0, container[v.of]}
  PROVE  AioInv'
<1>1. AioTypeOK /\ CallsOK /\ MapsOK /\ warm \in Seq(Sandbox)
  BY CallsTyped DEF AioInv, AioTypeOK
<1>2. TablesOK' /\ warm' \in Seq(Sandbox)
  BY <1>1 DEF AioTypeOK, TablesOK
<1>3. MapsOK'
  BY <1>1 DEF MapsOK, Members
<1>4. CallsOK' /\ \A d \in Acquisitions : AcqOK(d)'
  BY AioNumbers, CallsKept
<1>5. \A u \in Threads : container'[u] \in (1 .. MaxInfos) \ lost' => container'[u] = container[u]
  BY AioNumbers
<1>6. ASSUME NEW u \in Threads, container'[u] \in (1 .. MaxInfos) \ lost',
             InMap(u) \/ InPool(u) \/ InStops(u) \/ InVictim(u) \/ Awaited(u)
      PROVE  Handled(u)'
  <2>1. container'[u] = container[u]
    BY <1>5, <1>6
  <2>2. InMap(u) => InMap(u)'
    BY <2>1 DEF InMap
  <2>3. InPool(u) => InPool(u)'
    BY <2>1 DEF InPool, Members
  <2>4. InStops(u) => InStops(u)'
    BY <1>6, <2>1 DEF InStops
  <2>5. InVictim(u) => InVictim(u)'
    BY <2>1 DEF InVictim
  <2>6. Awaited(u) => Awaited(u)'
    BY <2>1 DEF Awaited
  <2> QED
    BY <1>2, <1>6, <2>2, <2>3, <2>4, <2>5, <2>6, HandledHowNext
<1>7. NothingLeaks'
  BY <1>5, <1>6, StillHandled
<1> QED
  BY <1>2, <1>3, <1>4, <1>7, AioTypesNext DEF AioInv

LEMMA ContainerStep ==
  ASSUME AioInv, NEW t \in Threads, Dies(t) \/ OtherStarts(t) \/ Get(t) \/ GrowsIdle(t)
  PROVE  AioInv'
<1>1. WorldOK /\ TablesOK /\ EndsOK /\ StopsOK
  BY AioTypes DEF AioInv
<1>2. UNCHANGED <<active, warm, locked, filelock, acq, made, lost, sweep, shut>>
  BY DEF Dies, OtherStarts, Get, GrowsIdle, world, calls
<1>3. PICK n \in {container[t], 0, Foreign} : container' = [container EXCEPT ![t] = n]
  <2>1. CASE Get(t) \/ GrowsIdle(t)
    BY <1>1, <2>1 DEF Get, GrowsIdle, world, WorldOK
  <2>2. CASE Dies(t) \/ OtherStarts(t)
    BY <2>2 DEF Dies, OtherStarts
  <2> QED
    BY <2>1, <2>2
<1>4. container' \in [Threads -> 0 .. Foreign]
  <2>1. n \in 0 .. Foreign
    BY AioNumbers
  <2> QED
    BY <1>1, <1>3, <2>1 DEF WorldOK
<1>5. \A u \in Threads : container'[u] \in {container[u], 0, Foreign}
  BY <1>1, <1>3 DEF WorldOK
<1>6. faults' \in 0 .. MaxFaults
  <2>1. CASE Get(t) \/ GrowsIdle(t)
    BY <1>1, <2>1 DEF Get, GrowsIdle, world, WorldOK
  <2>2. CASE Dies(t) \/ OtherStarts(t)
    BY <2>2, AioNumbers DEF Dies, OtherStarts, Fault
  <2> QED
    BY <2>1, <2>2
<1>7. idle' \in [Threads -> BOOLEAN]
  <2>1. CASE Get(t)
    BY <1>1, <2>1 DEF Get, TablesOK
  <2>2. CASE GrowsIdle(t)
    BY <1>1, <2>2 DEF GrowsIdle, TablesOK
  <2>3. CASE Dies(t) \/ OtherStarts(t)
    BY <1>1, <2>3 DEF Dies, OtherStarts, TablesOK
  <2> QED
    BY <2>1, <2>2, <2>3
<1>8. WorldOK' /\ EndsOK' /\ StopsOK'
  BY <1>1, <1>2, <1>4, <1>6 DEF WorldOK, EndsOK, StopsOK
<1> QED
  BY <1>2, <1>5, <1>7, <1>8, OutsideStep

LEMMA SweepStep ==
  ASSUME AioInv, Snapshot \/ (\E t \in Threads : VerifyIdle(t)) \/ StopSwept
  PROVE  AioInv'
<1>1. WorldOK /\ TablesOK /\ EndsOK /\ StopsOK
  BY AioTypes DEF AioInv
<1>2. UNCHANGED <<active, idle, warm, locked, filelock, acq, shut>>
  BY DEF Snapshot, VerifyIdle, StopSwept, maps, calls
<1>3. idle' \in [Threads -> BOOLEAN]
  BY <1>1, <1>2 DEF TablesOK
<1>4. CASE Snapshot
  <2>1. UNCHANGED <<container, made, lost, faults>> /\ sweep = Asleep
    BY <1>4 DEF Snapshot, world
  <2>2. sweep' = [Asleep EXCEPT !.at = "verify", !.ids = {t \in Threads : idle[t]}]
    BY <1>4 DEF Snapshot
  <2>3. PICK I \in SUBSET Threads : I = {t \in Threads : idle[t]}
    OBVIOUS
  <2>4. sweep' = [at |-> "verify", ids |-> I, now |-> Nobody, stops |-> {}]
    BY <2>2, <2>3 DEF Asleep
  <2>5. EndsOK' /\ StopsOK' /\ sweep'.stops = {} /\ sweep.stops = {}
    BY <1>1, <1>2, <2>1, <2>4 DEF EndsOK, StopsOK, Asleep
  <2>6. WorldOK'
    BY <1>1, <2>1 DEF WorldOK
  <2> QED
    BY <1>2, <1>3, <2>1, <2>5, <2>6, OutsideStep
<1>5. ASSUME NEW t \in Threads, VerifyIdle(t)
      PROVE  AioInv'
  <2>1. UNCHANGED <<container, made, lost, faults>> /\ sweep.at = "verify"
    BY <1>5 DEF VerifyIdle, world
  <2>2. PICK I \in SUBSET Threads : I = sweep.ids \ {t}
    BY <1>1 DEF EndsOK
  <2>3. PICK a \in {"verify", "destroy"}, n \in Threads \cup {Nobody} :
          sweep' = [sweep EXCEPT !.ids = I, !.at = a, !.now = n]
    <3>1. CASE idle[t]
      BY <1>1, <1>5, <2>2, <3>1 DEF VerifyIdle, EndsOK
    <3>2. CASE ~idle[t]
      BY <1>1, <1>5, <2>1, <2>2, <3>2 DEF VerifyIdle, EndsOK
    <3> QED
      BY <3>1, <3>2
  <2>4. /\ sweep' \in [at : {"asleep", "verify", "destroy", "stop", "reap"}, ids : SUBSET Threads,
                       now : Threads \cup {Nobody}, stops : SUBSET Sandbox]
        /\ sweep'.at = a /\ sweep'.stops = sweep.stops
    BY <1>1, <2>3 DEF EndsOK
  <2>5. EndsOK' /\ StopsOK'
    BY <1>1, <1>2, <2>1, <2>4 DEF EndsOK, StopsOK
  <2>6. WorldOK'
    BY <1>1, <2>1 DEF WorldOK
  <2> QED
    BY <1>2, <1>3, <2>1, <2>4, <2>5, <2>6, OutsideStep
<1>6. CASE StopSwept
  <2>1. sweep.at \in {"stop", "reap"}
    BY <1>6 DEF StopSwept
  <2>2. CASE /\ sweep.stops = {} /\ UNCHANGED world
             /\ sweep' = [sweep EXCEPT !.at = IF @ = "stop" THEN "verify" ELSE "asleep"]
    <3>1. UNCHANGED <<container, made, lost, faults>>
      BY <2>2 DEF world
    <3>2. PICK a \in {"verify", "asleep"} : sweep' = [sweep EXCEPT !.at = a]
      BY <2>2
    <3>3. /\ sweep' \in [at : {"asleep", "verify", "destroy", "stop", "reap"}, ids : SUBSET Threads,
                         now : Threads \cup {Nobody}, stops : SUBSET Sandbox]
          /\ sweep'.stops = {}
      BY <1>1, <2>2, <3>2 DEF EndsOK
    <3>4. EndsOK' /\ StopsOK'
      BY <1>1, <1>2, <3>3 DEF EndsOK, StopsOK
    <3>5. WorldOK'
      BY <1>1, <3>1 DEF WorldOK
    <3> QED
      BY <1>2, <1>3, <2>2, <3>1, <3>4, <3>5, OutsideStep
  <2>3. ASSUME NEW v \in sweep.stops, Stop(v), sweep' = [sweep EXCEPT !.stops = @ \ {v}]
        PROVE  AioInv'
    <3>1. v \in Sandbox
      BY <1>1 DEF EndsOK
    <3>2. /\ WorldOK' /\ made' = made /\ lost \subseteq lost'
          /\ \A u \in Threads : container'[u] \in {container[u], 0}
          /\ container'[v.of] \in (1 .. MaxInfos) \ lost' => v.info.cid \notin {0, container[v.of]}
      BY <2>3, <3>1, StopOK
    <3>3. PICK V \in SUBSET Sandbox : V = sweep.stops \ {v}
      BY <1>1 DEF EndsOK
    <3>4. /\ sweep' \in [at : {"asleep", "verify", "destroy", "stop", "reap"}, ids : SUBSET Threads,
                         now : Threads \cup {Nobody}, stops : SUBSET Sandbox]
          /\ sweep'.stops = V /\ sweep'.at = sweep.at
      BY <1>1, <2>3, <3>3 DEF EndsOK
    <3>5. EndsOK' /\ StopsOK'
      BY <1>1, <1>2, <2>1, <3>4 DEF EndsOK, StopsOK
    <3> QED
      BY <1>2, <1>3, <3>2, <3>3, <3>4, <3>5, OutsideStep
  <2> QED
    BY <1>6, <2>2, <2>3 DEF StopSwept
<1> QED
  BY <1>4, <1>5, <1>6

LEMMA StopShutStep ==
  ASSUME AioInv, NEW v \in shut.stops, StopShut(v)
  PROVE  AioInv'
<1>1. WorldOK /\ TablesOK /\ EndsOK /\ StopsOK
  BY AioTypes DEF AioInv
<1>2. /\ UNCHANGED <<active, idle, warm, locked, filelock, acq, sweep>> /\ Stop(v)
      /\ shut' = [shut EXCEPT !.stops = @ \ {v}]
  BY DEF StopShut, maps, calls
<1>3. idle' \in [Threads -> BOOLEAN] /\ v \in Sandbox
  BY <1>1, <1>2 DEF TablesOK, EndsOK
<1>4. /\ WorldOK' /\ made' = made /\ lost \subseteq lost'
      /\ \A u \in Threads : container'[u] \in {container[u], 0}
      /\ container'[v.of] \in (1 .. MaxInfos) \ lost' => v.info.cid \notin {0, container[v.of]}
  BY <1>2, <1>3, StopOK
<1>5. PICK V \in SUBSET Sandbox : V = shut.stops \ {v}
  BY <1>1 DEF EndsOK
<1>6. /\ shut' \in [called : BOOLEAN, ids : SUBSET Threads, stops : SUBSET Sandbox]
      /\ shut'.stops = V /\ shut'.called = shut.called /\ shut'.ids = shut.ids
  BY <1>1, <1>2, <1>5 DEF EndsOK
<1>7. EndsOK' /\ StopsOK'
  BY <1>1, <1>2, <1>5, <1>6 DEF EndsOK, StopsOK
<1> QED
  BY <1>2, <1>3, <1>4, <1>5, <1>6, <1>7, OutsideStep

\* Sandboxes go from the maps to what is still to stop.
LEMMA TakenStep ==
  ASSUME AioInv, UNCHANGED <<container, made, locked, filelock, acq>>,
         TablesOK', MapsOK', EndsOK', StopsOK', faults' = faults,
         lost \subseteq lost', lost' \subseteq 1 .. MaxInfos,
         \A v \in sweep.stops \cup shut.stops : v \in sweep'.stops \cup shut'.stops,
         \A u \in Threads : InMap(u) \/ InPool(u) =>
            \/ container[u] \notin (1 .. MaxInfos) \ lost'
            \/ InMap(u)' \/ InPool(u)' \/ InStops(u)'
  PROVE  AioInv'
<1>1. WorldOK'
  BY AioTypes DEF AioInv, WorldOK
<1>2. CallsOK' /\ \A d \in Acquisitions : AcqOK(d)'
  BY AioNumbers, CallsKept
<1>3. ASSUME NEW u \in Threads
      PROVE  InStops(u) \/ InVictim(u) \/ Awaited(u) => Handled(u)'
  BY CareKept DEF TablesOK
<1>4. ASSUME NEW u \in Threads, container'[u] \in (1 .. MaxInfos) \ lost'
      PROVE  InMap(u) \/ InPool(u) => Handled(u)'
  BY <1>4, HandledHowNext DEF TablesOK
<1>5. NothingLeaks'
  BY <1>3, <1>4, StillHandled
<1> QED
  BY <1>1, <1>2, <1>5, AioTypesNext DEF AioInv

LEMMA DestroyIdleStep ==
  ASSUME AioInv, NEW t \in Threads, DestroyIdle(t)
  PROVE  AioInv'
<1>1. WorldOK /\ TablesOK /\ EndsOK /\ StopsOK
  BY AioTypes DEF AioInv
<1>2. /\ sweep.at = "destroy" /\ Untrack(t)
      /\ sweep' = [sweep EXCEPT !.at = "stop", !.now = Nobody, !.stops = Tracked(t)]
      /\ UNCHANGED <<container, made, faults, locked, filelock, acq, shut>>
  BY DEF DestroyIdle, calls
<1>3. /\ TablesOK' /\ lost \subseteq lost' /\ lost' \subseteq 1 .. MaxInfos
      /\ Tracked(t) \in SUBSET Sandbox /\ MapsOK'
  BY <1>2, UntrackOK
<1>4. /\ sweep' \in [at : {"asleep", "verify", "destroy", "stop", "reap"}, ids : SUBSET Threads,
                     now : Threads \cup {Nobody}, stops : SUBSET Sandbox]
      /\ sweep'.stops = Tracked(t) /\ sweep'.at = "stop"
  BY <1>1, <1>2, <1>3 DEF EndsOK
<1>5. EndsOK' /\ StopsOK' /\ sweep.stops = {}
  BY <1>1, <1>2, <1>4 DEF EndsOK, StopsOK
<1>6. ASSUME NEW u \in Threads, InMap(u) \/ InPool(u), container[u] \in (1 .. MaxInfos) \ lost'
      PROVE  InMap(u)' \/ InPool(u)' \/ InStops(u)'
  <2>1. CASE u = t
    <3>1. PICK v \in Tracked(t) : v.of = t /\ v.info.cid \in {0, container[t]}
      BY <1>2, <1>6, <2>1, UntrackOK
    <3> QED
      BY <1>2, <1>4, <2>1, <3>1 DEF InStops
  <2>2. CASE u # t
    <3>1. active'[u] = active[u] /\ \A e \in Members(warm) : e.of = u => e \in Members(warm)'
      BY <1>2, <2>2, UntrackOK
    <3> QED
      BY <1>2, <1>6, <3>1 DEF InMap, InPool
  <2> QED
    BY <2>1, <2>2
<1> QED
  BY <1>2, <1>3, <1>5, <1>6, TakenStep

LEMMA ShutNextStep ==
  ASSUME AioInv, NEW t \in Threads, ShutNext(t)
  PROVE  AioInv'
<1>1. WorldOK /\ TablesOK /\ EndsOK /\ StopsOK
  BY AioTypes DEF AioInv
<1>2. /\ Untrack(t)
      /\ shut' = [shut EXCEPT !.ids = @ \ {t}, !.stops = @ \cup Tracked(t)]
      /\ UNCHANGED <<container, made, faults, locked, filelock, acq, sweep>>
  BY DEF ShutNext, calls
<1>3. /\ TablesOK' /\ lost \subseteq lost' /\ lost' \subseteq 1 .. MaxInfos
      /\ Tracked(t) \in SUBSET Sandbox /\ MapsOK'
  BY <1>2, UntrackOK
<1>4. PICK I \in SUBSET Threads, V \in SUBSET Sandbox :
        I = shut.ids \ {t} /\ V = shut.stops \cup Tracked(t)
  BY <1>1, <1>3 DEF EndsOK
<1>5. shut' = [shut EXCEPT !.ids = I, !.stops = V]
  BY <1>1, <1>2, <1>4 DEF EndsOK
<1>6. /\ shut' \in [called : BOOLEAN, ids : SUBSET Threads, stops : SUBSET Sandbox]
      /\ shut'.stops = V /\ shut'.called = shut.called
  BY <1>1, <1>5 DEF EndsOK
<1>7. EndsOK'
  BY <1>1, <1>2, <1>6 DEF EndsOK
<1>8. shut.called
  BY <1>1 DEF StopsOK, ShutNext
<1>9. StopsOK'
  BY <1>1, <1>2, <1>6, <1>8 DEF StopsOK
<1>10. ASSUME NEW u \in Threads, InMap(u) \/ InPool(u), container[u] \in (1 .. MaxInfos) \ lost'
       PROVE  InMap(u)' \/ InPool(u)' \/ InStops(u)'
  <2>1. CASE u = t
    <3>1. PICK v \in Tracked(t) : v.of = t /\ v.info.cid \in {0, container[t]}
      BY <1>2, <1>10, <2>1, UntrackOK
    <3> QED
      BY <1>2, <1>4, <1>6, <2>1, <3>1 DEF InStops
  <2>2. CASE u # t
    <3>1. active'[u] = active[u] /\ \A e \in Members(warm) : e.of = u => e \in Members(warm)'
      BY <1>2, <2>2, UntrackOK
    <3> QED
      BY <1>2, <1>10, <3>1 DEF InMap, InPool
  <2> QED
    BY <2>1, <2>2
<1> QED
  BY <1>2, <1>3, <1>4, <1>6, <1>7, <1>9, <1>10, TakenStep

LEMMA ReapExpiredStep ==
  ASSUME AioInv, ReapExpired
  PROVE  AioInv'
<1>1. WorldOK /\ TablesOK /\ EndsOK /\ StopsOK /\ MapsOK
  BY AioTypes DEF AioInv
<1>2. sweep.at = "verify" /\ UNCHANGED <<active, idle, container, made, lost, faults, locked, filelock, acq, shut>>
  BY DEF ReapExpired, world, calls
<1>3. PICK n \in 0 .. Len(warm) :
        /\ warm' = SubSeq(warm, n + 1, Len(warm))
        /\ sweep' = [Asleep EXCEPT !.at = "reap", !.stops = {warm[i] : i \in 1 .. n}]
  BY DEF ReapExpired
<1>4. warm \in Seq(Sandbox) /\ Len(warm) \in Nat
  BY <1>1 DEF TablesOK
<1>5. PICK V : V = {warm[i] : i \in 1 .. n}
  OBVIOUS
<1>6. V \in SUBSET Sandbox
  <2>1. \A i \in 1 .. n : i \in 1 .. Len(warm)
    BY <1>4
  <2> QED
    BY <1>4, <1>5, <2>1
<1>7. warm' \in Seq(Sandbox) /\ Members(warm) = Members(warm)' \cup V
  <2>1. Members(warm)' = Members(SubSeq(warm, n + 1, Len(warm)))
    BY <1>3 DEF Members
  <2> QED
    BY <1>3, <1>4, <1>5, <2>1, SplitMembers
<1>8. sweep' = [at |-> "reap", ids |-> {}, now |-> Nobody, stops |-> V]
  BY <1>3, <1>5 DEF Asleep
<1>9. EndsOK' /\ StopsOK' /\ sweep.stops = {}
  BY <1>1, <1>2, <1>6, <1>8 DEF EndsOK, StopsOK
<1>10. TablesOK' /\ MapsOK' /\ lost' \subseteq 1 .. MaxInfos
  BY <1>1, <1>2, <1>7 DEF TablesOK, MapsOK, WorldOK
<1>11. \A u \in Threads : /\ InMap(u) => InMap(u)'
                          /\ InPool(u) => InPool(u)' \/ InStops(u)'
  BY <1>2, <1>7, <1>8 DEF InMap, InPool, InStops
<1> QED
  BY <1>2, <1>9, <1>10, <1>11, TakenStep

LEMMA ShutdownStep ==
  ASSUME AioInv, Shutdown
  PROVE  AioInv'
<1>1. WorldOK /\ TablesOK /\ EndsOK /\ StopsOK /\ MapsOK
  BY AioTypes DEF AioInv
<1>2. /\ ~shut.called /\ warm' = <<>>
      /\ UNCHANGED <<active, idle, container, made, lost, faults, locked, filelock, acq, sweep>>
  BY DEF Shutdown, world, calls
<1>3. warm \in Seq(Sandbox) /\ DOMAIN warm = 1 .. Len(warm)
  BY <1>1 DEF TablesOK
<1>4. PICK V : V = Members(warm)
  OBVIOUS
<1>5. V \in SUBSET Sandbox
  BY <1>3, <1>4 DEF Members
<1>6. PICK I \in SUBSET Threads : I = {t \in Threads : active[t] # Nobody}
  OBVIOUS
<1>7. shut' = [called |-> TRUE, ids |-> I, stops |-> V]
  BY <1>3, <1>4, <1>6 DEF Shutdown, Members
<1>8. EndsOK' /\ StopsOK' /\ shut.stops = {} /\ shut'.stops = V
  BY <1>1, <1>2, <1>5, <1>7 DEF EndsOK, StopsOK
<1>9. Members(warm)' = {}
  BY <1>2 DEF Members
<1>10. TablesOK' /\ MapsOK' /\ lost' \subseteq 1 .. MaxInfos
  BY <1>1, <1>2, <1>9 DEF TablesOK, MapsOK, WorldOK
<1>11. \A u \in Threads : /\ InMap(u) => InMap(u)'
                          /\ InPool(u) => InStops(u)'
  BY <1>2, <1>4, <1>8 DEF InMap, InPool, InStops
<1> QED
  BY <1>2, <1>8, <1>10, <1>11, TakenStep

LEMMA RestartStep ==
  ASSUME AioInv, Restart
  PROVE  AioInv'
<1>1. WorldOK
  BY AioTypes DEF AioInv
<1>2. PICK R \in SUBSET Threads : R = {t \in Threads : container[t] # 0}
  OBVIOUS
<1>3. IsFiniteSet(R) /\ Cardinality(R) \in Nat
  BY AioAssumption, FS_Subset, FS_CardinalityType
<1>4. /\ active' = [t \in Threads |-> Nobody] /\ idle' = [t \in Threads |-> FALSE]
      /\ locked' = [t \in Threads |-> Nobody] /\ filelock' = [t \in Threads |-> Nobody]
      /\ acq' = [c \in Acquisitions |-> NoAcq] /\ sweep' = Asleep /\ shut' = NotShut
      /\ UNCHANGED container
  BY DEF Restart
<1>5. faults' \in 0 .. MaxFaults
  BY <1>1, AioNumbers DEF Restart, Fault, WorldOK
<1>6. NoAcq \in AcqRecord
  BY DEF NoAcq, AcqRecord
<1>7. CallsOK'
  BY <1>4, <1>6 DEF CallsOK
<1>8. \A d \in Acquisitions : AcqOK(d)'
  BY <1>4 DEF AcqOK, NoAcq, HoldsInfo, Late
<1>9. EndsOK' /\ StopsOK'
  BY <1>4 DEF EndsOK, StopsOK, Asleep, NotShut
<1>10. /\ warm' \in Seq(Sandbox) /\ made' \in 0 .. MaxInfos /\ lost' \subseteq 1 .. MaxInfos
       /\ \A e \in Members(warm)' : e.info.cid = 0
       /\ \A t \in R : container[t] \in lost' \cup {Foreign} \/ \E e \in Members(warm)' : e.of = t
  <2>1. CASE made + Cardinality(R) <= MaxInfos /\ Adopts(R) /\ lost' = {}
    <3>1. PICK seq \in [1 .. Cardinality(R) -> R] :
            /\ {seq[i] : i \in DOMAIN seq} = R
            /\ warm' = [i \in DOMAIN seq |-> [of |-> seq[i], info |-> [obj |-> made + i, cid |-> 0]]]
            /\ made' = made + Cardinality(R)
      BY <2>1 DEF Adopts
    <3>2. PICK n \in Nat : n = Cardinality(R)
      BY <1>3
    <3>3. DOMAIN seq = 1 .. n /\ made + n <= MaxInfos /\ made' = made + n
      BY <2>1, <3>1, <3>2
    <3>4. warm' = [i \in 1 .. n |-> [of |-> seq[i], info |-> [obj |-> made + i, cid |-> 0]]]
      BY <3>1, <3>3
    <3>5. \A i \in 1 .. n : seq[i] \in Threads /\ made + i \in 1 .. MaxInfos
      BY <3>1, <3>2, <3>3, AioNumbers
    <3>6. \A i \in 1 .. n : /\ warm'[i] = [of |-> seq[i], info |-> [obj |-> made + i, cid |-> 0]]
                            /\ seq[i] \in Threads /\ made + i \in 1 .. MaxInfos
      BY <3>1, <3>2, <3>3, <3>4, AioNumbers
    <3>7. \A i \in 1 .. n : warm'[i] \in Sandbox /\ warm'[i].of = seq[i] /\ warm'[i].info.cid = 0
      <4> TAKE i \in 1 .. n
      <4>1. PICK x : x = [obj |-> made + i, cid |-> 0]
        OBVIOUS
      <4>2. made + i \in 1 .. MaxInfos /\ 0 \in 0 .. MaxInfos /\ seq[i] \in Threads
        BY <3>5, AioNumbers
      <4>3. x \in Info /\ x.cid = 0
        BY <4>1, <4>2 DEF Info
      <4>4. warm'[i] = [of |-> seq[i], info |-> x]
        BY <3>6, <4>1
      <4> QED
        BY <4>3, <4>4, <4>2 DEF Sandbox
    <3>8. warm' \in Seq(Sandbox) /\ Len(warm') = n
      BY <3>4, <3>7
    <3>9. Members(warm)' = {warm'[i] : i \in 1 .. n}
      BY <3>8 DEF Members
    <3>10. \A t \in R : \E i \in 1 .. n : seq[i] = t
      BY <3>1, <3>3
    <3>11. made' \in 0 .. MaxInfos
      BY <3>2, <3>3, AioNumbers
    <3> QED
      BY <2>1, <3>7, <3>8, <3>9, <3>10, <3>11
  <2>2. CASE warm' = <<>> /\ lost' = {container[t] : t \in R} \ {Foreign} /\ UNCHANGED made
    <3>1. \A t \in R : container[t] \in 1 .. MaxInfos \/ container[t] = Foreign
      BY <1>2, AioNumbers
    <3>2. Members(warm)' = {}
      BY <2>2 DEF Members
    <3> QED
      BY <1>1, <2>2, <3>1, <3>2 DEF WorldOK
  <2> QED
    BY <1>2, <2>1, <2>2 DEF Restart
<1>11. TablesOK' /\ WorldOK'
  BY <1>1, <1>4, <1>5, <1>10 DEF TablesOK, WorldOK
<1>12. MapsOK'
  <2>1. 0 <= made'
    BY <1>10, AioNumbers
  <2> QED
    BY <1>4, <1>10, <2>1 DEF MapsOK
<1>13. ASSUME NEW t \in Threads, container'[t] \in (1 .. MaxInfos) \ lost'
       PROVE  Handled(t)'
  <2>1. t \in R /\ container[t] # Foreign
    BY <1>2, <1>4, <1>13, AioNumbers
  <2>2. PICK e \in Members(warm)' : e.of = t
    BY <1>4, <1>10, <1>13, <2>1
  <2>3. InPool(t)'
    BY <1>10, <2>2 DEF InPool
  <2> QED
    BY <1>10, <2>3, HandledHowNext
<1>14. NothingLeaks'
  BY <1>13 DEF NothingLeaks
<1> QED
  BY <1>7, <1>8, <1>9, <1>11, <1>12, <1>14, AioTypesNext DEF AioInv

\* Every step of the provider keeps its invariant.
LEMMA AioNextInv == AioInv /\ [AioNext]_aioVars => AioInv'
<1> SUFFICES ASSUME AioInv, [AioNext]_aioVars PROVE AioInv'
  OBVIOUS
<1>1. ASSUME NEW c \in Acquisitions, NEW t \in Threads, Acquire(c, t)
      PROVE  AioInv'
  BY <1>1, AcquireStep
<1>2. ASSUME NEW c \in Acquisitions,
             \/ CancelAcquire(c) \/ Reuse(c) \/ Reclaim(c) \/ Probe(c) \/ DropSandbox(c)
             \/ StopVictim(c) \/ Confirm(c) \/ ConfirmWarm(c)
      PROVE  AioInv'
  BY <1>2, CancelAcquireStep, ReuseStep, ReclaimStep, ProbeStep, DropSandboxStep,
     StopVictimStep, ConfirmStep, ConfirmWarmStep
<1>3. ASSUME NEW c \in Acquisitions,
             \/ LockFile(c) \/ Discover(c) \/ Count(c) \/ EvictOldest(c)
             \/ CreateContainer(c) \/ Ready(c) \/ RegisterDiscovered(c)
      PROVE  AioInv'
  BY <1>3, LockFileStep, DiscoverStep, CountStep, EvictOldestStep,
     CreateContainerStep, ReadyStep, RegisterDiscoveredStep
<1>4. ASSUME NEW t \in Threads,
             \/ Dies(t) \/ OtherStarts(t) \/ Get(t) \/ GrowsIdle(t) \/ ReleaseSandbox(t)
             \/ VerifyIdle(t) \/ DestroyIdle(t) \/ ShutNext(t)
      PROVE  AioInv'
  BY <1>4, ContainerStep, ReleaseSandboxStep, SweepStep, DestroyIdleStep, ShutNextStep
<1>5. CASE Snapshot \/ ReapExpired \/ StopSwept \/ Shutdown \/ Restart
  BY <1>5, SweepStep, ReapExpiredStep, ShutdownStep, RestartStep
<1>6. ASSUME NEW v \in shut.stops, StopShut(v)
      PROVE  AioInv'
  BY <1>6, StopShutStep
<1>7. CASE UNCHANGED aioVars
  <2>1. WorldOK /\ TablesOK /\ EndsOK /\ StopsOK
    BY AioTypes DEF AioInv
  <2>2. UNCHANGED <<container, made, active, idle, warm, locked, filelock, acq, sweep, shut,
                    lost, faults>>
    BY <1>7 DEF aioVars
  <2>3. WorldOK' /\ EndsOK' /\ StopsOK' /\ idle' \in [Threads -> BOOLEAN]
    BY <2>1, <2>2 DEF WorldOK, EndsOK, StopsOK, TablesOK
  <2> QED
    BY <2>2, <2>3, OutsideStep
<1> QED
  BY <1>1, <1>2, <1>3, <1>4, <1>5, <1>6, <1>7 DEF AioNext

\* The sandbox provider keeps its invariant, for any number of acquisitions,
\* threads, containers and faults: every unit of an acquisition, its cancellation,
\* release, the idle checker, shutdown, the runtime and a restart.
THEOREM AioInvariant == AioSpec => []AioInv
  BY AioInitInv, AioNextInv, PTL DEF AioSpec

\* No container of this process runs that nothing tracks, stops or waits for,
\* except the ones given up by name in lost.
THEOREM NoContainerLeaks == AioSpec => []NothingLeaks
  BY AioInvariant, PTL DEF AioInv

\* The step of one acquisition is no step of another.
LEMMA OthersRest ==
  ASSUME AioInv, NEW c \in Acquisitions, NEW d \in Acquisitions \ {c},
         \/ \E t \in Threads : Acquire(c, t)
         \/ CancelAcquire(c) \/ Reuse(c) \/ Reclaim(c) \/ Probe(c) \/ DropSandbox(c)
         \/ StopVictim(c) \/ Confirm(c) \/ ConfirmWarm(c) \/ LockFile(c) \/ Discover(c)
         \/ Count(c) \/ EvictOldest(c) \/ CreateContainer(c) \/ Ready(c) \/ RegisterDiscovered(c)
  PROVE  acq'[d] = acq[d]
<1>1. acq \in [Acquisitions -> AcqRecord]
  BY CallsTyped DEF AioInv, CallsOK
<1>2. Over(c) => acq'[d] = acq[d]
  BY <1>1 DEF Over
<1>3. ASSUME NEW s, NEW f, Goes(c, s, f)
      PROVE  acq'[d] = acq[d]
  BY <1>1, <1>2, <1>3 DEF Goes
<1>4. CASE (\E t \in Threads : Acquire(c, t)) \/ CancelAcquire(c) \/ LockFile(c)
  BY <1>1, <1>4 DEF Acquire, CancelAcquire, LockFile
<1>5. CASE Reuse(c) \/ Reclaim(c) \/ Probe(c) \/ DropSandbox(c) \/ StopVictim(c)
  BY <1>3, <1>5 DEF Reuse, Reclaim, Probe, DropSandbox, StopVictim, Step
<1>6. CASE \/ Confirm(c) \/ ConfirmWarm(c) \/ Discover(c) \/ Count(c) \/ EvictOldest(c)
           \/ RegisterDiscovered(c)
  BY <1>2, <1>3, <1>6 DEF Confirm, ConfirmWarm, Discover, Count, EvictOldest,
     RegisterDiscovered, Step
<1>7. CASE CreateContainer(c) \/ Ready(c)
  BY <1>2, <1>3, <1>7 DEF CreateContainer, Ready
<1> QED
  BY <1>4, <1>5, <1>6, <1>7

\* An acquisition that drops a sandbox and has something to stop has just found it.
LEMMA OnlyDrops ==
  ASSUME AioInv, [AioNext]_aioVars, NEW c \in Acquisitions,
         acq[c].at \in {"drop", "drop_warm"}, acq'[c].at = "stop"
  PROVE  DropSandbox(c)
<1>1. acq \in [Acquisitions -> AcqRecord]
  BY CallsTyped DEF AioInv, CallsOK
<1>2. acq'[c] # acq[c]
  OBVIOUS
<1>3. PICK d \in Acquisitions :
         \/ \E t \in Threads : Acquire(d, t)
         \/ CancelAcquire(d) \/ Reuse(d) \/ Reclaim(d) \/ Probe(d) \/ DropSandbox(d)
         \/ StopVictim(d) \/ Confirm(d) \/ ConfirmWarm(d) \/ LockFile(d) \/ Discover(d)
         \/ Count(d) \/ EvictOldest(d) \/ CreateContainer(d) \/ Ready(d) \/ RegisterDiscovered(d)
  <2>1. ~UNCHANGED acq
    BY <1>2
  <2>2. ~Restart
    BY DEF Restart, NoAcq
  <2>3. ~(Snapshot \/ ReapExpired \/ StopSwept \/ Shutdown)
    BY <2>1 DEF Snapshot, ReapExpired, StopSwept, Shutdown, calls
  <2>4. \A t \in Threads : ~(\/ Dies(t) \/ OtherStarts(t) \/ Get(t) \/ GrowsIdle(t)
                             \/ ReleaseSandbox(t) \/ VerifyIdle(t) \/ DestroyIdle(t) \/ ShutNext(t))
    BY <2>1 DEF Dies, OtherStarts, Get, GrowsIdle, ReleaseSandbox, VerifyIdle, DestroyIdle,
       ShutNext, calls
  <2>5. \A v \in shut.stops : ~StopShut(v)
    BY <2>1 DEF StopShut, calls
  <2>6. ~UNCHANGED aioVars
    BY <2>1 DEF aioVars
  <2> QED
    BY <2>2, <2>3, <2>4, <2>5, <2>6 DEF AioNext
<1>4. d = c
  BY <1>2, <1>3, OthersRest
<1>5. ~CancelAcquire(c)
  <2> SUFFICES ASSUME CancelAcquire(c) PROVE FALSE
    OBVIOUS
  <2>1. acq'[c] = [acq[c] EXCEPT !.live = FALSE]
    BY <1>1 DEF CancelAcquire
  <2>2. acq'[c].at = acq[c].at
    BY <1>1, <2>1 DEF AcqRecord
  <2> QED
    BY <2>2
<1> QED
  BY <1>3, <1>4, <1>5 DEF Acquire, Reuse, Reclaim, Probe, StopVictim, Confirm, ConfirmWarm,
     LockFile, Discover, Count, EvictOldest, CreateContainer, Ready, RegisterDiscovered, At

\* A health check that has become stale takes no running container out of the maps.
THEOREM StaleProbesSpare == AioSpec => StaleProbeSpares
<1>1. ASSUME AioInv, [AioNext]_aioVars, NEW c \in Acquisitions,
             acq[c].at \in {"drop", "drop_warm"}, acq'[c].at = "stop", ~Twice(acq[c].of),
             NEW v \in acq'[c].victim
      PROVE  v.info.cid = 0 \/ v.info.cid # container[v.of]
  <2>1. DropSandbox(c)
    BY <1>1, OnlyDrops
  <2>2. AcqOK(c) /\ CallsOK /\ acq[c] \in AcqRecord /\ warm \in Seq(Sandbox)
    BY <1>1, CallsTyped DEF AioInv, CallsOK, AioTypeOK
  <2>3. PICK t \in Threads : t = acq[c].of
    BY <1>1, <2>2 DEF AcqOK
  <2>4. /\ acq[c].info \in Info /\ acq[c].info # Nobody
        /\ acq[c].info.cid = 0 \/ acq[c].info.cid # container[t]
    BY <1>1, <2>2, <2>3, AioNumbers DEF AcqOK, HoldsInfo, Replaced
  <2>5. StillTracked(c)
    <3> SUFFICES ASSUME ~StillTracked(c) PROVE FALSE
      OBVIOUS
    <3>1. PICK s \in {"reclaim", "wait", "discover"} : Goes(c, s, acq[c])
      BY <2>1 DEF DropSandbox, AfterReclaim, Step
    <3>2. acq'[c] = NoAcq \/ acq'[c].at = s
      BY <2>2, <3>1, GoesCalls DEF Units
    <3> QED
      BY <1>1, <3>2 DEF NoAcq
  <2>6. PICK n \in AfterStop : Goes(c, "stop", [acq[c] EXCEPT !.next = n, !.victim = Tracked(t)])
    BY <2>1, <2>3, <2>5 DEF DropSandbox, AfterReclaim, AfterStop
  <2>7. Untrack(t)
    BY <2>1, <2>3, <2>5 DEF DropSandbox
  <2>8. Tracked(t) \in SUBSET Sandbox
    BY <1>1, <2>7, UntrackOK
  <2>9. PICK f : f = [acq[c] EXCEPT !.next = n, !.victim = Tracked(t)]
    OBVIOUS
  <2>10. f \in AcqRecord /\ f.victim = Tracked(t)
    BY <2>2, <2>8, <2>9 DEF AcqRecord, AfterStop, Units
  <2>11. v \in Tracked(t)
    BY <1>1, <2>6, <2>9, <2>10, GoesStop
  <2>12. v.of = t /\ v.info.cid = acq[c].info.cid
    <3>1. CASE active[t] # Nobody
      <4>1. WarmOf(t) = {} /\ WarmInfo(t) = {}
        BY <1>1, <2>3, <3>1 DEF Twice, WarmInfo
      <4>2. acq[c].info = active[t]
        BY <2>3, <2>5, <4>1 DEF StillTracked
      <4> QED
        BY <2>11, <3>1, <4>2 DEF Tracked
    <3>2. CASE active[t] = Nobody
      <4>1. acq[c].info \in WarmInfo(t)
        BY <2>3, <2>4, <2>5, <3>2 DEF StillTracked
      <4>2. PICK i \in WarmInfo(t) : v = [of |-> t, info |-> i]
        BY <2>11, <3>2 DEF Tracked
      <4>3. i.cid = acq[c].info.cid
        BY <1>1, <4>1, WarmTyped
      <4> QED
        BY <4>2, <4>3
    <3> QED
      BY <3>1, <3>2
  <2> QED
    BY <2>4, <2>12
<1>2. AioInv /\ [AioNext]_aioVars =>
        [\A c \in Acquisitions :
           acq[c].at \in {"drop", "drop_warm"} /\ acq'[c].at = "stop" /\ ~Twice(acq[c].of)
           => \A v \in acq'[c].victim : v.info.cid = 0 \/ v.info.cid # container[v.of]]_aioVars
  BY <1>1
<1> QED
  BY AioInvariant, <1>2, PTL DEF AioSpec, StaleProbeSpares

-----------------------------------------------------------------------------
\* E2bSandboxes.

Spots == {"idle", "reuse", "ping", "reclaim", "reconnect", "list",
          "connect", "count", "evict", "kill", "create", "register"}
TakerRecord == [at : Spots, of : Owners \cup {NoThread}, vm : {0} \cup Vms, popped : BOOLEAN]
ReleaserRecord == [at : {"idle", "sync", "kill", "park"},
                   of : Owners \cup {NoThread}, vm : {0} \cup Vms]
Parking == [vm : Vms, of : Owners \cup {NoThread}]

\* What is known of an acquisition: it has its thread's lock; the machine it
\* deals with was made for its thread; once it has left the ping its thread has
\* no machine in use; once the search has found nothing, nothing runs for the
\* thread, unless a call failed.
TakerOK(c) ==
  /\ taker[c].at # "idle" => taker[c].of \in Owners /\ threadLock[taker[c].of] = c
  /\ taker[c].at \in {"ping", "reconnect", "connect", "register"} =>
        taker[c].vm \in Vms /\ vmOf[taker[c].vm] = taker[c].of
  /\ taker[c].at = "ping" => bound[taker[c].of] \in {0, taker[c].vm}
  /\ taker[c].at \notin {"idle", "reuse", "ping"} => bound[taker[c].of] = 0
  /\ taker[c].at \in {"count", "evict", "kill", "create"} /\ taker[c].of \notin unseen =>
        \A v \in alive : vmOf[v] # taker[c].of
  /\ taker[c].at = "connect" /\ taker[c].of \notin unseen =>
        \A v \in alive : vmOf[v] = taker[c].of => v = taker[c].vm

\* A release parks the machine under the thread it was made for.
ReleaserOK(r) ==
  releaser[r].at # "idle" => releaser[r].vm \in Vms /\ releaser[r].of = vmOf[releaser[r].vm]

Single == \A o \in Owners \ unseen : \A v, w \in alive : vmOf[v] = o /\ vmOf[w] = o => v = w

\* OwnVmOnly, by the entries of the pool.
Bound == /\ \A o \in Owners : bound[o] # 0 => vmOf[bound[o]] = o /\ bound[o] \in inUse
         /\ \A v \in inUse : bound[vmOf[v]] = v
ParkedRight == \A e \in Members(pool) : e.of = vmOf[e.vm]

E2bInv == /\ E2bTypeOK /\ Bound /\ ParkedRight /\ Single
          /\ \A c \in Takers : TakerOK(c)
          /\ \A r \in Releasers : ReleaserOK(r)

LEMMA E2bTypes ==
  E2bTypeOK <=> /\ vmOf \in Seq(Owners) /\ Len(vmOf) <= MaxVms
                /\ alive \subseteq Vms /\ inUse \subseteq Vms /\ dead \subseteq inUse
                /\ bound \in [Owners -> {0} \cup Vms]
                /\ pool \in Seq(Parking)
                /\ threadLock \in [Owners -> Takers \cup {NoThread}]
                /\ taker \in [Takers -> TakerRecord]
                /\ releaser \in [Releasers -> ReleaserRecord]
                /\ ending \in [called : BOOLEAN, vms : SUBSET Vms]
                /\ unseen \subseteq Owners
                /\ blips \in 0 .. MaxBlips
  BY DEF E2bTypeOK, TakerRecord, ReleaserRecord, Parking, Spots

LEMMA E2bTypesNext ==
  ASSUME vmOf' \in Seq(Owners), Len(vmOf') <= MaxVms,
         alive' \subseteq Vms', inUse' \subseteq Vms', dead' \subseteq inUse',
         bound' \in [Owners -> {0} \cup Vms'],
         pool' \in Seq(Parking'),
         threadLock' \in [Owners -> Takers \cup {NoThread}],
         taker' \in [Takers -> TakerRecord'],
         releaser' \in [Releasers -> ReleaserRecord'],
         ending' \in [called : BOOLEAN, vms : SUBSET Vms'],
         unseen' \subseteq Owners, blips' \in 0 .. MaxBlips
  PROVE  E2bTypeOK'
  BY DEF E2bTypeOK, TakerRecord, ReleaserRecord, Parking, Spots

LEMMA E2bInitInv == E2bInit => E2bInv
<1> SUFFICES ASSUME E2bInit PROVE E2bInv
  OBVIOUS
<1> USE DEF E2bInit
<1>1. Vms = {}
  BY DEF Vms
<1>2. AtRest \in TakerRecord /\ Closed \in ReleaserRecord
  BY DEF AtRest, Closed, TakerRecord, ReleaserRecord, Spots
<1>3. ending \in [called : BOOLEAN, vms : SUBSET Vms]
  OBVIOUS
<1>4. E2bTypeOK
  BY <1>1, <1>2, <1>3, E2bTypes, E2bAssumption
<1>5. Bound /\ Single /\ ParkedRight
  BY DEF Bound, Single, ParkedRight, Members
<1>6. \A c \in Takers : TakerOK(c)
  BY DEF TakerOK, AtRest
<1>7. \A r \in Releasers : ReleaserOK(r)
  BY DEF ReleaserOK, Closed
<1> QED
  BY <1>4, <1>5, <1>6, <1>7 DEF E2bInv

\* What leaves the machines as they are, or stops one.
Calm ==
  /\ vmOf' = vmOf /\ alive' \subseteq alive
  /\ unseen \subseteq unseen' /\ unseen' \subseteq Owners
  /\ blips' \in 0 .. MaxBlips

\* An acquisition that does not move keeps what it knows.
LEMMA TakerKept ==
  ASSUME NEW d \in Takers, TakerOK(d), Calm, bound \in [Owners -> {0} \cup Vms],
         taker'[d].at = taker[d].at, taker'[d].of = taker[d].of, taker'[d].vm = taker[d].vm,
         taker[d].at # "idle" => threadLock'[taker[d].of] = d,
         \A o \in Owners : bound'[o] \in {0, bound[o]} \/ o # taker[d].of
  PROVE  TakerOK(d)'
  BY DEF TakerOK, Calm, Vms

LEMMA SingleKept ==
  ASSUME Single, Calm
  PROVE  Single'
  BY DEF Single, Calm

LEMMA ReleasersKept ==
  ASSUME \A r \in Releasers : ReleaserOK(r), Calm, UNCHANGED releaser
  PROVE  \A r \in Releasers : ReleaserOK(r)'
  BY DEF ReleaserOK, Calm, Vms

\* An acquisition goes on, with its lock.
LEMMA GoesToFacts ==
  ASSUME taker \in [Takers -> TakerRecord], NEW c \in Takers, NEW s \in Spots,
         NEW v \in {0} \cup Vms, GoesTo(c, s, v)
  PROVE  /\ taker' \in [Takers -> TakerRecord]
         /\ taker'[c].at = s /\ taker'[c].of = taker[c].of /\ taker'[c].vm = v
         /\ \A d \in Takers \ {c} : taker'[d] = taker[d]
<1>1. PICK f : f = [at |-> s, of |-> taker[c].of, vm |-> v, popped |-> FALSE]
  OBVIOUS
<1>2. taker[c] \in TakerRecord
  OBVIOUS
<1>3. taker[c].of \in Owners \cup {NoThread}
  BY <1>2 DEF TakerRecord
<1>4. f \in TakerRecord /\ f.at = s /\ f.of = taker[c].of /\ f.vm = v
  BY <1>1, <1>3 DEF TakerRecord
<1>5. taker' = [taker EXCEPT ![c] = f]
  BY <1>1 DEF GoesTo
<1> QED
  BY <1>4, <1>5

\* An acquisition ends and gives its lock back; the others keep theirs.
LEMMA FinishesFacts ==
  ASSUME E2bInv, NEW c \in Takers, taker[c].at # "idle", Finishes(c)
  PROVE  /\ taker' \in [Takers -> TakerRecord] /\ taker'[c].at = "idle"
         /\ threadLock' \in [Owners -> Takers \cup {NoThread}]
         /\ \A d \in Takers \ {c} : /\ taker'[d] = taker[d]
                                    /\ taker[d].at # "idle" => threadLock'[taker[d].of] = d
<1>1. /\ taker \in [Takers -> TakerRecord]
      /\ threadLock \in [Owners -> Takers \cup {NoThread}]
      /\ \A d \in Takers : TakerOK(d)
  BY E2bTypes DEF E2bInv
<1>2. AtRest \in TakerRecord /\ AtRest.at = "idle"
  BY DEF AtRest, TakerRecord, Spots
<1>3. /\ taker' = [taker EXCEPT ![c] = AtRest]
      /\ threadLock' = [threadLock EXCEPT ![taker[c].of] = NoThread]
  BY DEF Finishes, Owner
<1>4. \A d \in Takers : taker[d].at # "idle" => taker[d].of \in Owners /\ threadLock[taker[d].of] = d
  BY <1>1 DEF TakerOK
<1>5. \A d \in Takers \ {c} : taker[d].at # "idle" => taker[d].of # taker[c].of
  BY <1>4
<1> QED
  BY <1>1, <1>2, <1>3, <1>4, <1>5

\* The step of one acquisition that makes no machine.
LEMMA TakerStep ==
  ASSUME E2bInv, NEW c \in Takers, Calm, UNCHANGED <<releaser, ending>>,
         taker' \in [Takers -> TakerRecord],
         threadLock' \in [Owners -> Takers \cup {NoThread}],
         \A d \in Takers \ {c} : /\ taker'[d] = taker[d]
                                 /\ taker[d].at # "idle" => threadLock'[taker[d].of] = d,
         inUse' \subseteq Vms, dead' \subseteq inUse', bound' \in [Owners -> {0} \cup Vms],
         \A o \in Owners : bound'[o] \in {0, bound[o]} \/ (o = taker[c].of /\ taker[c].at # "idle"),
         pool' \in Seq(Parking), Members(pool)' \subseteq Members(pool),
         Bound', TakerOK(c)'
  PROVE  E2bInv'
<1>1. /\ E2bTypeOK /\ \A d \in Takers : TakerOK(d)
      /\ \A r \in Releasers : ReleaserOK(r)
  BY DEF E2bInv
<1>2. vmOf' = vmOf /\ Vms' = Vms /\ TakerRecord' = TakerRecord /\ ReleaserRecord' = ReleaserRecord
      /\ Parking' = Parking
  BY DEF Calm, Vms, TakerRecord, ReleaserRecord, Parking
<1>3. alive' \subseteq Vms /\ unseen' \subseteq Owners /\ blips' \in 0 .. MaxBlips
  BY <1>1, E2bTypes DEF Calm
<1>4. E2bTypeOK'
  BY <1>1, <1>2, <1>3, E2bTypes, E2bTypesNext
<1>5. ASSUME NEW d \in Takers \ {c} PROVE TakerOK(d)'
  <2>1. taker[d].at # "idle" /\ taker[c].at # "idle" => taker[d].of # taker[c].of
    BY <1>1 DEF TakerOK
  <2>2. CASE taker[d].at = "idle"
    BY <2>2 DEF TakerOK
  <2>3. CASE taker[d].at # "idle"
    <3>1. \A o \in Owners : bound'[o] \in {0, bound[o]} \/ o # taker[d].of
      BY <2>1, <2>3
    <3> QED
      BY <1>1, <2>3, <3>1, TakerKept, E2bTypes
  <2> QED
    BY <2>2, <2>3
<1>6. ParkedRight'
  BY <1>2 DEF ParkedRight, E2bInv
<1>7. Single' /\ \A r \in Releasers : ReleaserOK(r)'
  BY SingleKept, ReleasersKept DEF E2bInv
<1> QED
  BY <1>4, <1>5, <1>6, <1>7 DEF E2bInv

\* What an acquisition that goes to s with v has to know.
Knows(c, s, v) ==
  /\ s \in {"ping", "reconnect", "connect", "register"} => v \in Vms /\ vmOf[v] = taker[c].of
  /\ s = "ping" => bound'[taker[c].of] \in {0, v}
  /\ s \notin {"reuse", "ping"} => bound'[taker[c].of] = 0
  /\ s \in {"count", "evict", "kill", "create"} /\ taker[c].of \notin unseen' =>
        \A w \in alive' : vmOf[w] # taker[c].of
  /\ s = "connect" /\ taker[c].of \notin unseen' =>
        \A w \in alive' : vmOf[w] = taker[c].of => w = v

LEMMA MoveStep ==
  ASSUME E2bInv, NEW c \in Takers, taker[c].at # "idle", Calm, UNCHANGED <<releaser, ending>>,
         NEW s \in Spots, s # "idle", NEW v \in {0} \cup Vms, GoesTo(c, s, v), Knows(c, s, v),
         inUse' \subseteq Vms, dead' \subseteq inUse', bound' \in [Owners -> {0} \cup Vms],
         \A o \in Owners : bound'[o] \in {0, bound[o]},
         pool' \in Seq(Parking), Members(pool)' \subseteq Members(pool), Bound'
  PROVE  E2bInv'
<1>1. taker \in [Takers -> TakerRecord] /\ threadLock \in [Owners -> Takers \cup {NoThread}]
      /\ \A d \in Takers : TakerOK(d)
  BY E2bTypes DEF E2bInv
<1>2. /\ taker' \in [Takers -> TakerRecord]
      /\ taker'[c].at = s /\ taker'[c].of = taker[c].of /\ taker'[c].vm = v
      /\ \A d \in Takers \ {c} : taker'[d] = taker[d]
  BY <1>1, GoesToFacts
<1>3. threadLock' = threadLock
  BY DEF GoesTo
<1>4. \A d \in Takers : taker[d].at # "idle" => taker[d].of \in Owners /\ threadLock[taker[d].of] = d
  BY <1>1 DEF TakerOK
<1>5. vmOf' = vmOf /\ Vms' = Vms
  BY DEF Calm, Vms
<1>6. TakerOK(c)'
  BY <1>2, <1>3, <1>4, <1>5 DEF TakerOK, Knows
<1> QED
  BY <1>1, <1>2, <1>3, <1>4, <1>6, TakerStep

\* An acquisition that ends.
LEMMA EndStep ==
  ASSUME E2bInv, NEW c \in Takers, taker[c].at # "idle", Calm, UNCHANGED <<releaser, ending>>,
         Finishes(c),
         inUse' \subseteq Vms, dead' \subseteq inUse', bound' \in [Owners -> {0} \cup Vms],
         \A o \in Owners : bound'[o] \in {0, bound[o]} \/ o = taker[c].of,
         pool' = pool, Bound'
  PROVE  E2bInv'
<1>1. /\ taker' \in [Takers -> TakerRecord] /\ taker'[c].at = "idle"
      /\ threadLock' \in [Owners -> Takers \cup {NoThread}]
      /\ \A d \in Takers \ {c} : /\ taker'[d] = taker[d]
                                 /\ taker[d].at # "idle" => threadLock'[taker[d].of] = d
  BY FinishesFacts
<1>2. TakerOK(c)'
  BY <1>1 DEF TakerOK
<1>3. pool' \in Seq(Parking) /\ Members(pool)' \subseteq Members(pool)
  BY E2bTypes DEF E2bInv, Members
<1> QED
  BY <1>1, <1>2, <1>3, TakerStep

\* The maps as they are.
LEMMA MapsStay ==
  ASSUME E2bInv, Calm, UNCHANGED registry
  PROVE  /\ inUse' \subseteq Vms /\ dead' \subseteq inUse' /\ bound' \in [Owners -> {0} \cup Vms]
         /\ \A o \in Owners : bound'[o] \in {0, bound[o]}
         /\ pool' = pool /\ pool' \in Seq(Parking) /\ Members(pool)' \subseteq Members(pool)
         /\ Bound'
<1>1. E2bTypeOK /\ Bound /\ vmOf' = vmOf /\ UNCHANGED <<inUse, dead, bound, pool>>
  BY DEF E2bInv, Calm, registry
<1> QED
  BY <1>1, E2bTypes DEF Bound, Members

LEMMA ServiceStays ==
  ASSUME E2bInv, UNCHANGED service
  PROVE  Calm /\ alive' = alive /\ unseen' = unseen
  BY E2bTypes DEF E2bInv, Calm, service

LEMMA TakeLockStep ==
  ASSUME E2bInv, NEW c \in Takers, NEW o \in Owners, TakeLock(c, o)
  PROVE  E2bInv'
<1>1. taker \in [Takers -> TakerRecord] /\ threadLock \in [Owners -> Takers \cup {NoThread}]
      /\ \A d \in Takers : TakerOK(d)
  BY E2bTypes DEF E2bInv
<1>2. /\ taker[c] = AtRest /\ threadLock[o] = NoThread
      /\ threadLock' = [threadLock EXCEPT ![o] = c]
      /\ taker' = [taker EXCEPT ![c] = [AtRest EXCEPT !.at = "reuse", !.of = o]]
      /\ UNCHANGED <<service, registry, releaser, ending>>
  BY DEF TakeLock, others
<1>3. PICK f : f = [AtRest EXCEPT !.at = "reuse", !.of = o]
  OBVIOUS
<1>4. f \in TakerRecord /\ f.at = "reuse" /\ f.of = o
  BY <1>3 DEF AtRest, TakerRecord, Spots
<1>5. /\ taker' \in [Takers -> TakerRecord] /\ taker'[c].at = "reuse" /\ taker'[c].of = o
      /\ \A d \in Takers \ {c} : taker'[d] = taker[d]
  BY <1>1, <1>2, <1>3, <1>4
<1>6. threadLock' \in [Owners -> Takers \cup {NoThread}] /\ threadLock'[o] = c
  BY <1>1, <1>2
<1>7. \A d \in Takers : taker[d].at # "idle" => taker[d].of \in Owners /\ threadLock[taker[d].of] = d
  BY <1>1 DEF TakerOK
<1>8. \A d \in Takers : taker[d].at # "idle" => threadLock'[taker[d].of] = d
  BY <1>1, <1>2, <1>7, E2bAssumption
<1>9. TakerOK(c)'
  BY <1>5, <1>6 DEF TakerOK
<1>10. Calm
  BY <1>2, ServiceStays
<1> QED
  BY <1>2, <1>5, <1>6, <1>8, <1>9, <1>10, MapsStay, TakerStep

\* What the invariant says of an acquisition that is under way.
LEMMA TakerFacts ==
  ASSUME E2bInv, NEW c \in Takers, taker[c].at # "idle"
  PROVE  /\ TakerOK(c) /\ taker[c] \in TakerRecord /\ taker[c].of \in Owners
         /\ taker[c].vm \in {0} \cup Vms
         /\ bound \in [Owners -> {0} \cup Vms] /\ inUse \subseteq Vms /\ dead \subseteq inUse
         /\ pool \in Seq(Parking) /\ alive \subseteq Vms /\ unseen \subseteq Owners
         /\ vmOf \in Seq(Owners) /\ Vms = 1 .. Len(vmOf) /\ \A v \in Vms : v \in Nat /\ v # 0 /\ vmOf[v] \in Owners
         /\ blips \in 0 .. MaxBlips /\ Bound /\ Single
<1>1. E2bTypeOK /\ TakerOK(c) /\ Bound /\ Single
  BY DEF E2bInv
<1>2. taker[c] \in TakerRecord
  BY <1>1, E2bTypes
<1>3. taker[c].vm \in {0} \cup Vms /\ taker[c].of \in Owners
  BY <1>1, <1>2 DEF TakerRecord, TakerOK
<1>4. Vms = 1 .. Len(vmOf) /\ \A v \in Vms : v \in Nat /\ v # 0 /\ vmOf[v] \in Owners
  BY <1>1, E2bTypes DEF Vms
<1> QED
  BY <1>1, <1>2, <1>3, <1>4, E2bTypes

LEMMA ReuseLookupStep ==
  ASSUME E2bInv, NEW c \in Takers, ReuseLookup(c)
  PROVE  E2bInv'
<1>1. taker[c].at = "reuse" /\ UNCHANGED <<inUse, dead, pool, service, releaser, ending>>
  BY DEF ReuseLookup, others
<1>2. PICK o \in Owners : o = taker[c].of
  BY <1>1, TakerFacts
<1>3. Calm /\ alive' = alive /\ unseen' = unseen /\ vmOf' = vmOf
  BY <1>1, ServiceStays DEF service
<1>4. Members(pool)' \subseteq Members(pool) /\ pool' \in Seq(Parking)
  BY <1>1, TakerFacts DEF Members
<1>5. CASE bound[o] \in inUse
  <2>1. GoesTo(c, "ping", bound[o]) /\ UNCHANGED bound
    BY <1>2, <1>5 DEF ReuseLookup, Owner
  <2>2. bound[o] \in Vms /\ vmOf[bound[o]] = o
    BY <1>1, <1>5, TakerFacts DEF Bound
  <2>3. Knows(c, "ping", bound[o])
    BY <1>2, <2>1, <2>2 DEF Knows
  <2>4. UNCHANGED registry
    BY <1>1, <2>1 DEF registry
  <2> QED
    BY <1>1, <1>3, <2>1, <2>2, <2>3, <2>4, MapsStay, MoveStep DEF Spots
<1>6. CASE bound[o] \notin inUse
  <2>1. bound' = [bound EXCEPT ![o] = 0] /\ GoesTo(c, "reclaim", 0)
    BY <1>2, <1>6 DEF ReuseLookup, Owner
  <2>2. bound' = bound
    BY <1>1, <1>6, <2>1, TakerFacts DEF Bound
  <2>3. bound'[o] = 0
    BY <1>1, <2>1, TakerFacts
  <2>4. Knows(c, "reclaim", 0)
    BY <1>2, <2>3 DEF Knows
  <2>5. UNCHANGED registry
    BY <1>1, <2>2 DEF registry
  <2> QED
    BY <1>1, <1>3, <2>1, <2>4, <2>5, MapsStay, MoveStep DEF Spots
<1> QED
  BY <1>5, <1>6

LEMMA SeemsCalm ==
  ASSUME E2bInv, NEW v, SeemsAlive(v), UNCHANGED <<vmOf, alive, unseen>>
  PROVE  Calm
<1>1. E2bTypeOK
  BY DEF E2bInv
<1>2. blips' \in 0 .. MaxBlips
  BY <1>1, E2bAssumption, E2bTypes DEF SeemsAlive, Blip
<1> QED
  BY <1>1, <1>2, E2bTypes DEF Calm

LEMMA PingSandboxStep ==
  ASSUME E2bInv, NEW c \in Takers, PingSandbox(c)
  PROVE  E2bInv'
<1>1. taker[c].at = "ping" /\ UNCHANGED <<vmOf, alive, unseen, releaser, ending>>
  BY DEF PingSandbox, others
<1>2. PICK o \in Owners : o = taker[c].of
  BY <1>1, TakerFacts
<1>3. PICK v \in Vms : v = taker[c].vm /\ vmOf[v] = o /\ bound[o] \in {0, v}
  BY <1>1, <1>2, TakerFacts DEF TakerOK
<1>4. CASE SeemsAlive(v) /\ Finishes(c) /\ UNCHANGED registry
  BY <1>1, <1>4, SeemsCalm, MapsStay, EndStep
<1>5. CASE /\ inUse' = inUse \ {v} /\ dead' = dead \ {v}
           /\ bound' = [bound EXCEPT ![o] = 0]
           /\ GoesTo(c, "reclaim", 0)
           /\ UNCHANGED <<pool, blips>>
  <2>1. Calm
    BY <1>1, <1>5, ServiceStays DEF service
  <2>2. bound' \in [Owners -> {0} \cup Vms] /\ \A u \in Owners : bound'[u] \in {0, bound[u]}
    BY <1>1, <1>5, TakerFacts
  <2>3. inUse' \subseteq Vms /\ dead' \subseteq inUse' /\ pool' \in Seq(Parking) /\ Members(pool)' \subseteq Members(pool)
    BY <1>1, <1>5, TakerFacts DEF Members
  <2>4. bound'[o] = 0 /\ \A u \in Owners \ {o} : bound'[u] = bound[u]
    BY <1>1, <1>5, TakerFacts
  <2>5. Bound'
    <3>1. \A u \in Owners \ {o} : bound[u] # v \/ bound[u] = 0
      BY <1>1, <1>3, TakerFacts DEF Bound
    <3>2. \A w \in inUse' : vmOf[w] # o
      BY <1>1, <1>3, <1>5, TakerFacts DEF Bound
    <3> QED
      BY <1>1, <1>5, <2>4, <3>1, <3>2, TakerFacts DEF Bound
  <2>6. Knows(c, "reclaim", 0)
    BY <1>2, <2>4 DEF Knows
  <2> QED
    BY <1>1, <1>5, <2>1, <2>2, <2>3, <2>5, <2>6, MoveStep DEF Spots
<1> QED
  BY <1>2, <1>3, <1>4, <1>5 DEF PingSandbox, Owner

LEMMA ConcatMembers ==
  ASSUME NEW S, NEW a \in Seq(S), NEW b \in Seq(S)
  PROVE  a \o b \in Seq(S) /\ Members(a \o b) \subseteq Members(a) \cup Members(b)
<1>1. Len(a) \in Nat /\ Len(b) \in Nat
  OBVIOUS
<1>2. PICK t : t = a \o b
  OBVIOUS
<1>3. /\ t \in Seq(S) /\ Len(t) = Len(a) + Len(b)
      /\ \A k \in 1 .. Len(a) + Len(b) : t[k] = IF k <= Len(a) THEN a[k] ELSE b[k - Len(a)]
  BY <1>2, ConcatProperties
<1>4. ASSUME NEW k \in 1 .. Len(a) + Len(b) PROVE t[k] \in Members(a) \cup Members(b)
  <2>1. CASE k <= Len(a)
    <3>1. k \in 1 .. Len(a)
      BY <1>1, <2>1
    <3> QED
      BY <1>3, <2>1, <3>1 DEF Members
  <2>2. CASE ~(k <= Len(a))
    <3>1. k - Len(a) \in 1 .. Len(b)
      BY <1>1, <2>2
    <3> QED
      BY <1>3, <2>2, <3>1 DEF Members
  <2> QED
    BY <2>1, <2>2
<1>5. Members(t) \subseteq Members(a) \cup Members(b)
  BY <1>3, <1>4 DEF Members
<1> QED
  BY <1>2, <1>3, <1>5

LEMMA PieceMembers ==
  ASSUME NEW S, NEW s \in Seq(S), NEW m \in Nat, NEW n \in Nat, m >= 1, n <= Len(s)
  PROVE  SubSeq(s, m, n) \in Seq(S) /\ Members(SubSeq(s, m, n)) \subseteq Members(s)
<1>1. Len(s) \in Nat
  OBVIOUS
<1>2. PICK b : b = SubSeq(s, m, n)
  OBVIOUS
<1>3. /\ b \in Seq(S) /\ Len(b) = IF m <= n THEN n - m + 1 ELSE 0
      /\ \A k \in 1 .. Len(b) : b[k] = s[m + k - 1]
  BY <1>1, <1>2
<1>4. \A k \in 1 .. Len(b) : m + k - 1 \in 1 .. Len(s)
  BY <1>1, <1>3
<1>5. Members(b) \subseteq Members(s)
  BY <1>3, <1>4 DEF Members
<1> QED
  BY <1>2, <1>3, <1>5

\* One entry less.
LEMMA EntryOut ==
  ASSUME NEW S, NEW s \in Seq(S), NEW i \in 1 .. Len(s)
  PROVE  /\ SubSeq(s, 1, i - 1) \o SubSeq(s, i + 1, Len(s)) \in Seq(S)
         /\ Members(SubSeq(s, 1, i - 1) \o SubSeq(s, i + 1, Len(s))) \subseteq Members(s)
<1>1. /\ Len(s) \in Nat /\ i - 1 \in Nat /\ i + 1 \in Nat
      /\ i - 1 <= Len(s) /\ 1 \in Nat /\ 1 >= 1 /\ i + 1 >= 1 /\ Len(s) <= Len(s)
  OBVIOUS
<1>2. SubSeq(s, 1, i - 1) \in Seq(S) /\ Members(SubSeq(s, 1, i - 1)) \subseteq Members(s)
  BY <1>1, PieceMembers, Zenon
<1>3. SubSeq(s, i + 1, Len(s)) \in Seq(S) /\ Members(SubSeq(s, i + 1, Len(s))) \subseteq Members(s)
  BY <1>1, PieceMembers, Zenon
<1>4. PICK a : a = SubSeq(s, 1, i - 1)
  OBVIOUS
<1>5. PICK b : b = SubSeq(s, i + 1, Len(s))
  OBVIOUS
<1>6. a \in Seq(S) /\ b \in Seq(S) /\ Members(a) \subseteq Members(s) /\ Members(b) \subseteq Members(s)
  BY <1>2, <1>3, <1>4, <1>5
<1>7. a \o b \in Seq(S) /\ Members(a \o b) \subseteq Members(s)
  BY <1>6, ConcatMembers, Zenon
<1> QED
  BY <1>4, <1>5, <1>7

LEMMA ReclaimWarmStep ==
  ASSUME E2bInv, NEW c \in Takers, ReclaimWarm(c)
  PROVE  E2bInv'
<1>1. taker[c].at = "reclaim" /\ UNCHANGED <<inUse, dead, bound, service, releaser, ending>>
  BY DEF ReclaimWarm, others
<1>2. PICK o \in Owners : o = taker[c].of /\ bound[o] = 0
  BY <1>1, TakerFacts DEF TakerOK
<1>3. Calm /\ alive' = alive /\ unseen' = unseen /\ vmOf' = vmOf
  BY <1>1, ServiceStays DEF service
<1>4. CASE GoesTo(c, "list", 0) /\ UNCHANGED pool
  <2>1. Knows(c, "list", 0)
    BY <1>1, <1>2 DEF Knows
  <2>2. UNCHANGED registry
    BY <1>1, <1>4 DEF registry
  <2> QED
    BY <1>1, <1>3, <1>4, <2>1, <2>2, MapsStay, MoveStep DEF Spots
<1>5. ASSUME NEW i \in ParkedFor(o),
             pool' = SubSeq(pool, 1, i - 1) \o SubSeq(pool, i + 1, Len(pool)),
             GoesTo(c, "reconnect", pool[i].vm)
      PROVE  E2bInv'
  <2>1. i \in 1 .. Len(pool) /\ pool[i].of = o /\ pool[i] \in Parking /\ pool \in Seq(Parking)
    BY <1>1, <1>5, TakerFacts DEF ParkedFor
  <2>2. pool' \in Seq(Parking) /\ Members(pool)' \subseteq Members(pool)
    <3>1. Members(pool)' = Members(pool')
      BY DEF Members
    <3> QED
      BY <1>5, <2>1, <3>1, EntryOut
  <2>3. pool[i] \in Members(pool)
    BY <2>1 DEF Members
  <2>4. pool[i].vm \in Vms /\ vmOf[pool[i].vm] = o
    BY <2>1, <2>3 DEF E2bInv, ParkedRight, Parking
  <2>5. Knows(c, "reconnect", pool[i].vm)
    BY <1>1, <1>2, <2>4 DEF Knows
  <2>6. Bound' /\ inUse' \subseteq Vms /\ dead' \subseteq inUse' /\ bound' \in [Owners -> {0} \cup Vms]
    BY <1>1, <1>3, TakerFacts DEF Bound
  <2>7. \A u \in Owners : bound'[u] \in {0, bound[u]}
    BY <1>1
  <2> QED
    BY <1>1, <1>3, <1>5, <2>2, <2>4, <2>5, <2>6, <2>7, MoveStep DEF Spots
<1> QED
  BY <1>2, <1>4, <1>5 DEF ReclaimWarm, Owner

LEMMA ConnectVmStep ==
  ASSUME E2bInv, NEW c \in Takers, ConnectVm(c)
  PROVE  E2bInv'
<1>1. taker[c].at \in {"reconnect", "connect"} /\ UNCHANGED <<vmOf, alive, registry, releaser, ending>>
  BY DEF ConnectVm, others
<1>2. PICK o \in Owners : o = taker[c].of /\ bound[o] = 0
  BY <1>1, TakerFacts DEF TakerOK
<1>3. PICK v \in Vms : v = taker[c].vm /\ vmOf[v] = o
  BY <1>1, <1>2, TakerFacts DEF TakerOK
<1>4. bound' = bound
  BY <1>1 DEF registry
<1>5. PICK n \in {"list", "count"} : n = IF taker[c].at = "reconnect" THEN "list" ELSE "count"
  OBVIOUS
<1>6. CASE SeemsAlive(v) /\ GoesTo(c, "register", v) /\ UNCHANGED unseen
  <2>1. Knows(c, "register", v)
    BY <1>2, <1>3, <1>4 DEF Knows
  <2> QED
    BY <1>1, <1>6, <2>1, SeemsCalm, MapsStay, MoveStep DEF Spots
<1>7. CASE v \notin alive /\ UNCHANGED <<blips, unseen>> /\ GoesTo(c, n, 0)
  <2>1. Calm
    BY <1>1, <1>7, ServiceStays DEF service
  <2>2. n = "count" /\ o \notin unseen => \A w \in alive : vmOf[w] # o
    BY <1>1, <1>2, <1>3, <1>5, <1>7, TakerFacts DEF TakerOK
  <2>3. Knows(c, n, 0)
    BY <1>1, <1>2, <1>4, <1>7, <2>2 DEF Knows
  <2> QED
    BY <1>1, <1>7, <2>1, <2>3, MapsStay, MoveStep DEF Spots
<1>8. CASE /\ v \in alive /\ Blip
           /\ unseen' = unseen \cup (IF n = "count" THEN {o} ELSE {})
           /\ GoesTo(c, n, 0)
  <2>1. blips' \in 0 .. MaxBlips
    BY <1>1, <1>8, TakerFacts, E2bAssumption DEF Blip
  <2>2. Calm
    BY <1>1, <1>8, <2>1, TakerFacts DEF Calm
  <2>3. Knows(c, n, 0)
    BY <1>2, <1>4, <1>8 DEF Knows
  <2> QED
    BY <1>1, <1>8, <2>2, <2>3, MapsStay, MoveStep DEF Spots
<1> QED
  BY <1>2, <1>3, <1>5, <1>6, <1>7, <1>8 DEF ConnectVm, Owner

LEMMA ListVmsStep ==
  ASSUME E2bInv, NEW c \in Takers, ListVms(c)
  PROVE  E2bInv'
<1>1. taker[c].at = "list" /\ UNCHANGED <<vmOf, alive, registry, releaser, ending>>
  BY DEF ListVms, others
<1>2. PICK o \in Owners : o = taker[c].of /\ bound[o] = 0
  BY <1>1, TakerFacts DEF TakerOK
<1>3. bound' = bound
  BY <1>1 DEF registry
<1>4. ASSUME NEW v \in Tagged(o), GoesTo(c, "connect", v), UNCHANGED <<blips, unseen>>
      PROVE  E2bInv'
  <2>1. v \in alive /\ v \in Vms /\ vmOf[v] = o
    BY <1>1, TakerFacts DEF Tagged
  <2>2. o \notin unseen => \A w \in alive : vmOf[w] = o => w = v
    BY <1>1, <2>1, TakerFacts DEF Single
  <2>3. Knows(c, "connect", v)
    BY <1>1, <1>2, <1>3, <1>4, <2>1, <2>2 DEF Knows
  <2>4. Calm
    BY <1>1, <1>4, ServiceStays DEF service
  <2> QED
    BY <1>1, <1>4, <2>1, <2>3, <2>4, MapsStay, MoveStep DEF Spots
<1>5. CASE Tagged(o) = {} /\ GoesTo(c, "count", 0) /\ UNCHANGED <<blips, unseen>>
  <2>1. \A w \in alive : vmOf[w] # o
    BY <1>5 DEF Tagged
  <2>2. Knows(c, "count", 0)
    BY <1>1, <1>2, <1>3, <2>1 DEF Knows
  <2>3. Calm
    BY <1>1, <1>5, ServiceStays DEF service
  <2> QED
    BY <1>1, <1>5, <2>2, <2>3, MapsStay, MoveStep DEF Spots
<1>6. CASE GoesTo(c, "count", 0) /\ Blip /\ unseen' = unseen \cup {o}
  <2>1. blips' \in 0 .. MaxBlips
    BY <1>1, <1>6, TakerFacts, E2bAssumption DEF Blip
  <2>2. Calm
    BY <1>1, <1>6, <2>1, TakerFacts DEF Calm
  <2>3. Knows(c, "count", 0)
    BY <1>2, <1>3, <1>6 DEF Knows
  <2> QED
    BY <1>1, <1>6, <2>2, <2>3, MapsStay, MoveStep DEF Spots
<1> QED
  BY <1>2, <1>4, <1>5, <1>6 DEF ListVms, Owner

LEMMA CountVmsStep ==
  ASSUME E2bInv, NEW c \in Takers, CountVms(c)
  PROVE  E2bInv'
<1>1. taker[c].at = "count" /\ UNCHANGED <<service, registry, releaser, ending>>
  BY DEF CountVms, others
<1>2. PICK s \in {"evict", "create"} : GoesTo(c, s, 0)
  BY DEF CountVms
<1>3. Calm /\ alive' = alive /\ unseen' = unseen /\ bound' = bound
  BY <1>1, ServiceStays DEF registry
<1>4. Knows(c, s, 0)
  BY <1>1, <1>3, TakerFacts DEF Knows, TakerOK
<1> QED
  BY <1>1, <1>2, <1>3, <1>4, MapsStay, MoveStep DEF Spots

LEMMA TailLess ==
  ASSUME NEW S, NEW s \in Seq(S), s # <<>>
  PROVE  Tail(s) \in Seq(S) /\ Members(Tail(s)) \subseteq Members(s) /\ Head(s) \in Members(s) /\ Head(s) \in S
<1>1. Len(s) \in Nat /\ Len(s) >= 1
  OBVIOUS
<1>2. PICK t : t = Tail(s)
  OBVIOUS
<1>3. t \in Seq(S) /\ Len(t) = Len(s) - 1 /\ \A k \in 1 .. Len(t) : t[k] = s[k + 1]
  BY <1>1, <1>2
<1>4. \A k \in 1 .. Len(t) : k + 1 \in 1 .. Len(s)
  BY <1>1, <1>3
<1>5. Members(t) \subseteq Members(s)
  BY <1>3, <1>4 DEF Members
<1>6. Head(s) = s[1] /\ 1 \in 1 .. Len(s) /\ s[1] \in S
  BY <1>1
<1> QED
  BY <1>2, <1>3, <1>5, <1>6 DEF Members

LEMMA PopOldestStep ==
  ASSUME E2bInv, NEW c \in Takers, PopOldest(c)
  PROVE  E2bInv'
<1>1. taker[c].at = "evict" /\ UNCHANGED <<inUse, dead, bound, service, releaser, ending>>
  BY DEF PopOldest, others
<1>2. Calm /\ alive' = alive /\ unseen' = unseen /\ vmOf' = vmOf
  BY <1>1, ServiceStays DEF service
<1>3. \A v : Knows(c, "create", v) /\ Knows(c, "kill", v)
  BY <1>1, <1>2, TakerFacts DEF Knows, TakerOK
<1>4. CASE pool = <<>>
  <2>1. GoesTo(c, "create", 0) /\ UNCHANGED registry
    BY <1>1, <1>4 DEF PopOldest, registry
  <2> QED
    BY <1>1, <1>2, <1>3, <2>1, MapsStay, MoveStep DEF Spots
<1>5. CASE pool # <<>>
  <2>1. GoesTo(c, "kill", Head(pool).vm) /\ pool' = Tail(pool)
    BY <1>5 DEF PopOldest
  <2>2. /\ pool \in Seq(Parking) /\ Head(pool) \in Parking
        /\ Tail(pool) \in Seq(Parking) /\ Members(Tail(pool)) \subseteq Members(pool)
    BY <1>1, <1>5, TakerFacts, TailLess
  <2>3. Head(pool).vm \in Vms
    BY <2>2 DEF Parking
  <2>4. pool' \in Seq(Parking) /\ Members(pool)' \subseteq Members(pool)
    <3>1. Members(pool)' = Members(Tail(pool))
      BY <2>1 DEF Members
    <3> QED
      BY <2>1, <2>2, <3>1
  <2>5. Bound' /\ inUse' \subseteq Vms /\ dead' \subseteq inUse' /\ bound' \in [Owners -> {0} \cup Vms]
    BY <1>1, <1>2, TakerFacts DEF Bound
  <2>6. \A u \in Owners : bound'[u] \in {0, bound[u]}
    BY <1>1
  <2> QED
    BY <1>1, <1>2, <1>3, <2>1, <2>3, <2>4, <2>5, <2>6, MoveStep DEF Spots
<1> QED
  BY <1>4, <1>5

LEMMA KillCalm ==
  ASSUME E2bInv, NEW v, KillVm(v)
  PROVE  Calm
<1>1. E2bTypeOK
  BY DEF E2bInv
<1>2. blips' \in 0 .. MaxBlips
  BY <1>1, E2bAssumption, E2bTypes DEF KillVm, Blip
<1> QED
  BY <1>1, <1>2, E2bTypes DEF Calm, KillVm

LEMMA KillEvictedStep ==
  ASSUME E2bInv, NEW c \in Takers, KillEvicted(c)
  PROVE  E2bInv'
<1>1. /\ taker[c].at = "kill" /\ GoesTo(c, "create", 0)
      /\ UNCHANGED <<registry, releaser, ending>> /\ Calm
  BY KillCalm DEF KillEvicted, others
<1>2. Knows(c, "create", 0)
  BY <1>1, TakerFacts DEF Knows, TakerOK, Calm, registry
<1> QED
  BY <1>1, <1>2, MapsStay, MoveStep DEF Spots

LEMMA RegisterVmStep ==
  ASSUME E2bInv, NEW c \in Takers, RegisterVm(c)
  PROVE  E2bInv'
<1>1. /\ taker[c].at = "register" /\ Finishes(c)
      /\ UNCHANGED <<pool, service, releaser, ending>>
  BY DEF RegisterVm, others
<1>2. PICK o \in Owners : o = taker[c].of /\ bound[o] = 0
  BY <1>1, TakerFacts DEF TakerOK
<1>3. PICK v \in Vms : v = taker[c].vm /\ vmOf[v] = o
  BY <1>1, <1>2, TakerFacts DEF TakerOK
<1>4. /\ inUse' = inUse \cup {v} /\ dead' = dead \ {v}
      /\ bound' = [bound EXCEPT ![o] = v]
  BY <1>2, <1>3 DEF RegisterVm, Owner
<1>5. Calm /\ vmOf' = vmOf
  BY <1>1, ServiceStays DEF service
<1>6. /\ bound' \in [Owners -> {0} \cup Vms] /\ bound'[o] = v
      /\ \A u \in Owners \ {o} : bound'[u] = bound[u]
  BY <1>1, <1>4, TakerFacts
<1>7. inUse' \subseteq Vms /\ dead' \subseteq inUse'
  BY <1>1, <1>4, TakerFacts
<1>8. Bound'
  <2>1. \A w \in inUse : vmOf[w] # o
    BY <1>1, <1>2, TakerFacts DEF Bound
  <2> QED
    BY <1>1, <1>3, <1>4, <1>5, <1>6, <2>1, TakerFacts DEF Bound
<1> QED
  BY <1>1, <1>2, <1>5, <1>6, <1>7, <1>8, EndStep

LEMMA CreateVmStep ==
  ASSUME E2bInv, NEW c \in Takers, CreateVm(c)
  PROVE  E2bInv'
<1>1. taker[c].at = "create" /\ UNCHANGED <<unseen, registry, releaser, ending>>
  BY DEF CreateVm, others
<1>2. PICK o \in Owners : o = taker[c].of /\ bound[o] = 0
  BY <1>1, TakerFacts DEF TakerOK
<1>3. CASE Blip /\ Finishes(c) /\ UNCHANGED <<vmOf, alive>>
  <2>1. blips' \in 0 .. MaxBlips
    BY <1>1, <1>3, TakerFacts, E2bAssumption DEF Blip
  <2>2. Calm
    BY <1>1, <1>3, <2>1, TakerFacts DEF Calm
  <2> QED
    BY <1>1, <1>3, <2>2, MapsStay, EndStep
<1>4. CASE /\ Len(vmOf) < MaxVms
           /\ vmOf' = Append(vmOf, o)
           /\ alive' = alive \cup {Len(vmOf')}
           /\ GoesTo(c, "register", Len(vmOf'))
           /\ UNCHANGED blips
  <2>1. PICK n \in Nat : n = Len(vmOf) + 1
    BY <1>1, TakerFacts
  <2>2. /\ vmOf' \in Seq(Owners) /\ Len(vmOf') = n /\ Len(vmOf') <= MaxVms
        /\ vmOf'[n] = o /\ \A v \in Vms : vmOf'[v] = vmOf[v]
    BY <1>1, <1>4, <2>1, TakerFacts, E2bAssumption
  <2>3. Vms' = Vms \cup {n} /\ n \notin Vms /\ Vms \subseteq Vms'
    BY <1>1, <2>1, <2>2, TakerFacts DEF Vms
  <2>4. PICK f : f = [at |-> "register", of |-> o, vm |-> n, popped |-> FALSE]
    OBVIOUS
  <2>5. f \in TakerRecord' /\ f.at = "register" /\ f.of = o /\ f.vm = n
    BY <2>3, <2>4 DEF TakerRecord, Spots
  <2>6. taker' = [taker EXCEPT ![c] = f] /\ threadLock' = threadLock
    BY <1>2, <1>4, <2>2, <2>4 DEF GoesTo
  <2>7. TakerRecord \subseteq TakerRecord' /\ ReleaserRecord \subseteq ReleaserRecord' /\ Parking \subseteq Parking'
    BY <2>3 DEF TakerRecord, ReleaserRecord, Parking
  <2>8. E2bTypeOK /\ Bound /\ ParkedRight /\ Single /\ (\A d \in Takers : TakerOK(d)) /\ \A r \in Releasers : ReleaserOK(r)
    BY DEF E2bInv
  <2>9. /\ taker' \in [Takers -> TakerRecord'] /\ taker'[c] = f
        /\ \A d \in Takers \ {c} : taker'[d] = taker[d]
    BY <2>5, <2>6, <2>7, <2>8, E2bTypes
  <2>10. UNCHANGED <<inUse, dead, bound, pool>>
    BY <1>1 DEF registry
  <2>11. releaser' \in [Releasers -> ReleaserRecord'] /\ ending' \in [called : BOOLEAN, vms : SUBSET Vms']
    BY <1>1, <2>3, <2>7, <2>8, E2bTypes
  <2>12. pool' \in Seq(Parking') /\ alive' \subseteq Vms' /\ bound' \in [Owners -> {0} \cup Vms']
    BY <1>4, <2>2, <2>3, <2>7, <2>8, <2>10, E2bTypes
  <2>13. E2bTypeOK'
    BY <1>1, <1>4, <2>2, <2>3, <2>6, <2>8, <2>9, <2>10, <2>11, <2>12, E2bTypes, E2bTypesNext
  <2>14. \A e \in Members(pool) : e \in Parking
    BY <2>8, E2bTypes DEF Members
  <2>15. /\ vmOf \in Seq(Owners) /\ alive \subseteq Vms /\ inUse \subseteq Vms
         /\ bound \in [Owners -> {0} \cup Vms]
         /\ \A e \in Members(pool) : e.vm \in Vms
    <3>1. \A e \in Parking : e.vm \in Vms
      BY DEF Parking
    <3> QED
      BY <2>8, <2>14, <3>1, E2bTypes
  <2>16. Bound'
    BY <2>2, <2>8, <2>10, <2>15 DEF Bound
  <2>17. ParkedRight'
    BY <2>2, <2>8, <2>10, <2>15 DEF ParkedRight, Members
  <2>18. \A w \in alive' : w = n \/ (w \in alive /\ w \in Vms /\ vmOf'[w] = vmOf[w])
    BY <1>4, <2>2, <2>15
  <2>19. o \notin unseen => \A w \in alive : vmOf[w] # o
    BY <1>1, <1>2, <2>8 DEF TakerOK
  <2>20. Single'
    BY <1>1, <2>2, <2>8, <2>18, <2>19 DEF Single
  <2>21. TakerOK(c)'
    BY <1>1, <1>2, <2>2, <2>3, <2>5, <2>6, <2>8, <2>9, <2>10 DEF TakerOK
  <2>22. ASSUME NEW d \in Takers \ {c} PROVE TakerOK(d)'
    <3>1. taker[d].at # "idle" => taker[d].of # o
      BY <1>1, <1>2, <2>8 DEF TakerOK
    <3>2. taker'[d] = taker[d] /\ TakerOK(d)
      BY <2>8, <2>9
    <3> QED
      BY <1>1, <2>2, <2>3, <2>6, <2>10, <2>18, <3>1, <3>2 DEF TakerOK
  <2>23. \A r \in Releasers : ReleaserOK(r)'
    BY <1>1, <2>2, <2>3, <2>8 DEF ReleaserOK
  <2> QED
    BY <2>13, <2>16, <2>17, <2>20, <2>21, <2>22, <2>23 DEF E2bInv
<1> QED
  BY <1>2, <1>3, <1>4 DEF CreateVm, Owner

-----------------------------------------------------------------------------
\* A step outside the acquisitions, which at most notes that a sandbox they ping
\* has been taken.
LEMMA OutsideTakers ==
  ASSUME E2bInv, Calm, UNCHANGED threadLock,
         taker' \in [Takers -> TakerRecord],
         \A d \in Takers : /\ taker'[d].at = taker[d].at /\ taker'[d].of = taker[d].of
                           /\ taker'[d].vm = taker[d].vm,
         releaser' \in [Releasers -> ReleaserRecord],
         \A r \in Releasers : ReleaserOK(r)',
         ending' \in [called : BOOLEAN, vms : SUBSET Vms],
         inUse' \subseteq Vms, dead' \subseteq inUse', bound' \in [Owners -> {0} \cup Vms],
         \A o \in Owners : bound'[o] \in {0, bound[o]},
         pool' \in Seq(Parking), ParkedRight', Bound'
  PROVE  E2bInv'
<1>1. /\ E2bTypeOK /\ \A d \in Takers : TakerOK(d)
  BY DEF E2bInv
<1>2. vmOf' = vmOf /\ Vms' = Vms /\ TakerRecord' = TakerRecord /\ ReleaserRecord' = ReleaserRecord
      /\ Parking' = Parking
  BY DEF Calm, Vms, TakerRecord, ReleaserRecord, Parking
<1>3. alive' \subseteq Vms /\ unseen' \subseteq Owners /\ blips' \in 0 .. MaxBlips
  BY <1>1, E2bTypes DEF Calm
<1>4. E2bTypeOK'
  BY <1>1, <1>2, <1>3, E2bTypes, E2bTypesNext
<1>5. ASSUME NEW d \in Takers PROVE TakerOK(d)'
  <2>1. TakerOK(d) /\ bound \in [Owners -> {0} \cup Vms]
    BY <1>1, E2bTypes
  <2>2. taker[d].at # "idle" => threadLock'[taker[d].of] = d
    BY <2>1 DEF TakerOK
  <2> QED
    BY <2>1, <2>2, TakerKept
<1>6. Single'
  BY SingleKept DEF E2bInv
<1> QED
  BY <1>4, <1>5, <1>6 DEF E2bInv

\* What the invariant says of the maps and the releases.
LEMMA DeskFacts ==
  ASSUME E2bInv
  PROVE  /\ bound \in [Owners -> {0} \cup Vms] /\ inUse \subseteq Vms /\ dead \subseteq inUse
         /\ pool \in Seq(Parking) /\ alive \subseteq Vms /\ unseen \subseteq Owners
         /\ taker \in [Takers -> TakerRecord] /\ releaser \in [Releasers -> ReleaserRecord]
         /\ ending \in [called : BOOLEAN, vms : SUBSET Vms]
         /\ Vms \subseteq Nat \ {0} /\ \A v \in Vms : vmOf[v] \in Owners
         /\ blips \in 0 .. MaxBlips /\ Bound /\ ParkedRight
         /\ \A r \in Releasers : ReleaserOK(r)
<1>1. E2bTypeOK /\ Bound /\ ParkedRight /\ \A r \in Releasers : ReleaserOK(r)
  BY DEF E2bInv
<1>2. Vms \subseteq Nat \ {0} /\ \A v \in Vms : vmOf[v] \in Owners
  BY <1>1, E2bTypes DEF Vms
<1> QED
  BY <1>1, <1>2, E2bTypes

LEMMA ParkedStays ==
  ASSUME ParkedRight, UNCHANGED <<pool, vmOf>>
  PROVE  ParkedRight'
  BY DEF ParkedRight, Members

LEMMA ReapedStep ==
  ASSUME E2bInv, NEW v, Reaped(v)
  PROVE  E2bInv'
<1>1. Blip /\ alive' = alive \ {v} /\ UNCHANGED <<vmOf, unseen, inUse, dead, bound, pool, threadLock, taker, releaser, ending>>
  BY DEF Reaped, registry, others
<1>2. blips' \in 0 .. MaxBlips
  BY <1>1, DeskFacts, E2bAssumption DEF Blip
<1>3. Calm
  BY <1>1, <1>2, DeskFacts DEF Calm
<1>4. ParkedRight' /\ Bound'
  BY <1>1, DeskFacts, ParkedStays DEF Bound
<1>5. \A r \in Releasers : ReleaserOK(r)'
  BY <1>1, <1>3, DeskFacts, ReleasersKept
<1> QED
  BY <1>1, <1>3, <1>4, <1>5, DeskFacts, OutsideTakers

LEMMA CommandFailsStep ==
  ASSUME E2bInv, NEW v, CommandFails(v)
  PROVE  E2bInv'
<1>1. v \in inUse /\ dead' = dead \cup {v} /\ UNCHANGED <<service, vmOf, inUse, bound, pool, threadLock, taker, releaser, ending>>
  BY DEF CommandFails, others, service
<1>2. Calm
  BY <1>1, ServiceStays
<1>3. ParkedRight' /\ Bound' /\ dead' \subseteq inUse'
  BY <1>1, DeskFacts, ParkedStays DEF Bound
<1>4. \A r \in Releasers : ReleaserOK(r)'
  BY <1>1, <1>2, DeskFacts, ReleasersKept
<1> QED
  BY <1>1, <1>2, <1>3, <1>4, DeskFacts, OutsideTakers

LEMMA KillOnExitStep ==
  ASSUME E2bInv, NEW v, KillOnExit(v)
  PROVE  E2bInv'
<1>1. /\ KillVm(v) /\ ending' = [ending EXCEPT !.vms = @ \ {v}]
      /\ UNCHANGED <<inUse, dead, bound, pool, threadLock, taker, releaser>>
  BY DEF KillOnExit, registry
<1>2. Calm
  BY <1>1, KillCalm
<1>3. ending' \in [called : BOOLEAN, vms : SUBSET Vms]
  BY <1>1, DeskFacts
<1>4. ParkedRight' /\ Bound'
  BY <1>1, <1>2, DeskFacts, ParkedStays DEF Bound, Calm
<1>5. \A r \in Releasers : ReleaserOK(r)'
  BY <1>1, <1>2, DeskFacts, ReleasersKept
<1> QED
  BY <1>1, <1>2, <1>3, <1>4, <1>5, DeskFacts, OutsideTakers

\* A release that goes on, or ends.
LEMMA ReleaserMoves ==
  ASSUME E2bInv, NEW r \in Releasers, vmOf' = vmOf, NEW f \in ReleaserRecord, Releases(r, f),
         f.at # "idle" => f.vm \in Vms /\ f.of = vmOf[f.vm]
  PROVE  releaser' \in [Releasers -> ReleaserRecord] /\ \A q \in Releasers : ReleaserOK(q)'
<1>1. Vms' = Vms
  BY DEF Vms
<1>2. releaser' = [releaser EXCEPT ![r] = f] /\ releaser \in [Releasers -> ReleaserRecord]
  BY DeskFacts DEF Releases
<1>3. releaser'[r] = f /\ \A q \in Releasers \ {r} : releaser'[q] = releaser[q]
  BY <1>2
<1>4. ASSUME NEW q \in Releasers PROVE ReleaserOK(q)'
  BY <1>1, <1>3, DeskFacts DEF ReleaserOK
<1> QED
  BY <1>2, <1>4

LEMMA ClosedFits == Closed \in ReleaserRecord /\ Closed.at = "idle"
  BY DEF Closed, ReleaserRecord

LEMMA SyncOutputsStep ==
  ASSUME E2bInv, NEW r \in Releasers, SyncOutputs(r)
  PROVE  E2bInv'
<1>1. /\ releaser[r].at = "sync"
      /\ UNCHANGED <<vmOf, alive, unseen, inUse, dead, bound, pool, threadLock, taker, ending>>
  BY DEF SyncOutputs, registry
<1>2. Calm
  <2>1. blips' \in 0 .. MaxBlips
    BY DeskFacts, E2bAssumption DEF SyncOutputs, SeemsAlive, Blip
  <2> QED
    BY <1>1, <2>1, DeskFacts DEF Calm
<1>3. PICK s \in {"kill", "park"} : Releases(r, [releaser[r] EXCEPT !.at = s])
  BY DEF SyncOutputs
<1>4. releaser[r] \in ReleaserRecord /\ releaser[r].vm \in Vms /\ releaser[r].of = vmOf[releaser[r].vm]
  BY <1>1, DeskFacts DEF ReleaserOK
<1>5. PICK f : f = [releaser[r] EXCEPT !.at = s]
  OBVIOUS
<1>6. f \in ReleaserRecord /\ f.vm = releaser[r].vm /\ f.of = releaser[r].of
  BY <1>4, <1>5 DEF ReleaserRecord
<1>7. releaser' \in [Releasers -> ReleaserRecord] /\ \A q \in Releasers : ReleaserOK(q)'
  BY <1>1, <1>3, <1>4, <1>5, <1>6, ReleaserMoves
<1>8. ParkedRight' /\ Bound'
  BY <1>1, DeskFacts, ParkedStays DEF Bound
<1> QED
  BY <1>1, <1>2, <1>7, <1>8, DeskFacts, OutsideTakers

LEMMA KillReleasedStep ==
  ASSUME E2bInv, NEW r \in Releasers, KillReleased(r)
  PROVE  E2bInv'
<1>1. /\ KillVm(releaser[r].vm) /\ Releases(r, Closed)
      /\ UNCHANGED <<inUse, dead, bound, pool, threadLock, taker, ending>>
  BY DEF KillReleased, registry
<1>2. Calm
  BY <1>1, KillCalm
<1>3. releaser' \in [Releasers -> ReleaserRecord] /\ \A q \in Releasers : ReleaserOK(q)'
  BY <1>1, <1>2, ClosedFits, ReleaserMoves DEF Calm
<1>4. ParkedRight' /\ Bound'
  BY <1>1, <1>2, DeskFacts, ParkedStays DEF Bound, Calm
<1> QED
  BY <1>1, <1>2, <1>3, <1>4, DeskFacts, OutsideTakers

LEMMA ParkVmStep ==
  ASSUME E2bInv, NEW r \in Releasers, ParkVm(r)
  PROVE  E2bInv'
<1>1. /\ releaser[r].at = "park" /\ Releases(r, Closed)
      /\ UNCHANGED <<service, vmOf, inUse, dead, bound, threadLock, taker, ending>>
  BY DEF ParkVm, service
<1>2. Calm
  BY <1>1, ServiceStays
<1>3. releaser' \in [Releasers -> ReleaserRecord] /\ \A q \in Releasers : ReleaserOK(q)'
  BY <1>1, ClosedFits, ReleaserMoves
<1>4. PICK v \in Vms : v = releaser[r].vm /\ releaser[r].of = vmOf[v]
  BY <1>1, DeskFacts DEF ReleaserOK
<1>5. PICK e : e = [vm |-> v, of |-> releaser[r].of]
  OBVIOUS
<1>6. e \in Parking /\ e.of = vmOf[e.vm]
  BY <1>4, <1>5, DeskFacts DEF Parking
<1>7. PICK K : K = [vm : Vms \ {v}, of : Owners \cup {NoThread}]
  OBVIOUS
<1>8. pool' = Append(Kept(pool, K), e)
  BY <1>4, <1>5, <1>7 DEF ParkVm
<1>9. Kept(pool, K) \in Seq(Parking) /\ Members(Kept(pool, K)) = Members(pool) \cap K
  BY DeskFacts, KeptProperties
<1>10. pool' \in Seq(Parking) /\ Members(pool') = (Members(pool) \cap K) \cup {e}
  BY <1>6, <1>8, <1>9, AppendAdds
<1>11. ParkedRight'
  <2>1. Members(pool)' = Members(pool')
    BY DEF Members
  <2> QED
    BY <1>1, <1>6, <1>10, <2>1, DeskFacts DEF ParkedRight
<1>12. Bound'
  BY <1>1, DeskFacts DEF Bound
<1> QED
  BY <1>1, <1>2, <1>3, <1>10, <1>11, <1>12, DeskFacts, OutsideTakers

\* The acquisitions that ping a sandbox in V learn that it was taken.
LEMMA Popping ==
  ASSUME taker \in [Takers -> TakerRecord], NEW C \in SUBSET Takers,
         taker' = [c \in Takers |-> IF c \in C THEN [taker[c] EXCEPT !.popped = TRUE] ELSE taker[c]]
  PROVE  /\ taker' \in [Takers -> TakerRecord]
         /\ \A d \in Takers : /\ taker'[d].at = taker[d].at /\ taker'[d].of = taker[d].of
                              /\ taker'[d].vm = taker[d].vm
<1>1. PICK b \in BOOLEAN : b = TRUE
  OBVIOUS
<1>2. ASSUME NEW d \in Takers
      PROVE  /\ taker'[d] \in TakerRecord
             /\ taker'[d].at = taker[d].at /\ taker'[d].of = taker[d].of /\ taker'[d].vm = taker[d].vm
  <2>1. PICK a \in TakerRecord : a = taker[d]
    OBVIOUS
  <2>2. PICK f : f = [a EXCEPT !.popped = b]
    OBVIOUS
  <2>3. f \in TakerRecord /\ f.at = a.at /\ f.of = a.of /\ f.vm = a.vm
    BY <2>2 DEF TakerRecord
  <2>4. taker'[d] \in {f, a}
    BY <1>1, <2>1, <2>2
  <2> QED
    BY <2>1, <2>3, <2>4
<1> QED
  BY <1>2

LEMMA ReleaseVmStep ==
  ASSUME E2bInv, NEW r \in Releasers, NEW v \in inUse, ReleaseVm(r, v)
  PROVE  E2bInv'
<1>1. PICK o \in Owners : vmOf[v] = o /\ bound[o] = v /\ v \in Vms /\ v # 0
  BY DeskFacts DEF Bound
<1>2. {u \in Owners : bound[u] = v} = {o}
  BY <1>1, DeskFacts DEF Bound
<1>3. /\ inUse' = inUse \ {v} /\ dead' = dead \ {v}
      /\ bound' = [u \in Owners |-> IF u \in {o} THEN 0 ELSE bound[u]]
      /\ taker' = [c \in Takers |-> IF taker[c].at = "ping" /\ taker[c].vm = v
                                    THEN [taker[c] EXCEPT !.popped = TRUE] ELSE taker[c]]
      /\ UNCHANGED <<pool, vmOf, service, threadLock, ending>>
  BY <1>2 DEF ReleaseVm, service
<1>4. PICK s \in {"kill", "park", "sync"} : Releases(r, [at |-> s, of |-> o, vm |-> v])
  <2>1. (CHOOSE u \in {o} : TRUE) = o
    OBVIOUS
  <2> QED
    BY <1>2, <2>1 DEF ReleaseVm
<1>5. Calm
  BY <1>3, ServiceStays
<1>6. PICK f : f = [at |-> s, of |-> o, vm |-> v]
  OBVIOUS
<1>7. f \in ReleaserRecord /\ f.vm = v /\ f.of = o
  BY <1>1, <1>6 DEF ReleaserRecord
<1>8. releaser' \in [Releasers -> ReleaserRecord] /\ \A q \in Releasers : ReleaserOK(q)'
  BY <1>1, <1>3, <1>4, <1>6, <1>7, ReleaserMoves
<1>9. PICK C \in SUBSET Takers : C = {c \in Takers : taker[c].at = "ping" /\ taker[c].vm = v}
  OBVIOUS
<1>10. taker' = [c \in Takers |-> IF c \in C THEN [taker[c] EXCEPT !.popped = TRUE] ELSE taker[c]]
  BY <1>3, <1>9
<1>11. /\ taker' \in [Takers -> TakerRecord]
       /\ \A d \in Takers : /\ taker'[d].at = taker[d].at /\ taker'[d].of = taker[d].of
                            /\ taker'[d].vm = taker[d].vm
  BY <1>10, DeskFacts, Popping
<1>12. /\ bound' \in [Owners -> {0} \cup Vms] /\ \A u \in Owners : bound'[u] \in {0, bound[u]}
       /\ bound'[o] = 0 /\ \A u \in Owners \ {o} : bound'[u] = bound[u]
  BY <1>3, DeskFacts
<1>13. inUse' \subseteq Vms /\ dead' \subseteq inUse' /\ pool' \in Seq(Parking)
  BY <1>3, DeskFacts
<1>14. Bound'
  <2>1. \A u \in Owners \ {o} : bound[u] # v
    BY <1>2
  <2>2. \A w \in inUse \ {v} : vmOf[w] # o
    BY <1>1, DeskFacts DEF Bound
  <2> QED
    BY <1>3, <1>12, <2>1, <2>2, DeskFacts DEF Bound
<1>15. ParkedRight'
  BY <1>3, DeskFacts, ParkedStays
<1> QED
  BY <1>3, <1>5, <1>8, <1>11, <1>12, <1>13, <1>14, <1>15, DeskFacts, OutsideTakers

LEMMA EmptyMaps ==
  ASSUME inUse' = {}, dead' = {}, pool' = <<>>, bound' = [o \in Owners |-> 0]
  PROVE  /\ inUse' \subseteq Vms /\ dead' \subseteq inUse' /\ bound' \in [Owners -> {0} \cup Vms]
         /\ \A o \in Owners : bound'[o] \in {0, bound[o]}
         /\ pool' \in Seq(Parking) /\ ParkedRight' /\ Bound'
<1>1. Members(pool)' = {}
  BY DEF Members
<1> QED
  BY <1>1 DEF ParkedRight, Bound

LEMMA ShutsDownStep ==
  ASSUME E2bInv, ShutsDown
  PROVE  E2bInv'
<1>1. /\ Blip /\ inUse' = {} /\ dead' = {} /\ pool' = <<>> /\ bound' = [o \in Owners |-> 0]
      /\ UNCHANGED <<vmOf, alive, unseen, threadLock, releaser>>
  BY DEF ShutsDown
<1>2. blips' \in 0 .. MaxBlips
  BY <1>1, DeskFacts, E2bAssumption DEF Blip
<1>3. Calm
  BY <1>1, <1>2, DeskFacts DEF Calm
<1>4. PICK V : V = inUse \cup {pool[i].vm : i \in DOMAIN pool}
  OBVIOUS
<1>5. V \subseteq Vms
  <2>1. \A e \in Parking : e.vm \in Vms
    BY DEF Parking
  <2> QED
    BY <1>4, <2>1, DeskFacts
<1>6. ending' = [called |-> TRUE, vms |-> V]
  BY <1>4 DEF ShutsDown
<1>7. ending' \in [called : BOOLEAN, vms : SUBSET Vms]
  BY <1>5, <1>6
<1>8. PICK C \in SUBSET Takers : C = {c \in Takers : taker[c].at = "ping"}
  OBVIOUS
<1>9. taker' = [c \in Takers |-> IF c \in C THEN [taker[c] EXCEPT !.popped = TRUE] ELSE taker[c]]
  BY <1>8 DEF ShutsDown
<1>10. /\ taker' \in [Takers -> TakerRecord]
       /\ \A d \in Takers : /\ taker'[d].at = taker[d].at /\ taker'[d].of = taker[d].of
                            /\ taker'[d].vm = taker[d].vm
  BY <1>9, DeskFacts, Popping
<1>11. \A q \in Releasers : ReleaserOK(q)'
  BY <1>1, <1>3, DeskFacts, ReleasersKept
<1> QED
  BY <1>1, <1>3, <1>7, <1>10, <1>11, DeskFacts, EmptyMaps, OutsideTakers

LEMMA RestartsStep ==
  ASSUME E2bInv, Restarts
  PROVE  E2bInv'
<1>1. /\ inUse' = {} /\ dead' = {} /\ pool' = <<>> /\ bound' = [o \in Owners |-> 0]
      /\ threadLock' = [o \in Owners |-> NoThread]
      /\ taker' = [c \in Takers |-> AtRest] /\ releaser' = [r \in Releasers |-> Closed]
      /\ ending' = [called |-> FALSE, vms |-> {}]
      /\ UNCHANGED <<vmOf, alive, unseen>>
  BY DEF Restarts
<1>2. blips' \in 0 .. MaxBlips
  BY DeskFacts, E2bAssumption DEF Restarts, Blip
<1>3. Calm
  BY <1>1, <1>2, DeskFacts DEF Calm
<1>4. vmOf' = vmOf /\ Vms' = Vms /\ TakerRecord' = TakerRecord /\ ReleaserRecord' = ReleaserRecord
      /\ Parking' = Parking
  BY <1>1 DEF Vms, TakerRecord, ReleaserRecord, Parking
<1>5. AtRest \in TakerRecord /\ AtRest.at = "idle"
  BY DEF AtRest, TakerRecord, Spots
<1>6. taker' \in [Takers -> TakerRecord] /\ releaser' \in [Releasers -> ReleaserRecord]
  BY <1>1, <1>5, ClosedFits
<1>7. ending' \in [called : BOOLEAN, vms : SUBSET Vms]
  BY <1>1
<1>8. threadLock' \in [Owners -> Takers \cup {NoThread}]
  BY <1>1
<1>9. E2bTypeOK
  BY DEF E2bInv
<1>10. /\ inUse' \subseteq Vms /\ dead' \subseteq inUse' /\ bound' \in [Owners -> {0} \cup Vms]
       /\ pool' \in Seq(Parking) /\ ParkedRight' /\ Bound'
  BY <1>1, EmptyMaps
<1>11. E2bTypeOK'
  BY <1>1, <1>2, <1>4, <1>6, <1>7, <1>8, <1>9, <1>10, E2bTypes, E2bTypesNext
<1>12. \A c \in Takers : TakerOK(c)'
  BY <1>1, <1>5 DEF TakerOK
<1>13. \A r \in Releasers : ReleaserOK(r)'
  BY <1>1, ClosedFits DEF ReleaserOK
<1>14. Single'
  BY <1>3, SingleKept DEF E2bInv
<1> QED
  BY <1>10, <1>11, <1>12, <1>13, <1>14 DEF E2bInv

LEMMA E2bNextInv == E2bInv /\ [E2bNext]_e2bVars => E2bInv'
<1> SUFFICES ASSUME E2bInv, [E2bNext]_e2bVars PROVE E2bInv'
  OBVIOUS
<1>1. CASE UNCHANGED e2bVars
  <2>1. UNCHANGED <<service, registry, threadLock, taker, releaser, ending, vmOf, pool>>
    BY <1>1 DEF e2bVars, service, registry
  <2>2. Calm
    BY <2>1, ServiceStays
  <2>3. ParkedRight' /\ \A r \in Releasers : ReleaserOK(r)'
    BY <2>1, <2>2, DeskFacts, ParkedStays, ReleasersKept
  <2> QED
    BY <2>1, <2>2, <2>3, DeskFacts, MapsStay, OutsideTakers
<1>2. ASSUME NEW c \in Takers,
             \/ \E o \in Owners : TakeLock(c, o)
             \/ ReuseLookup(c) \/ PingSandbox(c) \/ ReclaimWarm(c) \/ ConnectVm(c) \/ ListVms(c)
             \/ CountVms(c) \/ PopOldest(c) \/ KillEvicted(c) \/ CreateVm(c) \/ RegisterVm(c)
      PROVE  E2bInv'
  BY <1>2, TakeLockStep, ReuseLookupStep, PingSandboxStep, ReclaimWarmStep, ConnectVmStep,
     ListVmsStep, CountVmsStep, PopOldestStep, KillEvictedStep, CreateVmStep, RegisterVmStep
<1>3. ASSUME NEW r \in Releasers,
             \/ \E v \in inUse : ReleaseVm(r, v)
             \/ SyncOutputs(r) \/ KillReleased(r) \/ ParkVm(r)
      PROVE  E2bInv'
  BY <1>3, ReleaseVmStep, SyncOutputsStep, KillReleasedStep, ParkVmStep
<1>4. ASSUME NEW v \in Vms, Reaped(v) \/ CommandFails(v) \/ KillOnExit(v)
      PROVE  E2bInv'
  BY <1>4, ReapedStep, CommandFailsStep, KillOnExitStep
<1> QED
  BY <1>1, <1>2, <1>3, <1>4, ShutsDownStep, RestartsStep DEF E2bNext

\* The inductive invariant of E2BSandboxProvider, for any number of threads,
\* acquisitions and releases.
THEOREM E2bInvariant == E2bSpec => []E2bInv
  BY E2bInitInv, E2bNextInv, PTL DEF E2bSpec

\* What it says of the machine a taker is given.
LEMMA E2bInvOwn == E2bInv => OwnVmOnly
  BY DEF E2bInv, OwnVmOnly, Bound, ParkedRight, Members

\* A thread is given only machines that E2BSandboxProvider made for it, and the
\* pool has every machine under the seed of its thread.
THEOREM OwnMachines == E2bSpec => []OwnVmOnly
  BY E2bInvOwn, E2bInvariant, PTL

\* What the provider's invariant says of the machines of a thread.
LEMMA E2bInvSingle == E2bInv => OneVmPerThread
<1> SUFFICES ASSUME E2bInv, NEW o \in Owners \ unseen PROVE Cardinality(Tagged(o)) <= 1
  BY DEF OneVmPerThread
<1>1. \A v, w \in Tagged(o) : v = w
  BY DEF E2bInv, Single, Tagged
<1>2. CASE Tagged(o) = {}
  BY <1>2, FS_EmptySet
<1>3. CASE Tagged(o) # {}
  <2>1. PICK v : Tagged(o) = {v}
    BY <1>1, <1>3
  <2> QED
    BY <2>1, FS_Singleton
<1> QED
  BY <1>2, <1>3

\* E2BSandboxProvider.acquire makes no second machine for a thread, whatever
\* releases, evictions and ends of the process its search meets, unless a call of
\* the service failed.
THEOREM OneMachine == E2bSpec => []OneVmPerThread
  BY E2bInvSingle, E2bInvariant, PTL

=============================================================================
