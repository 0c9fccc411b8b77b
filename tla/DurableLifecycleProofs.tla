----------------------- MODULE DurableLifecycleProofs -----------------------
(***************************************************************************)
(* The inductive invariant of the commit boundary, and the proofs, for any *)
(* number of tasks, executors and events, that what is released is durable *)
(* and released once, that the coordinator agrees with the store, and      *)
(* (with a second invariant) that a caller told of success can rely on it. *)
(***************************************************************************)
EXTENDS DurableLifecycle, TLAPS

\* Zenon proves a leaf unless the leaf cites SMT.
USE ZenonT(60)

Kinds == UserKinds \union FollowUpKinds
Stored == [generation: Nat, plaintext: Checkpoints \union {None}]
Phases == {"idle", "commit", "applied", "load", "committed", "conflict", "loaded", "failed"}

StoreTyped ==
  /\ reg \in Stored
  /\ reg.generation > 0 => reg.plaintext \in Checkpoints
  /\ call \in [{App} -> [phase: Phases, record: Stored]]

CoordTyped ==
  /\ coord \in [state: {"uninitialized", "bootstrapping", "ready", "pendingExport",
                        "pendingCommit", "failed"},
                generation: Nat, event: {NoEvent} \union Events,
                effects: Batches \union {<<>>}, checkpoint: Checkpoints]
  /\ coordLock \in Tasks \union {None}
  /\ mem \in Checkpoints

TaskTyped ==
  /\ pc \in [Tasks -> Locations]
  /\ event \in [Tasks -> {NoEvent} \union Events]
  /\ pending \in [Executors -> {NoEvent} \union Events]
  /\ sent \in Seq(Kinds) /\ Len(sent) <= MaxEvents
  /\ releases \in [Events -> Nat]

Inside == {"commit", "recommit", "reconcile"}

\* Whoever is inside a coordinator call that waits for the store holds its
\* lock, and the coordinator retains a checkpoint meanwhile.
Locked ==
  /\ \A t \in Tasks : pc[t] \in Inside <=> coordLock = t
  /\ coordLock # None => coord.state = "pendingCommit"

NextRecord == [generation |-> coord.generation + 1, plaintext |-> coord.checkpoint]

\* Where the outstanding store call stands: one is under way only inside a
\* coordinator call, a commit is of the retained checkpoint, and an answer
\* tells what the register holds.
Calling ==
  LET c == call[App] IN
  /\ coordLock = None /\ coord.state # "bootstrapping" => c.phase \notin Store!Outstanding
  /\ coord.state = "bootstrapping" => c.phase \in {"load", "loaded", "failed"}
  /\ \A t \in Tasks : pc[t] \in {"commit", "recommit"} =>
       /\ c.phase \in {"commit", "applied", "committed", "conflict", "failed"}
       /\ c.phase \in {"commit", "applied", "committed"} => c.record = NextRecord
       /\ c.phase \in {"applied", "committed"} => reg = NextRecord
  /\ \A t \in Tasks : pc[t] = "reconcile" => c.phase \in {"load", "loaded", "failed"}
  /\ c.phase = "loaded" => c.record = reg

\* What the coordinator retains: an event of this process that was absorbed
\* and not released, and a checkpoint between the committed one and memory.
Retained ==
  /\ CoordinatorAgreesWithStore
  /\ Pending => /\ coord.event \in 1 .. Len(sent)
                /\ coord.event \in mem
                /\ releases[coord.event] = 0
                /\ Absorbed \subseteq mem
  /\ coord.state = "pendingCommit" => /\ coord.event \in coord.checkpoint
                                      /\ Absorbed \subseteq coord.checkpoint
                                      /\ coord.checkpoint \subseteq mem

\* An event on its way to Core is new: it was never released, nobody else
\* brings it, and the coordinator does not retain it.
Fresh ==
  /\ \A e \in Events : e > Len(sent) => releases[e] = 0
  /\ \A t \in Tasks : pc[t] \in {"invoke", "handle"} =>
       /\ event[t] \in 1 .. Len(sent)
       /\ releases[event[t]] = 0
       /\ Pending => event[t] # coord.event
  /\ \A t, u \in Tasks :
       t # u /\ pc[t] \in {"invoke", "handle"} /\ pc[u] \in {"invoke", "handle"}
         => event[t] # event[u]

Accounted == ReleasedIsDurable /\ ReleasedAtMostOnce

LifecycleInv ==
  /\ StoreTyped /\ CoordTyped /\ TaskTyped
  /\ Locked /\ Calling /\ Retained /\ Fresh /\ Accounted

----------------------------------------------------------------------------
(* Facts the steps share *)

\* The records and locations a step builds are of their types.
LEMMA Types ==
  /\ App \in {App}
  /\ Store!EmptyRecord \in Stored /\ Store!EmptyRecord.generation = 0
  /\ Store!Idle \in [phase: Phases, record: Stored] /\ Store!Idle.phase = "idle"
  /\ Inside \subseteq Locations
  /\ None \notin Tasks
  /\ NoEvent \notin Events
  BY SMTT(60), LifecycleAssumption DEF Store!EmptyRecord, Store!Idle, Stored, Phases, Inside, Locations, NoEvent, Events

\* A retained checkpoint makes a record of the store.
LEMMA NextRecordTyped ==
  ASSUME CoordTyped
  PROVE  /\ NextRecord \in Stored
         /\ NextRecord.generation = coord.generation + 1 /\ NextRecord.generation > 0
         /\ NextRecord.plaintext = coord.checkpoint /\ coord.checkpoint \in Checkpoints
  BY SMTT(60) DEF CoordTyped, NextRecord, Stored

\* An answer of the store.
LEMMA Answered ==
  ASSUME StoreTyped, NEW phase \in Phases, NEW record \in Stored,
         Store!Answer(App, phase, record)
  PROVE  /\ call' \in [{App} -> [phase: Phases, record: Stored]]
         /\ call'[App].phase = phase /\ call'[App].record = record
  BY DEF StoreTyped, Store!Answer

\* The steps of a task outside the coordinator: they move one task between
\* locations that do not wait for the store, and an event they bring to Core
\* is the one the task brought before or the next occurrence.
LEMMA TaskMove ==
  ASSUME LifecycleInv, NEW t \in Tasks,
         UNCHANGED <<reg, call, coord, coordLock, mem, releases>>,
         TaskTyped',
         pc[t] \notin Inside, pc'[t] \notin Inside,
         \A u \in Tasks \ {t} : pc'[u] = pc[u] /\ event'[u] = event[u],
         Len(sent) <= Len(sent'),
         pc'[t] \in {"invoke", "handle"} =>
           \/ pc[t] \in {"invoke", "handle"} /\ event'[t] = event[t]
           \/ event'[t] = Len(sent) + 1 /\ Len(sent) + 1 = Len(sent')
  PROVE  LifecycleInv'
<1>1. StoreTyped' /\ CoordTyped' /\ Accounted' /\ Pending' = Pending /\ Absorbed' = Absorbed
  BY DEF LifecycleInv, StoreTyped, CoordTyped, Accounted, ReleasedIsDurable,
         ReleasedAtMostOnce, Absorbed, Pending
<1>2. Locked'
  BY DEF LifecycleInv, Locked
<1>3. Calling'
  BY DEF LifecycleInv, Calling, NextRecord, Inside
<1>4. Len(sent) \in Nat /\ Len(sent') \in Nat
  BY SMTT(60) DEF LifecycleInv, TaskTyped
<1>5. Retained'
  BY SMTT(60), <1>1, <1>4 DEF LifecycleInv, Retained, CoordinatorAgreesWithStore, CoordTyped
<1>6. Fresh'
  <2>1. \A e \in Events : e \in Nat /\ (e > Len(sent)' => releases'[e] = 0)
    BY SMTT(60), <1>4 DEF LifecycleInv, Fresh, Events
  <2>2. Pending => coord.event \in 1 .. Len(sent)
    BY DEF LifecycleInv, Retained
  <2>3. ASSUME NEW u \in Tasks, pc'[u] \in {"invoke", "handle"}
        PROVE  /\ event'[u] \in 1 .. Len(sent')
               /\ releases'[event'[u]] = 0
               /\ Pending' => event'[u] # coord'.event
    <3>1. CASE u # t
      BY SMTT(60), <1>1, <1>4, <2>3, <3>1 DEF LifecycleInv, Fresh
    <3>2. CASE u = t /\ pc[t] \in {"invoke", "handle"} /\ event'[t] = event[t]
      BY SMTT(60), <1>1, <1>4, <3>2 DEF LifecycleInv, Fresh
    <3>3. CASE u = t /\ event'[t] = Len(sent) + 1 /\ Len(sent) + 1 = Len(sent')
      <4>1. event'[t] \in Events /\ event'[t] > Len(sent)
        BY SMTT(60), <3>3, <1>4 DEF TaskTyped, Events
      <4>2. releases[event'[t]] = 0
        BY <4>1 DEF LifecycleInv, Fresh
      <4>. QED
        BY SMTT(60), <1>1, <1>4, <2>2, <3>3, <4>1, <4>2
    <3>. QED
      BY <2>3, <3>1, <3>2, <3>3
  <2>4. ASSUME NEW u \in Tasks, NEW v \in Tasks, u # v,
               pc'[u] \in {"invoke", "handle"}, pc'[v] \in {"invoke", "handle"}
        PROVE  event'[u] # event'[v]
    <3>1. \A w \in Tasks \ {t} : pc'[w] \in {"invoke", "handle"} =>
             event'[w] = event[w] /\ event[w] \in 1 .. Len(sent)
      BY DEF LifecycleInv, Fresh
    <3>. QED
      BY SMTT(60), <2>4, <3>1, <1>4 DEF LifecycleInv, Fresh
  <2>. QED
    BY <2>1, <2>3, <2>4 DEF Fresh
<1>. QED
  BY <1>1, <1>2, <1>3, <1>5, <1>6 DEF LifecycleInv

----------------------------------------------------------------------------
(* The steps of a task outside the coordinator *)

\* Throwing leaves the call for the host.
LEMMA ThrowMove ==
  ASSUME TaskTyped, NEW t \in Tasks, Throw(t),
         UNCHANGED <<sent, releases>>, pending' \in [Executors -> {NoEvent} \union Events]
  PROVE  /\ TaskTyped' /\ pc'[t] = "idle" /\ Len(sent) <= Len(sent')
         /\ \A u \in Tasks \ {t} : pc'[u] = pc[u] /\ event'[u] = event[u]
  BY SMTT(60) DEF TaskTyped, Throw, Locations

\* A caught error keeps the event and asks the coordinator.
LEMMA CatchMove ==
  ASSUME TaskTyped, NEW t \in Tasks, ToCatch(t), UNCHANGED <<sent, releases>>
  PROVE  /\ TaskTyped' /\ pc'[t] = "caught" /\ Len(sent) <= Len(sent')
         /\ \A u \in Tasks \ {t} : pc'[u] = pc[u] /\ event'[u] = event[u]
  BY SMTT(60) DEF TaskTyped, ToCatch, Locations

LEMMA SendStep ==
  ASSUME LifecycleInv, NEW t \in Tasks, Send(t) \/ FollowUp(t)
  PROVE  LifecycleInv'
<1>0. Len(sent) \in Nat /\ Len(sent) < MaxEvents /\ sent \in Seq(Kinds)
  BY SMTT(60) DEF LifecycleInv, TaskTyped, Send, FollowUp
<1>1. PICK kind \in Kinds : sent' = Append(sent, kind)
  BY LifecycleAssumption DEF Send, FollowUp, FollowUps, Kinds, UserKinds, FollowUpKinds
<1>2. Len(sent') = Len(sent) + 1 /\ sent' \in Seq(Kinds)
  BY SMTT(60), <1>0, <1>1
<1>3. Len(sent) + 1 \in Events
  BY SMTT(60), <1>0, LifecycleAssumption DEF Events
<1>4. TaskTyped'
  <2>1. /\ pc' = [pc EXCEPT ![t] = "invoke"] /\ event' = [event EXCEPT ![t] = Len(sent) + 1]
        /\ UNCHANGED <<pending, releases>>
    BY DEF Send, FollowUp
  <2>2. pc' \in [Tasks -> Locations] /\ event' \in [Tasks -> {NoEvent} \union Events]
    BY <1>3, <2>1 DEF LifecycleInv, TaskTyped, Locations
  <2>. QED
    BY SMTT(60), <1>0, <1>2, <2>1, <2>2, LifecycleAssumption DEF LifecycleInv, TaskTyped
<1>5. pc[t] \notin Inside /\ pc'[t] = "invoke" /\ event'[t] = Len(sent) + 1
  BY DEF LifecycleInv, TaskTyped, Send, FollowUp, Inside
<1>6. \A u \in Tasks \ {t} : pc'[u] = pc[u] /\ event'[u] = event[u]
  BY DEF LifecycleInv, TaskTyped, Send, FollowUp
<1>7. UNCHANGED <<reg, call, coord, coordLock, mem, releases>>
  BY DEF Send, FollowUp, storeVars
<1>. QED
  BY SMTT(60), <1>0, <1>2, <1>4, <1>5, <1>6, <1>7, TaskMove DEF Inside

LEMMA InvokeCoreStep ==
  ASSUME LifecycleInv, NEW t \in Tasks, InvokeCore(t)
  PROVE  LifecycleInv'
<1>1. pc[t] \notin Inside /\ pc[t] = "invoke" /\ sent' = sent /\ releases' = releases
  BY DEF InvokeCore, Inside
<1>2. UNCHANGED <<reg, call, coord, coordLock, mem, releases>>
  BY DEF InvokeCore, storeVars
<1>3. CASE Throw(t) /\ UNCHANGED <<pending, execLock>>
  <2>1. pending' \in [Executors -> {NoEvent} \union Events]
    BY <1>3 DEF LifecycleInv, TaskTyped
  <2>. QED
    BY <1>1, <1>2, <1>3, <2>1, ThrowMove, TaskMove DEF LifecycleInv, Inside
<1>4. CASE /\ pending' = [pending EXCEPT ![ExecutorOf[t]] = event[t]]
           /\ pc' = [pc EXCEPT ![t] = "handle"]
           /\ UNCHANGED <<event, cascade>>
  <2>0. /\ pending \in [Executors -> {NoEvent} \union Events] /\ ExecutorOf[t] \in Executors
        /\ event[t] \in {NoEvent} \union Events
    BY LifecycleAssumption DEF LifecycleInv, TaskTyped
  <2>1. TaskTyped'
    <3>1. pending' = [pending EXCEPT ![ExecutorOf[t]] = event[t]]
      BY <1>4
    <3>2. pending' \in [Executors -> {NoEvent} \union Events]
      BY <2>0, <3>1
    <3>3. pc' \in [Tasks -> Locations]
      BY <1>4 DEF LifecycleInv, TaskTyped, Locations
    <3>. QED
      BY <1>1, <1>4, <3>2, <3>3 DEF LifecycleInv, TaskTyped
  <2>2. pc'[t] = "handle" /\ event'[t] = event[t] /\ Len(sent) <= Len(sent')
    BY SMTT(60), <1>1, <1>4 DEF LifecycleInv, TaskTyped
  <2>3. \A u \in Tasks \ {t} : pc'[u] = pc[u] /\ event'[u] = event[u]
    BY <1>4 DEF LifecycleInv, TaskTyped
  <2>. QED
    BY <1>1, <1>2, <2>1, <2>2, <2>3, TaskMove DEF Inside
<1>. QED
  BY <1>3, <1>4 DEF InvokeCore

LEMMA RetryStep ==
  ASSUME LifecycleInv, NEW t \in Tasks, Retry(t)
  PROVE  LifecycleInv'
<1>1. TaskTyped'
  <2>1. pending[ExecutorOf[t]] \in {NoEvent} \union Events
    BY LifecycleAssumption DEF LifecycleInv, TaskTyped
  <2>2. /\ event' = [event EXCEPT ![t] = pending[ExecutorOf[t]]]
        /\ pc' = [pc EXCEPT ![t] = "retry"] /\ UNCHANGED <<pending, sent, releases>>
    BY DEF Retry
  <2>3. event' \in [Tasks -> {NoEvent} \union Events]
    BY <2>1, <2>2 DEF LifecycleInv, TaskTyped
  <2>4. pc' \in [Tasks -> Locations]
    BY <2>2 DEF LifecycleInv, TaskTyped, Locations
  <2>. QED
    BY <2>2, <2>3, <2>4 DEF LifecycleInv, TaskTyped
<1>2. pc[t] \notin Inside /\ pc'[t] = "retry" /\ Len(sent) <= Len(sent')
  BY SMTT(60) DEF LifecycleInv, TaskTyped, Retry, Inside
<1>3. \A u \in Tasks \ {t} : pc'[u] = pc[u] /\ event'[u] = event[u]
  BY DEF LifecycleInv, TaskTyped, Retry
<1>4. UNCHANGED <<reg, call, coord, coordLock, mem, releases>>
  BY DEF Retry, storeVars
<1>. QED
  BY <1>1, <1>2, <1>3, <1>4, TaskMove DEF Inside

\* Refusals by the coordinator, and what the executor does with an error.
LEMMA RefusedStep ==
  ASSUME LifecycleInv, NEW t \in Tasks, HandleRefused(t) \/ RetryRefused(t)
  PROVE  LifecycleInv'
<1>1. /\ ToCatch(t) /\ pc[t] \notin Inside
      /\ UNCHANGED <<reg, call, coord, coordLock, mem, releases, sent>>
  BY DEF HandleRefused, RetryRefused, Inside, storeVars
<1>. QED
  BY <1>1, CatchMove, TaskMove DEF LifecycleInv, Inside

LEMMA ThrownStep ==
  ASSUME LifecycleInv, NEW t \in Tasks, Caught(t) \/ Abandon(t)
  PROVE  LifecycleInv'
<1>1. /\ Throw(t) /\ pc[t] \notin Inside
      /\ UNCHANGED <<reg, call, coord, coordLock, mem, releases, sent>>
  BY DEF Caught, Abandon, Inside, storeVars
<1>2. pending' \in [Executors -> {NoEvent} \union Events]
  BY DEF LifecycleInv, TaskTyped, Caught, Abandon
<1>. QED
  BY <1>1, <1>2, ThrowMove, TaskMove DEF LifecycleInv, Inside

\* The cascade's own steps touch no event and no coordinator.
LEMMA DrainStep ==
  ASSUME LifecycleInv, NEW t \in Tasks, TakeEffect(t) \/ Performed(t) \/ Drained(t)
  PROVE  LifecycleInv'
<1>1. /\ UNCHANGED <<reg, call, coord, coordLock, mem, releases, sent, event, pending>>
      /\ pc[t] \notin Inside
      /\ \E l \in {"idle", "await", "drain"} : pc' = [pc EXCEPT ![t] = l]
  BY DEF TakeEffect, Performed, Drained, Inside, storeVars
<1>2. TaskTyped'
  BY <1>1 DEF LifecycleInv, TaskTyped, Locations
<1>3. pc'[t] \in {"idle", "await", "drain"} /\ Len(sent) <= Len(sent')
  BY SMTT(60), <1>1 DEF LifecycleInv, TaskTyped
<1>4. \A u \in Tasks \ {t} : pc'[u] = pc[u] /\ event'[u] = event[u]
  BY <1>1 DEF LifecycleInv, TaskTyped
<1>. QED
  BY <1>1, <1>2, <1>3, <1>4, TaskMove DEF Inside

LEMMA ReplaceExecutorStep ==
  ASSUME LifecycleInv, NEW x \in Executors, ReplaceExecutor(x)
  PROVE  LifecycleInv'
<1>1. /\ UNCHANGED <<reg, call, coord, coordLock, mem, releases, sent, event, pc>>
      /\ pending' \in [Executors -> {NoEvent} \union Events]
  BY DEF LifecycleInv, TaskTyped, ReplaceExecutor, storeVars, taskVars
<1>2. TaskTyped'
  BY <1>1 DEF LifecycleInv, TaskTyped
<1>3. Pending' = Pending /\ Absorbed' = Absorbed /\ NextRecord' = NextRecord
  BY <1>1 DEF Pending, Absorbed, NextRecord
<1>4. StoreTyped' /\ CoordTyped' /\ Locked' /\ Calling'
  BY <1>1, <1>3 DEF LifecycleInv, StoreTyped, CoordTyped, Locked, Calling
<1>5. Retained' /\ Fresh' /\ Accounted'
  BY <1>1, <1>3 DEF LifecycleInv, Retained, Fresh, Accounted, CoordinatorAgreesWithStore,
                    ReleasedIsDurable, ReleasedAtMostOnce
<1>. QED
  BY <1>2, <1>4, <1>5 DEF LifecycleInv

----------------------------------------------------------------------------
(* The store and the process *)

LEMMA InitialState ==
  ASSUME Init
  PROVE  LifecycleInv
<1>. USE DEF Init
<1>1. reg = Store!EmptyRecord /\ call = [c \in {App} |-> Store!Idle]
  BY DEF Store!Init
<1>2. StoreTyped
  BY SMTT(60), <1>1, Types DEF StoreTyped
<1>3. /\ coord.state = "uninitialized" /\ coord.generation = 0 /\ coord.event = NoEvent
      /\ CoordTyped
  BY DEF Uninitialized, Settled, Coordinator, CoordTyped, Checkpoints
<1>4. TaskTyped /\ Len(sent) = 0
  BY SMTT(60), LifecycleAssumption DEF TaskTyped, Locations
<1>5. Locked /\ Calling
  BY <1>1, <1>3, Types DEF Locked, Calling, Inside, Store!Outstanding
<1>6. Retained /\ Fresh /\ Accounted
  BY SMTT(60), <1>3, <1>4 DEF Retained, CoordinatorAgreesWithStore, Pending, Fresh, Accounted,
                    ReleasedIsDurable, ReleasedAtMostOnce
<1>. QED
  BY <1>2, <1>3, <1>4, <1>5, <1>6 DEF LifecycleInv

LEMMA BootstrapStep ==
  ASSUME LifecycleInv, Bootstrap
  PROVE  LifecycleInv'
<1>1. /\ coord.state = "uninitialized" /\ coordLock = None /\ reg' = reg
      /\ UNCHANGED <<coordLock, mem, pending, pc, event, sent, releases>>
  BY DEF Bootstrap, taskVars, storeVars, Store!InvokeLoad
<1>2. /\ CoordTyped' /\ coord'.state \in {"bootstrapping", "failed"}
  BY SMTT(60), <1>1 DEF LifecycleInv, CoordTyped, Bootstrap, Settled, Coordinator, Checkpoints
<1>3. \/ coord'.state = "bootstrapping" /\ Store!Answer(App, "load", Store!EmptyRecord)
      \/ coord'.state = "failed" /\ call' = call
  BY SMTT(60) DEF Bootstrap, Settled, Coordinator, Store!InvokeLoad, storeVars
<1>4. /\ call' \in [{App} -> [phase: Phases, record: Stored]]
      /\ \/ coord'.state = "bootstrapping" /\ call'[App].phase = "load"
         \/ coord'.state = "failed" /\ call' = call
  BY <1>3, Types, Answered DEF LifecycleInv, StoreTyped, Phases
<1>5. StoreTyped' /\ TaskTyped'
  BY <1>1, <1>4 DEF LifecycleInv, StoreTyped, TaskTyped
<1>6. Locked'
  BY <1>1 DEF LifecycleInv, Locked
<1>7. \A t \in Tasks : pc'[t] \notin Inside
  BY <1>1, Types DEF LifecycleInv, Locked
<1>8. Calling'
  BY <1>1, <1>4, <1>7 DEF LifecycleInv, Calling, Inside, Store!Outstanding
<1>9. Retained' /\ Fresh' /\ Accounted'
  BY <1>1, <1>2 DEF LifecycleInv, Retained, CoordinatorAgreesWithStore, Pending, Fresh,
                    Accounted, ReleasedIsDurable, ReleasedAtMostOnce, Absorbed
<1>. QED
  BY <1>2, <1>5, <1>6, <1>8, <1>9 DEF LifecycleInv

LEMMA BootstrapLoadedStep ==
  ASSUME LifecycleInv, BootstrapLoaded
  PROVE  LifecycleInv'
<1>1. /\ coord.state = "bootstrapping"
      /\ UNCHANGED <<reg, call, coordLock, pending, pc, event, sent, releases>>
  BY DEF BootstrapLoaded, taskVars, storeVars
<1>2. coordLock = None /\ \A t \in Tasks : pc'[t] \notin Inside
  BY <1>1, Types DEF LifecycleInv, Locked
<1>3. \/ /\ coord' = Settled("ready", reg.generation) /\ mem' = Absorbed
         /\ call[App].phase = "loaded"
      \/ /\ coord' = Settled("failed", 0) /\ mem' = mem
         /\ call[App].phase \in {"loaded", "failed"}
  BY DEF LifecycleInv, BootstrapLoaded, Calling, Absorbed
<1>4. Absorbed \in Checkpoints /\ reg.generation \in Nat
  BY SMTT(60) DEF LifecycleInv, StoreTyped, Absorbed, Stored, Checkpoints
<1>5. /\ CoordTyped' /\ coord'.state \in {"ready", "failed"}
      /\ coord'.state = "ready" => coord'.generation = reg.generation /\ mem' = Absorbed
  BY SMTT(60), <1>1, <1>3, <1>4 DEF LifecycleInv, CoordTyped, Settled, Coordinator, Checkpoints
<1>6. StoreTyped' /\ TaskTyped' /\ Locked'
  BY <1>1, <1>2 DEF LifecycleInv, StoreTyped, TaskTyped, Locked
<1>7. Calling'
  BY <1>1, <1>2, <1>3, <1>5 DEF LifecycleInv, Calling, Inside, Store!Outstanding
<1>8. Retained' /\ Fresh' /\ Accounted'
  BY <1>1, <1>5 DEF LifecycleInv, Retained, CoordinatorAgreesWithStore, Pending, Fresh,
                    Accounted, ReleasedIsDurable, ReleasedAtMostOnce, Absorbed
<1>. QED
  BY <1>5, <1>6, <1>7, <1>8 DEF LifecycleInv

LEMMA ProcessDeathStep ==
  ASSUME LifecycleInv, ProcessDeath
  PROVE  LifecycleInv'
<1>1. /\ UNCHANGED <<reg, sent, releases>> /\ call' = [c \in {App} |-> Store!Idle]
      /\ coordLock' = None /\ pc' = [t \in Tasks |-> "idle"]
  BY DEF ProcessDeath, Store!Crash
<1>2. CoordTyped' /\ coord'.state = "uninitialized"
  BY DEF ProcessDeath, Uninitialized, Settled, Coordinator, CoordTyped, Checkpoints
<1>3. StoreTyped' /\ TaskTyped'
  BY SMTT(60), <1>1, Types DEF LifecycleInv, StoreTyped, TaskTyped, ProcessDeath, Locations
<1>4. Locked' /\ Calling'
  BY <1>1, <1>2, Types DEF Locked, Calling, Inside, Store!Outstanding
<1>5. Retained' /\ Fresh' /\ Accounted'
  BY <1>1, <1>2 DEF LifecycleInv, Retained, CoordinatorAgreesWithStore, Pending, Fresh,
                    Accounted, ReleasedIsDurable, ReleasedAtMostOnce, Absorbed
<1>. QED
  BY <1>2, <1>3, <1>4, <1>5 DEF LifecycleInv

----------------------------------------------------------------------------
(* The store *)

\* Only the task inside a coordinator call has a commit applied, and what is
\* applied is the retained checkpoint.
LEMMA AppliedIsRetained ==
  ASSUME LifecycleInv, call[App].phase \in {"commit", "applied"}
  PROVE  /\ call[App].record = NextRecord /\ coord.state = "pendingCommit"
         /\ call[App].phase = "applied" => reg = NextRecord
         /\ \E t \in Tasks : pc[t] \in {"commit", "recommit"}
         /\ \A t \in Tasks : pc[t] # "reconcile"
<1>1. coordLock # None
  BY DEF LifecycleInv, Calling, Store!Outstanding
<1>2. coordLock \in Tasks /\ pc[coordLock] \in Inside /\ coord.state = "pendingCommit"
  BY <1>1 DEF LifecycleInv, CoordTyped, Locked
<1>3. ASSUME NEW t \in Tasks, pc[t] = "reconcile"
      PROVE  FALSE
  <2>1. call[App].phase \in {"load", "loaded", "failed"}
    BY <1>3 DEF LifecycleInv, Calling
  <2>. QED
    BY <2>1
<1>. QED
  BY <1>2, <1>3 DEF LifecycleInv, Calling, Inside

LEMMA ApplyStep ==
  ASSUME LifecycleInv, Store!Apply(App),
         UNCHANGED <<coord, coordLock, mem, pending, execLock, taskVars, sent, releases>>
  PROVE  LifecycleInv'
<1>1. /\ call[App].record = NextRecord /\ coord.state = "pendingCommit"
      /\ \A t \in Tasks : pc[t] # "reconcile"
  BY AppliedIsRetained DEF Store!Apply
<1>2. /\ UNCHANGED <<coord, coordLock, mem, pending, pc, event, sent, releases>>
      /\ reg' = NextRecord /\ Store!Answer(App, "applied", NextRecord)
      /\ NextRecord' = NextRecord
  BY <1>1 DEF Store!Apply, taskVars, NextRecord
<1>3. /\ NextRecord \in Stored /\ NextRecord.generation > 0
      /\ NextRecord.plaintext = coord.checkpoint /\ coord.checkpoint \in Checkpoints
  BY NextRecordTyped DEF LifecycleInv
<1>4. /\ call' \in [{App} -> [phase: Phases, record: Stored]]
      /\ call'[App].phase = "applied" /\ call'[App].record = NextRecord
  BY <1>2, <1>3 DEF LifecycleInv, StoreTyped, Phases, Store!Answer
<1>5. StoreTyped' /\ CoordTyped' /\ TaskTyped' /\ Locked'
  BY <1>2, <1>3, <1>4 DEF LifecycleInv, StoreTyped, CoordTyped, TaskTyped, Locked
<1>6. coordLock # None
  BY DEF LifecycleInv, Calling, Store!Outstanding, Store!Apply
<1>7. Calling'
  BY <1>1, <1>2, <1>4, <1>6 DEF LifecycleInv, Calling
<1>8. Absorbed' = coord.checkpoint /\ Absorbed \subseteq coord.checkpoint
  BY SMTT(60), <1>1, <1>2, <1>3 DEF LifecycleInv, Retained, Absorbed
<1>9. Retained'
  BY <1>1, <1>2, <1>8 DEF LifecycleInv, Retained, CoordinatorAgreesWithStore, Pending,
                          NextRecord
<1>10. Fresh' /\ Accounted'
  BY <1>2, <1>8 DEF LifecycleInv, Fresh, Pending, Accounted, ReleasedIsDurable,
                    ReleasedAtMostOnce
<1>. QED
  BY <1>5, <1>7, <1>9, <1>10 DEF LifecycleInv

\* An answer that leaves the register alone.
LEMMA AnswerMove ==
  ASSUME LifecycleInv, NEW phase \in Phases, NEW record \in Stored,
         Store!Answer(App, phase, record),
         UNCHANGED <<reg, coord, coordLock, mem, pending, pc, event, sent, releases>>,
         phase \notin Store!Outstanding,
         phase = "loaded" => record = reg,
         \/ phase = "committed" /\ call[App].phase = "applied" /\ record = call[App].record
         \/ phase = "conflict" /\ call[App].phase = "commit"
         \/ phase = "loaded" /\ call[App].phase = "load"
         \/ phase = "failed" /\ call[App].phase \in Store!Outstanding
  PROVE  LifecycleInv'
<1>1. /\ call' \in [{App} -> [phase: Phases, record: Stored]]
      /\ call'[App].phase = phase /\ call'[App].record = record
  BY DEF LifecycleInv, StoreTyped, Store!Answer
<1>2. StoreTyped' /\ CoordTyped' /\ TaskTyped' /\ Locked'
  BY <1>1 DEF LifecycleInv, StoreTyped, CoordTyped, TaskTyped, Locked
<1>3. NextRecord' = NextRecord /\ Pending' = Pending /\ Absorbed' = Absorbed
  BY DEF NextRecord, Pending, Absorbed
<1>4. Calling'
  BY <1>1, <1>3, AppliedIsRetained DEF LifecycleInv, Calling, Store!Outstanding
<1>5. Retained' /\ Fresh' /\ Accounted'
  BY <1>3 DEF LifecycleInv, Retained, CoordinatorAgreesWithStore, Fresh, Accounted,
              ReleasedIsDurable, ReleasedAtMostOnce
<1>. QED
  BY <1>2, <1>4, <1>5 DEF LifecycleInv

LEMMA StoreStepStep ==
  ASSUME LifecycleInv, StoreStep
  PROVE  LifecycleInv'
<1>1. UNCHANGED <<coord, coordLock, mem, pending, pc, event, sent, releases>>
  BY DEF StoreStep, taskVars
<1>2. call[App].record \in Stored /\ reg \in Stored /\ Store!EmptyRecord \in Stored
  BY Types DEF LifecycleInv, StoreTyped
<1>3. CASE Store!Apply(App)
  BY <1>3, ApplyStep DEF StoreStep
<1>4. CASE Store!Committed(App)
  BY <1>1, <1>2, <1>4, AnswerMove DEF Store!Committed, Phases, Store!Outstanding
<1>5. CASE Store!Conflict(App)
  BY <1>1, <1>2, <1>5, AnswerMove DEF Store!Conflict, Phases, Store!Outstanding
<1>6. CASE Store!Loaded(App)
  BY <1>1, <1>2, <1>6, AnswerMove DEF Store!Loaded, Phases, Store!Outstanding
<1>7. CASE Store!Fail(App)
  BY <1>1, <1>2, <1>7, AnswerMove DEF Store!Fail, Phases, Store!Outstanding
<1>. QED
  BY <1>3, <1>4, <1>5, <1>6, <1>7 DEF StoreStep

----------------------------------------------------------------------------
(* Core answers *)

\* Core was called with the task's event, and no store call follows: the
\* engine broke, answered with an error, or the export failed.
LEMMA CoreAnswered ==
  ASSUME LifecycleInv, NEW t \in Tasks,
         pc[t] = "handle", CoordinatorFree, coord.state = "ready",
         UNCHANGED <<reg, call, coordLock, sent, releases>>,
         TaskTyped', CoordTyped', mem' \in {mem, mem \union {event[t]}},
         coord'.state \in {"failed", "ready", "pendingExport"},
         coord'.state = "ready" => coord' = coord,
         coord'.state = "pendingExport" =>
           /\ coord'.event = event[t] /\ coord'.generation = coord.generation
           /\ event[t] \in mem',
         pc'[t] \in {"idle", "caught"},
         \A u \in Tasks \ {t} : pc'[u] = pc[u] /\ event'[u] = event[u]
  PROVE  LifecycleInv'
<1>1. coordLock = None /\ \A u \in Tasks : pc[u] \notin Inside
  BY Types DEF LifecycleInv, Locked, CoordinatorFree
<1>2. \A u \in Tasks : pc'[u] \notin Inside
  BY <1>1 DEF Inside
<1>3. StoreTyped' /\ Locked' /\ Absorbed' = Absorbed
  BY <1>1, <1>2, Types DEF LifecycleInv, StoreTyped, Locked, Absorbed
<1>4. call[App].phase \notin Store!Outstanding
  BY <1>1 DEF LifecycleInv, Calling
<1>5. Calling'
  BY <1>2, <1>4 DEF LifecycleInv, Calling, Inside
<1>6. /\ event[t] \in 1 .. Len(sent) /\ releases[event[t]] = 0
      /\ coord.generation = reg.generation /\ Absorbed \subseteq mem /\ mem \subseteq mem'
  BY DEF LifecycleInv, Fresh, Retained, CoordinatorAgreesWithStore
<1>7. Retained'
  BY <1>3, <1>6 DEF Retained, CoordinatorAgreesWithStore, Pending
<1>8. Fresh'
  <2>1. \A u \in Tasks : pc'[u] \in {"invoke", "handle"} =>
          u # t /\ pc[u] \in {"invoke", "handle"} /\ event'[u] = event[u]
    OBVIOUS
  <2>2. \A u \in Tasks : pc'[u] \in {"invoke", "handle"} =>
          (Pending' => event'[u] # coord'.event)
    BY <2>1 DEF LifecycleInv, Fresh, Pending
  <2>. QED
    BY SMTT(60), <2>1, <2>2 DEF LifecycleInv, Fresh
<1>9. Accounted'
  BY <1>3 DEF LifecycleInv, Accounted, ReleasedIsDurable, ReleasedAtMostOnce
<1>. QED
  BY <1>3, <1>5, <1>7, <1>8, <1>9 DEF LifecycleInv

\* A checkpoint Core holds stays a set of events.
LEMMA MemoryTyped ==
  ASSUME LifecycleInv, NEW t \in Tasks, pc[t] = "handle"
  PROVE  event[t] \in Events /\ \A m \in {mem, mem \union {event[t]}} : m \in Checkpoints
<1>1. event[t] \in 1 .. Len(sent) /\ Len(sent) \in Nat /\ Len(sent) <= MaxEvents
  BY SMTT(60) DEF LifecycleInv, Fresh, TaskTyped
<1>2. event[t] \in Events
  BY SMTT(60), <1>1, LifecycleAssumption DEF Events
<1>. QED
  BY <1>2 DEF LifecycleInv, CoordTyped, Checkpoints

LEMMA HandleFailedStep ==
  ASSUME LifecycleInv, NEW t \in Tasks, HandleBroken(t) \/ HandleError(t)
  PROVE  LifecycleInv'
<1>1. /\ pc[t] = "handle" /\ CoordinatorFree /\ coord.state = "ready"
      /\ UNCHANGED <<reg, call, coordLock, sent, releases>>
      /\ mem' \in {mem, mem \union {event[t]}}
      /\ coord' \in {coord, Settled("failed", 0)}
  BY DEF HandleBroken, HandleError, storeVars
<1>2. mem' \in Checkpoints
  <2>1. \A m \in {mem, mem \union {event[t]}} : m \in Checkpoints
    BY <1>1, MemoryTyped
  <2>. QED
    BY <1>1, <2>1
<1>3. /\ CoordTyped' /\ coord'.state \in {"failed", "ready"}
      /\ coord'.state = "ready" => coord' = coord
  BY SMTT(60), <1>1, <1>2 DEF LifecycleInv, CoordTyped, Settled, Coordinator, Checkpoints
<1>4. /\ TaskTyped' /\ pc'[t] \in {"idle", "caught"}
      /\ \A u \in Tasks \ {t} : pc'[u] = pc[u] /\ event'[u] = event[u]
  <2>1. CASE HandleBroken(t)
    BY <1>1, <2>1, CatchMove DEF LifecycleInv, HandleBroken
  <2>2. CASE HandleError(t)
    <3>1. Throw(t) /\ pending' \in [Executors -> {NoEvent} \union Events]
      BY <2>2, LifecycleAssumption DEF LifecycleInv, TaskTyped, HandleError
    <3>. QED
      BY <1>1, <3>1, ThrowMove DEF LifecycleInv
  <2>. QED
    BY <2>1, <2>2
<1>. QED
  BY <1>1, <1>3, <1>4, CoreAnswered

----------------------------------------------------------------------------
(* Into the store *)

\* The call a commit of the retained checkpoint makes.
LEMMA CommitCalled ==
  ASSUME LifecycleInv, CoordTyped', reg' = reg,
         call' = [call EXCEPT ![App] = [phase |-> "commit", record |-> NextRecord']]
  PROVE  /\ StoreTyped' /\ Absorbed' = Absorbed
         /\ call'[App].phase = "commit" /\ call'[App].record = NextRecord'
<1>1. NextRecord' \in Stored
  BY SMTT(60) DEF CoordTyped, Stored, NextRecord
<1>. QED
  BY <1>1 DEF LifecycleInv, StoreTyped, Phases, Absorbed

\* A call takes the coordinator's lock and hands the retained checkpoint to
\* the store.
LEMMA CommitMove ==
  ASSUME LifecycleInv, NEW t \in Tasks,
         pc[t] \in {"handle", "retry"}, CoordinatorFree,
         UNCHANGED <<reg, event, sent, releases>>,
         TaskTyped', coordLock' = t, pc'[t] \in {"commit", "recommit"},
         \A u \in Tasks \ {t} : pc'[u] = pc[u],
         CoordTyped', coord'.state = "pendingCommit", Retained',
         StoreTyped', call'[App].phase = "commit", call'[App].record = NextRecord',
         \A u \in Tasks \ {t} : pc[u] \in {"invoke", "handle"} => event[u] # coord'.event
  PROVE  LifecycleInv'
<1>1. coordLock = None /\ \A u \in Tasks : pc[u] \notin Inside
  BY Types DEF LifecycleInv, Locked, CoordinatorFree
<1>2. Locked'
  BY <1>1 DEF Locked, Inside
<1>3. t # None /\ \A u \in Tasks : pc'[u] # "reconcile"
  BY <1>1, Types DEF Inside
<1>4. Calling'
  BY <1>3 DEF Calling
<1>5. Fresh'
  BY DEF LifecycleInv, Fresh
<1>6. Accounted'
  BY DEF LifecycleInv, Accounted, ReleasedIsDurable, ReleasedAtMostOnce, Absorbed
<1>. QED
  BY <1>2, <1>4, <1>5, <1>6 DEF LifecycleInv

LEMMA HandleEffectsStep ==
  ASSUME LifecycleInv, NEW t \in Tasks, HandleEffects(t)
  PROVE  LifecycleInv'
<1>1. /\ pc[t] = "handle" /\ CoordinatorFree /\ coord.state = "ready"
      /\ mem' = mem \union {event[t]} /\ UNCHANGED <<sent, releases>>
  BY DEF HandleEffects
<1>2. PICK batch \in Batches :
        ExportAndCommit(t, coord.generation, event[t], batch, mem', "commit")
  BY DEF HandleEffects
<1>3. event[t] \in Events /\ mem' \in Checkpoints /\ {} \in Checkpoints
  BY <1>1, MemoryTyped DEF Checkpoints
<1>4. /\ event[t] \in 1 .. Len(sent) /\ releases[event[t]] = 0
      /\ coord.generation = reg.generation /\ coord.generation \in Nat
      /\ Absorbed \subseteq mem
  BY <1>1 DEF LifecycleInv, CoordTyped, Fresh, Retained, CoordinatorAgreesWithStore
<1>5. coordLock = None
  BY <1>1 DEF CoordinatorFree
<1>6. CASE /\ coord' = Coordinator("pendingCommit", coord.generation, event[t], batch, mem')
           /\ coordLock' = t
           /\ Store!InvokeCommit(App, coord.generation + 1, mem')
           /\ pc' = [pc EXCEPT ![t] = "commit"]
           /\ UNCHANGED <<event, cascade, pending, execLock>>
  <2>1. /\ CoordTyped' /\ coord'.state = "pendingCommit" /\ coord'.event = event[t]
        /\ coord'.checkpoint = mem' /\ coord'.generation = coord.generation
    BY <1>3, <1>4, <1>6 DEF LifecycleInv, CoordTyped, Coordinator
  <2>2. /\ StoreTyped' /\ reg' = reg /\ Absorbed' = Absorbed
        /\ call'[App].phase = "commit" /\ call'[App].record = NextRecord'
    <3>1. NextRecord' = [generation |-> coord.generation + 1, plaintext |-> mem']
      BY <2>1 DEF NextRecord
    <3>2. /\ reg' = reg
          /\ call' = [call EXCEPT ![App] = [phase |-> "commit", record |-> NextRecord']]
      BY <1>6, <3>1 DEF Store!InvokeCommit, Store!Answer
    <3>. QED
      BY <2>1, <3>2, CommitCalled
  <2>3. Retained'
    BY <1>1, <1>4, <2>1, <2>2 DEF Retained, CoordinatorAgreesWithStore, Pending
  <2>4. \A u \in Tasks \ {t} : pc[u] \in {"invoke", "handle"} => event[u] # coord'.event
    BY <1>1, <2>1 DEF LifecycleInv, Fresh
  <2>5. TaskTyped' /\ pc'[t] = "commit" /\ \A u \in Tasks \ {t} : pc'[u] = pc[u]
    BY <1>1, <1>6 DEF LifecycleInv, TaskTyped, Locations
  <2>6. /\ pc[t] \in {"handle", "retry"} /\ CoordinatorFree /\ coordLock' = t
        /\ UNCHANGED <<reg, event, sent, releases>>
    BY <1>1, <1>6, <2>2
  <2>. QED
    BY <2>1, <2>2, <2>3, <2>4, <2>5, <2>6, CommitMove
<1>7. CASE /\ coord' = Coordinator("pendingExport", coord.generation, event[t], batch, {})
           /\ ToCatch(t)
           /\ UNCHANGED <<storeVars, coordLock>>
  <2>1. /\ CoordTyped' /\ coord'.state = "pendingExport" /\ coord'.event = event[t]
        /\ coord'.generation = coord.generation
    BY <1>3, <1>4, <1>5, <1>7 DEF LifecycleInv, CoordTyped, Coordinator
  <2>2. /\ TaskTyped' /\ pc'[t] = "caught"
        /\ \A u \in Tasks \ {t} : pc'[u] = pc[u] /\ event'[u] = event[u]
    BY <1>1, <1>7, CatchMove DEF LifecycleInv
  <2>. QED
    BY <1>1, <1>7, <2>1, <2>2, CoreAnswered DEF storeVars
<1>. QED
  BY <1>2, <1>6, <1>7 DEF ExportAndCommit

\* The retried export fails again: the coordinator keeps what it retains.
LEMMA ExportMove ==
  ASSUME LifecycleInv, NEW t \in Tasks,
         pc[t] = "retry", CoordinatorFree, coord.state = "pendingExport",
         UNCHANGED <<reg, call, coordLock, mem, sent, releases>>,
         CoordTyped', coord'.state = "pendingExport", coord'.event = coord.event,
         coord'.generation = coord.generation,
         TaskTyped', pc'[t] = "caught",
         \A u \in Tasks \ {t} : pc'[u] = pc[u] /\ event'[u] = event[u]
  PROVE  LifecycleInv'
<1>1. coordLock = None /\ \A u \in Tasks : pc[u] \notin Inside
  BY Types DEF LifecycleInv, Locked, CoordinatorFree
<1>2. \A u \in Tasks : pc'[u] \notin Inside
  BY <1>1 DEF Inside
<1>3. StoreTyped' /\ Locked' /\ Absorbed' = Absorbed
  BY <1>1, <1>2, Types DEF LifecycleInv, StoreTyped, Locked, Absorbed
<1>4. call[App].phase \notin Store!Outstanding
  BY <1>1 DEF LifecycleInv, Calling
<1>5. Calling'
  BY <1>2, <1>4 DEF LifecycleInv, Calling, Inside
<1>6. Retained'
  BY <1>3 DEF LifecycleInv, Retained, CoordinatorAgreesWithStore, Pending
<1>7. Fresh'
  BY DEF LifecycleInv, Fresh, Pending
<1>8. Accounted'
  BY <1>3 DEF LifecycleInv, Accounted, ReleasedIsDurable, ReleasedAtMostOnce
<1>. QED
  BY <1>3, <1>5, <1>6, <1>7, <1>8 DEF LifecycleInv

LEMMA RetryExportStep ==
  ASSUME LifecycleInv, NEW t \in Tasks, RetryExport(t)
  PROVE  LifecycleInv'
<1>1. /\ pc[t] = "retry" /\ CoordinatorFree /\ coord.state = "pendingExport"
      /\ UNCHANGED <<mem, sent, releases>>
      /\ ExportAndCommit(t, coord.generation, coord.event, coord.effects, mem, "recommit")
  BY DEF RetryExport
<1>2. /\ coord.generation \in Nat /\ coord.event \in {NoEvent} \union Events
      /\ coord.effects \in Batches \union {<<>>} /\ mem \in Checkpoints
      /\ {} \in Checkpoints /\ coordLock \in Tasks \union {None}
  BY DEF LifecycleInv, CoordTyped, Checkpoints
<1>3. CASE /\ coord' = Coordinator("pendingCommit", coord.generation, coord.event,
                                   coord.effects, mem)
           /\ coordLock' = t
           /\ Store!InvokeCommit(App, coord.generation + 1, mem)
           /\ pc' = [pc EXCEPT ![t] = "recommit"]
           /\ UNCHANGED <<event, cascade, pending, execLock>>
  <2>1. /\ CoordTyped' /\ coord'.state = "pendingCommit" /\ coord'.event = coord.event
        /\ coord'.checkpoint = mem /\ coord'.generation = coord.generation
    BY <1>1, <1>2, <1>3 DEF CoordTyped, Coordinator
  <2>2. /\ StoreTyped' /\ reg' = reg /\ Absorbed' = Absorbed
        /\ call'[App].phase = "commit" /\ call'[App].record = NextRecord'
    <3>1. NextRecord' = [generation |-> coord.generation + 1, plaintext |-> mem]
      BY <2>1 DEF NextRecord
    <3>2. /\ reg' = reg
          /\ call' = [call EXCEPT ![App] = [phase |-> "commit", record |-> NextRecord']]
      BY <1>3, <3>1 DEF Store!InvokeCommit, Store!Answer
    <3>. QED
      BY <2>1, <3>2, CommitCalled
  <2>3. Retained'
    BY <1>1, <2>1, <2>2 DEF LifecycleInv, Retained, CoordinatorAgreesWithStore, Pending
  <2>4. \A u \in Tasks \ {t} : pc[u] \in {"invoke", "handle"} => event[u] # coord'.event
    BY <1>1, <2>1 DEF LifecycleInv, Fresh, Pending
  <2>5. TaskTyped' /\ pc'[t] = "recommit" /\ \A u \in Tasks \ {t} : pc'[u] = pc[u]
    BY <1>1, <1>3 DEF LifecycleInv, TaskTyped, Locations
  <2>6. /\ pc[t] \in {"handle", "retry"} /\ CoordinatorFree /\ coordLock' = t
        /\ UNCHANGED <<reg, event, sent, releases>>
    BY <1>1, <1>3, <2>2
  <2>. QED
    BY <2>1, <2>2, <2>3, <2>4, <2>5, <2>6, CommitMove
<1>4. CASE /\ coord' = Coordinator("pendingExport", coord.generation, coord.event,
                                   coord.effects, {})
           /\ ToCatch(t)
           /\ UNCHANGED <<storeVars, coordLock>>
  <2>1. /\ CoordTyped' /\ coord'.state = "pendingExport" /\ coord'.event = coord.event
        /\ coord'.generation = coord.generation
    BY <1>1, <1>2, <1>4 DEF CoordTyped, Coordinator
  <2>2. /\ TaskTyped' /\ pc'[t] = "caught"
        /\ \A u \in Tasks \ {t} : pc'[u] = pc[u] /\ event'[u] = event[u]
    BY <1>1, <1>4, CatchMove DEF LifecycleInv
  <2>3. UNCHANGED <<reg, call, coordLock, mem, sent, releases>>
    BY <1>1, <1>4 DEF storeVars
  <2>. QED
    BY <1>1, <2>1, <2>2, <2>3, ExportMove
<1>. QED
  BY <1>1, <1>3, <1>4 DEF ExportAndCommit

LEMMA RetryCommitStep ==
  ASSUME LifecycleInv, NEW t \in Tasks, RetryCommit(t)
  PROVE  LifecycleInv'
<1>1. /\ pc[t] \in {"handle", "retry"} /\ CoordinatorFree /\ coordLock' = t
      /\ coord.state = "pendingCommit" /\ pc' = [pc EXCEPT ![t] = "recommit"]
      /\ UNCHANGED <<coord, event, pending, mem, sent, releases>>
  BY DEF RetryCommit
<1>2. CoordTyped' /\ coord'.state = "pendingCommit"
  BY <1>1 DEF LifecycleInv, CoordTyped
<1>3. /\ StoreTyped' /\ reg' = reg /\ Absorbed' = Absorbed
      /\ call'[App].phase = "commit" /\ call'[App].record = NextRecord'
  <2>1. /\ reg' = reg
        /\ call' = [call EXCEPT ![App] = [phase |-> "commit", record |-> NextRecord']]
    BY <1>1 DEF RetryCommit, Store!InvokeCommit, Store!Answer, NextRecord
  <2>. QED
    BY <1>2, <2>1, CommitCalled
<1>4. Retained'
  BY <1>1, <1>3 DEF LifecycleInv, Retained, CoordinatorAgreesWithStore, Pending
<1>5. \A u \in Tasks \ {t} : pc[u] \in {"invoke", "handle"} => event[u] # coord'.event
  BY <1>1 DEF LifecycleInv, Fresh, Pending
<1>6. TaskTyped' /\ pc'[t] = "recommit" /\ \A u \in Tasks \ {t} : pc'[u] = pc[u]
  BY <1>1 DEF LifecycleInv, TaskTyped, Locations
<1>7. UNCHANGED <<reg, event, sent, releases>> /\ coordLock' = t
  BY <1>1, <1>3
<1>8. pc[t] \in {"handle", "retry"} /\ CoordinatorFree
  BY <1>1
<1>. QED
  BY <1>2, <1>3, <1>4, <1>5, <1>6, <1>7, <1>8, CommitMove

----------------------------------------------------------------------------
(* Out of the store *)

\* The batch is returned once the register holds the retained checkpoint.
LEMMA ReleaseMove ==
  ASSUME LifecycleInv, NEW t \in Tasks, pc[t] \in Inside,
         call[App].phase \in {"committed", "loaded"}, reg = NextRecord,
         Release(t), UNCHANGED storeVars
  PROVE  LifecycleInv'
<1>1. /\ coordLock = t /\ coord.state = "pendingCommit"
      /\ \A u \in Tasks \ {t} : pc[u] \notin Inside
  BY Types DEF LifecycleInv, Locked
<1>2. /\ coord.event \in 1 .. Len(sent) /\ coord.event \in coord.checkpoint
      /\ coord.checkpoint \subseteq mem /\ releases[coord.event] = 0
  BY <1>1 DEF LifecycleInv, Retained, Pending
<1>3. Len(sent) \in Nat /\ Len(sent) <= MaxEvents /\ coord.generation \in Nat
  BY SMTT(60) DEF LifecycleInv, TaskTyped, CoordTyped
<1>4. coord.event \in Events /\ \A e \in Events : e \in Nat
  BY SMTT(60), <1>2, <1>3, LifecycleAssumption DEF Events
<1>5. /\ UNCHANGED <<reg, call, mem, sent>> /\ coordLock' = None
      /\ coord' = Settled("ready", coord.generation + 1)
  BY DEF Release, storeVars
<1>6. /\ CoordTyped' /\ coord'.state = "ready"
      /\ coord'.generation = coord.generation + 1
  BY SMTT(60), <1>3, <1>5 DEF LifecycleInv, CoordTyped, Settled, Coordinator, Checkpoints
<1>7. /\ pc' = [pc EXCEPT ![t] = "drain"] /\ event' = [event EXCEPT ![t] = NoEvent]
      /\ pending' = [pending EXCEPT ![ExecutorOf[t]] = NoEvent]
      /\ releases' = [releases EXCEPT ![coord.event] = @ + 1]
  BY DEF Release
<1>8. TaskTyped'
  <2>1. /\ pc' \in [Tasks -> Locations] /\ event' \in [Tasks -> {NoEvent} \union Events]
        /\ releases' \in [Events -> Nat]
    BY SMTT(60), <1>4, <1>7 DEF LifecycleInv, TaskTyped, Locations
  <2>2. pending' \in [Executors -> {NoEvent} \union Events]
    <3>1. pending \in [Executors -> {NoEvent} \union Events] /\ ExecutorOf[t] \in Executors
      BY LifecycleAssumption DEF LifecycleInv, TaskTyped
    <3>2. pending' = [pending EXCEPT ![ExecutorOf[t]] = NoEvent]
      BY <1>7
    <3>. QED
      BY <3>1, <3>2
  <2>. QED
    BY <1>5, <2>1, <2>2 DEF LifecycleInv, TaskTyped
<1>9. /\ pc'[t] = "drain"
      /\ \A u \in Tasks \ {t} : pc'[u] = pc[u] /\ event'[u] = event[u]
      /\ releases'[coord.event] = 1
      /\ \A e \in Events \ {coord.event} : releases'[e] = releases[e]
  BY SMTT(60), <1>2, <1>4, <1>7 DEF LifecycleInv, TaskTyped
<1>10. StoreTyped'
  BY <1>5 DEF LifecycleInv, StoreTyped
<1>11. \A u \in Tasks : pc'[u] \notin Inside
  BY <1>1, <1>9 DEF Inside
<1>12. Locked' /\ Calling'
  BY <1>5, <1>6, <1>11, Types DEF LifecycleInv, Locked, Calling, Inside, Store!Outstanding
<1>13. /\ Absorbed = coord.checkpoint /\ Absorbed' = coord.checkpoint
       /\ reg'.generation = coord.generation + 1
  BY SMTT(60), <1>5, NextRecordTyped DEF LifecycleInv, Absorbed
<1>14. Retained'
  BY <1>2, <1>5, <1>6, <1>13 DEF Retained, CoordinatorAgreesWithStore, Pending
<1>15. Fresh'
  <2>1. \A u \in Tasks : pc'[u] \in {"invoke", "handle"} =>
          /\ u # t /\ pc[u] = pc'[u] /\ event'[u] = event[u]
          /\ event[u] \in 1 .. Len(sent) /\ event[u] # coord.event
          /\ releases[event[u]] = 0
    BY <1>1, <1>9 DEF LifecycleInv, Fresh, Pending
  <2>2. \A u \in Tasks : pc'[u] \in {"invoke", "handle"} => releases'[event'[u]] = 0
    BY SMTT(60), <1>3, <1>9, <2>1, LifecycleAssumption DEF Events
  <2>3. \A e \in Events : e > Len(sent) => releases'[e] = 0
    BY SMTT(60), <1>2, <1>3, <1>4, <1>9 DEF LifecycleInv, Fresh
  <2>. QED
    BY SMTT(60), <1>5, <1>6, <2>1, <2>2, <2>3 DEF LifecycleInv, Fresh, Pending
<1>16. Accounted'
  BY SMTT(60), <1>2, <1>9, <1>13 DEF LifecycleInv, Accounted, ReleasedIsDurable, ReleasedAtMostOnce
<1>. QED
  BY <1>6, <1>8, <1>10, <1>12, <1>14, <1>15, <1>16 DEF LifecycleInv

LEMMA ReleasedStep ==
  ASSUME LifecycleInv, NEW t \in Tasks, CommitReturned(t) \/ Reconciled(t)
  PROVE  LifecycleInv'
<1>1. CASE CommitReturned(t)
  <2>1. /\ pc[t] \in {"commit", "recommit"} /\ call[App].phase = "committed"
        /\ Release(t) /\ UNCHANGED storeVars
    BY <1>1 DEF CommitReturned
  <2>2. reg = NextRecord /\ pc[t] \in Inside
    BY <2>1 DEF LifecycleInv, Calling, Inside
  <2>. QED
    BY <2>1, <2>2, ReleaseMove
<1>2. CASE Reconciled(t)
  <2>1. /\ pc[t] = "reconcile" /\ call[App].phase = "loaded" /\ call[App].record = NextRecord
        /\ Release(t) /\ UNCHANGED storeVars
    BY <1>2 DEF Reconciled, CommittedByStore, NextRecord
  <2>2. reg = NextRecord /\ pc[t] \in Inside
    BY <2>1 DEF LifecycleInv, Calling, Inside
  <2>. QED
    BY <2>1, <2>2, ReleaseMove
<1>. QED
  BY <1>1, <1>2

\* The call ends without a release and the coordinator keeps its values.
LEMMA GiveUpMove ==
  ASSUME LifecycleInv, NEW t \in Tasks, pc[t] \in Inside,
         call[App].phase \notin Store!Outstanding,
         UNCHANGED <<reg, call, coord, mem, sent, releases>>, coordLock' = None,
         ToCatch(t)
  PROVE  LifecycleInv'
<1>1. /\ coord.state = "pendingCommit" /\ \A u \in Tasks \ {t} : pc[u] \notin Inside
  BY Types DEF LifecycleInv, Locked
<1>2. /\ TaskTyped' /\ pc'[t] = "caught"
      /\ \A u \in Tasks \ {t} : pc'[u] = pc[u] /\ event'[u] = event[u]
  BY CatchMove DEF LifecycleInv
<1>3. \A u \in Tasks : pc'[u] \notin Inside
  BY <1>1, <1>2 DEF Inside
<1>4. StoreTyped' /\ CoordTyped' /\ Absorbed' = Absorbed /\ Pending' = Pending
  BY DEF LifecycleInv, StoreTyped, CoordTyped, Absorbed, Pending
<1>5. Locked' /\ Calling'
  BY <1>1, <1>3, Types DEF LifecycleInv, Locked, Calling, Inside
<1>6. Retained' /\ Fresh' /\ Accounted'
  BY SMTT(60), <1>2, <1>4 DEF LifecycleInv, Retained, CoordinatorAgreesWithStore, Fresh, Accounted,
                    ReleasedIsDurable, ReleasedAtMostOnce
<1>. QED
  BY <1>2, <1>4, <1>5, <1>6 DEF LifecycleInv

\* A failed retry asks the store what it holds before it gives up.
LEMMA ReconcileMove ==
  ASSUME LifecycleInv, NEW t \in Tasks, pc[t] = "recommit",
         UNCHANGED <<reg, coord, coordLock, event, mem, sent, releases>>,
         TaskTyped', pc'[t] = "reconcile", \A u \in Tasks \ {t} : pc'[u] = pc[u],
         StoreTyped', call'[App].phase = "load"
  PROVE  LifecycleInv'
<1>1. /\ coordLock = t /\ coord.state = "pendingCommit"
      /\ \A u \in Tasks \ {t} : pc[u] \notin Inside
  BY Types DEF LifecycleInv, Locked, Inside
<1>2. CoordTyped' /\ Absorbed' = Absorbed /\ Pending' = Pending
  BY DEF LifecycleInv, CoordTyped, Absorbed, Pending
<1>3. Locked'
  BY <1>1 DEF LifecycleInv, Locked, Inside
<1>4. Calling'
  BY <1>1, Types DEF Calling, Inside
<1>5. Retained' /\ Fresh' /\ Accounted'
  BY <1>2 DEF LifecycleInv, Retained, CoordinatorAgreesWithStore, Fresh, Accounted,
                    ReleasedIsDurable, ReleasedAtMostOnce
<1>. QED
  BY <1>2, <1>3, <1>4, <1>5 DEF LifecycleInv

LEMMA ThrewStep ==
  ASSUME LifecycleInv, NEW t \in Tasks, CommitThrew(t) \/ NotReconciled(t)
  PROVE  LifecycleInv'
<1>1. CASE \/ CommitThrew(t) /\ pc[t] = "commit"
           \/ NotReconciled(t)
  <2>1. /\ pc[t] \in Inside /\ call[App].phase \notin Store!Outstanding
        /\ UNCHANGED <<reg, call, coord, mem, sent, releases>>
        /\ coordLock' = None /\ ToCatch(t)
    BY <1>1 DEF CommitThrew, NotReconciled, Inside, storeVars, Store!Outstanding
  <2>. QED
    BY <2>1, GiveUpMove
<1>2. CASE CommitThrew(t) /\ pc[t] = "recommit"
  <2>1. /\ UNCHANGED <<reg, coord, coordLock, event, pending, mem, sent, releases>>
        /\ pc' = [pc EXCEPT ![t] = "reconcile"]
        /\ call' = [call EXCEPT ![App] = [phase |-> "load", record |-> Store!EmptyRecord]]
    BY <1>2 DEF CommitThrew, Store!InvokeLoad, Store!Answer
  <2>2. StoreTyped' /\ call'[App].phase = "load"
    BY <2>1, Types DEF LifecycleInv, StoreTyped, Phases
  <2>3. /\ TaskTyped' /\ pc'[t] = "reconcile" /\ \A u \in Tasks \ {t} : pc'[u] = pc[u]
        /\ UNCHANGED <<reg, coord, coordLock, event, mem, sent, releases>>
    BY <2>1 DEF LifecycleInv, TaskTyped, Locations
  <2>. QED
    BY <1>2, <2>2, <2>3, ReconcileMove
<1>. QED
  BY <1>1, <1>2 DEF CommitThrew

----------------------------------------------------------------------------
(* What holds of every behaviour *)

\* One step of the system.
LEMMA LifecycleStep ==
  ASSUME LifecycleInv, [Next]_vars
  PROVE  LifecycleInv'
<1>1. CASE Bootstrap
  BY <1>1, BootstrapStep
<1>2. CASE BootstrapLoaded
  BY <1>2, BootstrapLoadedStep
<1>3. CASE StoreStep
  BY <1>3, StoreStepStep
<1>4. ASSUME NEW t \in Tasks, TaskStep(t)
      PROVE  LifecycleInv'
  <2>1. CASE Send(t) \/ FollowUp(t)
    BY <2>1, SendStep
  <2>2. CASE Retry(t)
    BY <2>2, RetryStep
  <2>3. CASE InvokeCore(t)
    BY <2>3, InvokeCoreStep
  <2>4. CASE Caught(t) \/ Abandon(t)
    BY <2>4, ThrownStep
  <2>5. CASE HandleRefused(t) \/ RetryRefused(t)
    BY <2>5, RefusedStep
  <2>6. CASE HandleBroken(t) \/ HandleError(t)
    BY <2>6, HandleFailedStep
  <2>7. CASE HandleEffects(t)
    BY <2>7, HandleEffectsStep
  <2>8. CASE RetryExport(t)
    BY <2>8, RetryExportStep
  <2>9. CASE RetryCommit(t)
    BY <2>9, RetryCommitStep
  <2>10. CASE CommitReturned(t) \/ Reconciled(t)
    BY <2>10, ReleasedStep
  <2>11. CASE CommitThrew(t) \/ NotReconciled(t)
    BY <2>11, ThrewStep
  <2>12. CASE TakeEffect(t) \/ Performed(t) \/ Drained(t)
    BY <2>12, DrainStep
  <2>. QED
    BY <1>4, <2>1, <2>2, <2>3, <2>4, <2>5, <2>6, <2>7, <2>8, <2>9, <2>10, <2>11, <2>12
       DEF TaskStep, CallStep
<1>5. ASSUME NEW x \in Executors, ReplaceExecutor(x)
      PROVE  LifecycleInv'
  BY <1>5, ReplaceExecutorStep
<1>6. CASE ProcessDeath
  BY <1>6, ProcessDeathStep
<1>7. CASE UNCHANGED vars
  <2>1. UNCHANGED <<reg, call, coord, coordLock, mem, pending, pc, event, sent, releases>>
    BY <1>7 DEF vars
  <2>2. StoreTyped' /\ CoordTyped' /\ TaskTyped' /\ Locked'
    BY <2>1 DEF LifecycleInv, StoreTyped, CoordTyped, TaskTyped, Locked
  <2>3. Calling' /\ Retained'
    BY <2>1 DEF LifecycleInv, Calling, NextRecord, Retained, CoordinatorAgreesWithStore,
                Pending, Absorbed
  <2>4. Fresh' /\ Accounted'
    BY <2>1 DEF LifecycleInv, Fresh, Pending, Accounted, ReleasedIsDurable,
                ReleasedAtMostOnce, Absorbed
  <2>. QED
    BY <2>2, <2>3, <2>4 DEF LifecycleInv
<1>. QED
  BY <1>1, <1>2, <1>3, <1>4, <1>5, <1>6, <1>7 DEF Next

\* The invariant of the commit boundary holds of every behaviour, for any
\* number of tasks, executors, events and effect arrays.
THEOREM LifecycleInvariant == Spec => []LifecycleInv
<1>1. Init => LifecycleInv
  BY InitialState
<1>2. LifecycleInv /\ [Next]_vars => LifecycleInv'
  BY LifecycleStep
<1>. QED
  BY <1>1, <1>2, PTL DEF Spec

\* No effect leaves handleEventJson or retryPendingEvent before the checkpoint
\* with its event is committed, and no later commit or process death loses it.
THEOREM LifecycleReleasedIsDurable == Spec => []ReleasedIsDurable
<1>1. LifecycleInv => ReleasedIsDurable
  BY DEF LifecycleInv, Accounted
<1>. QED
  BY <1>1, LifecycleInvariant, PTL

\* Retries, ambiguous commits, concurrent executors and process deaths never
\* return the effect batch of one event twice.
THEOREM LifecycleReleasedAtMostOnce == Spec => []ReleasedAtMostOnce
<1>1. LifecycleInv => ReleasedAtMostOnce
  BY DEF LifecycleInv, Accounted
<1>. QED
  BY <1>1, LifecycleInvariant, PTL

\* A ready coordinator is at the generation the store holds, and with a commit
\* pending the store holds that generation or the exact retained checkpoint:
\* reconcileStoreRecord never finds the record diverged.
THEOREM LifecycleCoordinatorAgrees == Spec => []CoordinatorAgreesWithStore
<1>1. LifecycleInv => CoordinatorAgreesWithStore
  BY DEF LifecycleInv, Retained
<1>. QED
  BY <1>1, LifecycleInvariant, PTL

----------------------------------------------------------------------------
(* Success is durable *)

CascadeRecord ==
  [first: {NoEvent} \union Events, queue: Seq(Effects),
   seen: SUBSET {"input", "external", "error", "close"},
   effect: Effects \union {"none"}, ack: {NoEvent} \union Events,
   executed: Nat, outcome: Outcomes]

\* A completion callback whose transition is part of the committed checkpoint.
Durable(e) == e \in 1 .. Len(sent) /\ sent[e] = "completion" /\ e \in Absorbed

\* A cascade acknowledges only durable completions, and reports success only
\* once it acknowledged one.
Backed(c) ==
  /\ c.ack # NoEvent => Durable(c.ack)
  /\ c.outcome = "succeeded" => c.ack # NoEvent

AckInv == cascade \in [Tasks -> CascadeRecord] /\ \A t \in Tasks : Backed(cascade[t])

\* Commits, restarts and later events never take a completion back.
LEMMA DurableStays ==
  ASSUME LifecycleInv, [Next]_vars, NEW e, Durable(e)
  PROVE  e \in 1 .. Len(sent') /\ sent'[e] = "completion" /\ e \in Absorbed'
<1>1. reg' = reg \/ Store!Apply(App)
  BY DEF Next, vars, Bootstrap, BootstrapLoaded, StoreStep, ReplaceExecutor, ProcessDeath,
         TaskStep, CallStep, Send, Retry, InvokeCore, Caught, HandleRefused, HandleBroken,
         HandleError, HandleEffects, ExportAndCommit, RetryRefused, RetryExport, RetryCommit,
         CommitReturned, CommitThrew, Reconciled, NotReconciled, TakeEffect, Abandon,
         Performed, FollowUp, Drained, storeVars, Store!InvokeLoad, Store!InvokeCommit,
         Store!Committed, Store!Conflict, Store!Loaded, Store!Fail, Store!Crash
<1>2. Absorbed \subseteq Absorbed'
  <2>1. CASE reg' = reg
    BY <2>1 DEF Absorbed
  <2>2. CASE Store!Apply(App)
    <3>1. reg' = NextRecord /\ coord.state = "pendingCommit"
      BY <2>2, AppliedIsRetained DEF Store!Apply
    <3>2. Absorbed' = coord.checkpoint
      BY <3>1, NextRecordTyped, SMTT(60) DEF LifecycleInv, Absorbed
    <3>. QED
      BY <3>1, <3>2 DEF LifecycleInv, Retained
  <2>. QED
    BY <1>1, <2>1, <2>2
<1>3. sent' = sent \/ \E kind \in Kinds : sent' = Append(sent, kind)
  <2>1. ASSUME NEW t \in Tasks, Send(t) \/ FollowUp(t)
        PROVE  \E kind \in Kinds : sent' = Append(sent, kind)
    BY <2>1, LifecycleAssumption, SMTT(60)
       DEF Send, FollowUp, FollowUps, Kinds, UserKinds, FollowUpKinds
  <2>. QED
    BY <2>1
       DEF Next, vars, Bootstrap, BootstrapLoaded, StoreStep, ReplaceExecutor, ProcessDeath,
           TaskStep, CallStep, Retry, InvokeCore, Caught, HandleRefused, HandleBroken,
           HandleError, HandleEffects, RetryRefused, RetryExport, RetryCommit,
           CommitReturned, CommitThrew, Reconciled, NotReconciled, Release, TakeEffect,
           Abandon, Performed, Drained
<1>4. e \in 1 .. Len(sent') /\ sent'[e] = sent[e]
  <2>1. sent \in Seq(Kinds) /\ e \in 1 .. Len(sent)
    BY DEF LifecycleInv, TaskTyped, Durable
  <2>. QED
    BY <1>3, <2>1, SMTT(60)
<1>. QED
  BY <1>2, <1>4 DEF Durable

\* A step that replaces one cascade.
LEMMA CascadeMove ==
  ASSUME LifecycleInv, AckInv, [Next]_vars, NEW t \in Tasks, NEW c \in CascadeRecord,
         cascade' = [cascade EXCEPT ![t] = c],
         c.ack # NoEvent => c.ack = cascade[t].ack \/ Durable(c.ack),
         c.outcome = "succeeded" => c.ack # NoEvent
  PROVE  AckInv'
<1>1. cascade' \in [Tasks -> CascadeRecord]
  BY DEF AckInv
<1>2. cascade'[t] = c /\ \A u \in Tasks \ {t} : cascade'[u] = cascade[u]
  BY DEF AckInv
<1>3. \A e : Durable(e) => e \in 1 .. Len(sent') /\ sent'[e] = "completion" /\ e \in Absorbed'
  BY DurableStays
<1>4. ASSUME NEW u \in Tasks
      PROVE  Backed(cascade[u])'
  <2>1. CASE u = t
    BY <1>2, <1>3, <2>1 DEF AckInv, Backed, Durable
  <2>2. CASE u # t
    BY <1>2, <1>3, <2>2 DEF AckInv, Backed, Durable
  <2>. QED
    BY <2>1, <2>2
<1>. QED
  BY <1>1, <1>4 DEF AckInv

\* A cascade that begins, or that is thrown away, has acknowledged nothing.
LEMMA FreshCascades ==
  /\ \A first \in {NoEvent} \union Events, queue \in Seq(Effects) :
       /\ Cascade(first, queue) \in CascadeRecord
       /\ Cascade(first, queue).ack = NoEvent
       /\ Cascade(first, queue).outcome # "succeeded"
  /\ \A outcome \in {"none", "thrown"} :
       /\ Finished(outcome) \in CascadeRecord
       /\ Finished(outcome).ack = NoEvent
       /\ Finished(outcome).outcome # "succeeded"
<1>1. /\ <<>> \in Seq(Effects) /\ {"none", "thrown"} \subseteq Outcomes
      /\ "none" \in Effects \union {"none"} /\ NoEvent \in {NoEvent} \union Events
  BY SMTT(60) DEF Outcomes
<1>2. ASSUME NEW first \in {NoEvent} \union Events, NEW queue \in Seq(Effects)
      PROVE  /\ Cascade(first, queue) \in CascadeRecord
             /\ Cascade(first, queue).ack = NoEvent
             /\ Cascade(first, queue).outcome = "none"
  BY <1>1, SMTT(60) DEF Cascade, CascadeRecord
<1>3. ASSUME NEW c \in CascadeRecord, NEW outcome \in {"none", "thrown"}
      PROVE  /\ [c EXCEPT !.outcome = outcome] \in CascadeRecord
             /\ [c EXCEPT !.outcome = outcome].ack = c.ack
             /\ [c EXCEPT !.outcome = outcome].outcome = outcome
  BY <1>1, SMTT(60) DEF CascadeRecord
<1>. QED
  BY <1>1, <1>2, <1>3 DEF Finished

\* The fields a running cascade changes.
LEMMA CascadeUpdates ==
  ASSUME NEW c \in CascadeRecord, NEW queue \in Seq(Effects),
         NEW seen \in SUBSET {"input", "external", "error", "close"},
         NEW effect \in Effects \union {"none"}, NEW ack \in {NoEvent} \union Events
  PROVE  /\ [c EXCEPT !.queue = queue, !.effect = effect, !.ack = ack, !.seen = seen]
               \in CascadeRecord
         /\ [c EXCEPT !.queue = queue, !.effect = effect, !.executed = @ + 1, !.seen = seen]
               \in CascadeRecord
<1>1. c.executed + 1 \in Nat
  BY SMTT(60) DEF CascadeRecord
<1>. QED
  BY <1>1, ZenonT(30) DEF CascadeRecord

LEMMA ThrowAck ==
  ASSUME LifecycleInv, AckInv, [Next]_vars, NEW t \in Tasks, Throw(t)
  PROVE  AckInv'
  BY CascadeMove, FreshCascades DEF Throw

\* The batch a release returns continues the cascade that brought the event;
\* what it acknowledges is in the checkpoint that was just committed.
LEMMA ReleaseAck ==
  ASSUME LifecycleInv, AckInv, [Next]_vars, NEW t \in Tasks, pc[t] \in Inside,
         reg = NextRecord, Release(t)
  PROVE  AckInv'
<1>1. /\ coord.event \in 1 .. Len(sent) /\ coord.event \in Absorbed
      /\ coord.event \in Events /\ coord.event # NoEvent
  <2>1. coordLock = t /\ coord.state = "pendingCommit"
    BY Types DEF LifecycleInv, Locked
  <2>2. coord.event \in 1 .. Len(sent) /\ coord.event \in coord.checkpoint
    BY <2>1 DEF LifecycleInv, Retained, Pending
  <2>3. Absorbed = coord.checkpoint
    BY NextRecordTyped, SMTT(60) DEF LifecycleInv, Absorbed
  <2>4. Len(sent) \in Nat /\ Len(sent) <= MaxEvents
    BY SMTT(60) DEF LifecycleInv, TaskTyped
  <2>. QED
    BY <2>2, <2>3, <2>4, LifecycleAssumption, SMTT(60) DEF Events, NoEvent
<1>2. coord.effects \in Seq(Effects)
  <2>1. coord.effects \in Batches \union {<<>>}
    BY SMTT(60) DEF LifecycleInv, CoordTyped
  <2>2. <<>> \in Seq(Effects)
    BY SMTT(60)
  <2>. QED
    BY <2>1, <2>2, LifecycleAssumption
<1>3. CASE cascade' = [cascade EXCEPT ![t] = Cascade(coord.event, coord.effects)]
  BY <1>1, <1>2, <1>3, FreshCascades, CascadeMove
<1>4. CASE cascade' = [cascade EXCEPT ![t] = Resumed(t, coord.event, coord.effects)]
  <2>. DEFINE c == cascade[t]
              r == Resumed(t, coord.event, coord.effects)
              acked == sent[coord.event] = "completion"
                         /\ \A i \in DOMAIN coord.effects : coord.effects[i] # "error"
  <2>1. c \in CascadeRecord
    BY DEF AckInv
  <2>2. /\ c.queue \o coord.effects \in Seq(Effects) /\ "none" \in Effects \union {"none"}
        /\ (IF acked THEN coord.event ELSE c.ack) \in {NoEvent} \union Events
        /\ (IF c.effect = "publish" /\ sent[coord.event] = "success"
              THEN c.seen \union {"external"} ELSE c.seen)
             \in SUBSET {"input", "external", "error", "close"}
    BY <1>1, <1>2, <2>1, SMTT(60) DEF CascadeRecord
  <2>3. r \in CascadeRecord
    BY <2>1, <2>2, CascadeUpdates DEF Resumed
  <2>4. r.ack = (IF acked THEN coord.event ELSE c.ack) /\ r.outcome = c.outcome
    BY <2>1, SMTT(60) DEF Resumed, CascadeRecord
  <2>5. r.ack # NoEvent => r.ack = c.ack \/ Durable(r.ack)
    BY <1>1, <2>4 DEF Durable
  <2>6. r.outcome = "succeeded" => r.ack # NoEvent
    BY <1>1, <2>4 DEF AckInv, Backed
  <2>. QED
    BY <1>4, <2>3, <2>5, <2>6, CascadeMove
<1>. QED
  BY <1>3, <1>4 DEF Release

\* Taking the next effect and ending a cascade acknowledge nothing; the
\* outcome is success only with an acknowledgement.
LEMMA DrainAck ==
  ASSUME LifecycleInv, AckInv, [Next]_vars, NEW t \in Tasks, TakeEffect(t) \/ Drained(t)
  PROVE  AckInv'
<1>. DEFINE c == cascade[t]
<1>1. c \in CascadeRecord
  BY DEF AckInv
<1>2. PICK r \in CascadeRecord :
        /\ cascade' = [cascade EXCEPT ![t] = r]
        /\ r.ack = c.ack /\ (r.outcome = "succeeded" => c.outcome = "succeeded" \/ c.ack # NoEvent)
  <2>1. CASE TakeEffect(t)
    <3>1. CASE "close" \in c.seen
      <4>. DEFINE r == [c EXCEPT !.outcome = "effectAfterClose"]
      <4>1. r \in CascadeRecord /\ r.ack = c.ack /\ r.outcome # "succeeded"
        BY <1>1, SMTT(60) DEF CascadeRecord, Outcomes
      <4>2. cascade' = [cascade EXCEPT ![t] = r]
        BY <2>1, <3>1 DEF TakeEffect
      <4>. QED
        BY <4>1, <4>2
    <3>2. CASE "close" \notin c.seen
      <4>. DEFINE r == [c EXCEPT !.queue = Tail(@), !.effect = Head(c.queue),
                                 !.executed = @ + 1, !.seen = @ \union Observe(Head(c.queue))]
      <4>1. Tail(c.queue) \in Seq(Effects) /\ Head(c.queue) \in Effects
        BY <1>1, <2>1, SMTT(60) DEF TakeEffect, CascadeRecord
      <4>2. c.seen \union Observe(Head(c.queue))
              \in SUBSET {"input", "external", "error", "close"}
        BY <1>1, SMTT(60) DEF Observe, CascadeRecord
      <4>3. r \in CascadeRecord
        BY <1>1, <4>1, <4>2, CascadeUpdates
      <4>4. r.ack = c.ack /\ r.outcome = c.outcome
        BY <1>1, SMTT(60) DEF CascadeRecord
      <4>5. cascade' = [cascade EXCEPT ![t] = r]
        BY <2>1, <3>2 DEF TakeEffect
      <4>. QED
        BY <4>3, <4>4, <4>5
    <3>. QED
      BY <3>1, <3>2
  <2>2. CASE Drained(t)
    <3>. DEFINE r == [c EXCEPT !.outcome = Outcome(c)]
    <3>1. Outcome(c) \in Outcomes /\ (Outcome(c) = "succeeded" => c.ack # NoEvent)
      BY SMTT(60) DEF Outcome, Outcomes
    <3>2. r \in CascadeRecord /\ r.ack = c.ack /\ r.outcome = Outcome(c)
      BY <1>1, <3>1, SMTT(60) DEF CascadeRecord
    <3>3. cascade' = [cascade EXCEPT ![t] = r]
      BY <2>2 DEF Drained
    <3>. QED
      BY <3>1, <3>2, <3>3
  <2>. QED
    BY <2>1, <2>2
<1>3. r.outcome = "succeeded" => r.ack # NoEvent
  BY <1>2 DEF AckInv, Backed
<1>. QED
  BY <1>2, <1>3, CascadeMove

\* One step of the system.
LEMMA AckStep ==
  ASSUME LifecycleInv, AckInv, [Next]_vars
  PROVE  AckInv'
<1>1. CASE UNCHANGED cascade
  <2>1. \A e : Durable(e) => e \in 1 .. Len(sent') /\ sent'[e] = "completion" /\ e \in Absorbed'
    BY DurableStays
  <2>2. ASSUME NEW t \in Tasks
        PROVE  Backed(cascade[t])'
    BY <1>1, <2>1 DEF AckInv, Backed, Durable
  <2>. QED
    BY <1>1, <2>2 DEF AckInv
<1>2. ASSUME NEW t \in Tasks, TaskStep(t)
      PROVE  AckInv'
  <2>1. CASE Send(t) \/ Retry(t)
    <3>1. PICK first \in {NoEvent} \union Events :
            cascade' = [cascade EXCEPT ![t] = Cascade(first, <<>>)]
      <4>1. pending[ExecutorOf[t]] \in {NoEvent} \union Events
        BY LifecycleAssumption DEF LifecycleInv, TaskTyped
      <4>2. Send(t) => Len(sent) + 1 \in Events
        BY LifecycleAssumption, SMTT(60) DEF LifecycleInv, TaskTyped, Send, Events
      <4>. QED
        BY <2>1, <4>1, <4>2 DEF Send, Retry
    <3>2. <<>> \in Seq(Effects)
      BY SMTT(60)
    <3>. QED
      BY <3>1, <3>2, FreshCascades, CascadeMove
  <2>2. CASE Throw(t)
    BY <2>2, ThrowAck
  <2>3. CASE CommitReturned(t) \/ Reconciled(t)
    <3>1. Release(t) /\ pc[t] \in Inside
      BY <2>3 DEF CommitReturned, Reconciled, Inside
    <3>2. reg = NextRecord
      BY <2>3 DEF LifecycleInv, Calling, CommitReturned, Reconciled, CommittedByStore, NextRecord
    <3>. QED
      BY <3>1, <3>2, ReleaseAck
  <2>4. CASE TakeEffect(t) \/ Drained(t)
    BY <2>4, DrainAck
  <2>5. CASE \/ InvokeCore(t) \/ Caught(t) \/ HandleRefused(t) \/ HandleBroken(t)
             \/ HandleError(t) \/ HandleEffects(t) \/ RetryRefused(t) \/ RetryExport(t)
             \/ RetryCommit(t) \/ CommitThrew(t) \/ NotReconciled(t)
             \/ Abandon(t) \/ Performed(t) \/ FollowUp(t)
    <3>1. Throw(t) \/ UNCHANGED cascade
      BY <2>5 DEF InvokeCore, Caught, HandleRefused, HandleBroken, HandleError,
                  HandleEffects, ExportAndCommit, RetryRefused, RetryExport, RetryCommit,
                  CommitThrew, NotReconciled, Abandon, Performed, FollowUp, ToCatch
    <3>. QED
      BY <1>1, <2>2, <3>1
  <2>. QED
    BY <1>2, <2>1, <2>3, <2>4, <2>5 DEF TaskStep, CallStep
<1>3. CASE ProcessDeath
  <2>1. cascade' = [t \in Tasks |-> Finished("none")]
    BY <1>3 DEF ProcessDeath
  <2>2. ASSUME NEW t \in Tasks
        PROVE  cascade'[t] \in CascadeRecord /\ Backed(cascade[t])'
    BY <2>1, FreshCascades DEF Backed
  <2>3. cascade' \in [Tasks -> CascadeRecord]
    BY <2>1, FreshCascades
  <2>. QED
    BY <2>2, <2>3 DEF AckInv
<1>. QED
  BY <1>1, <1>2, <1>3
     DEF Next, vars, Bootstrap, BootstrapLoaded, StoreStep, ReplaceExecutor, taskVars

\* A cascade reports success only when a completion callback is part of the
\* committed checkpoint, through retries, restarts and later commits.
THEOREM LifecycleSucceededIsDurable == Spec => []SucceededIsDurable
<1>1. Init => AckInv
  <2>1. Init => cascade = [t \in Tasks |-> Finished("none")]
    BY DEF Init
  <2>. QED
    BY <2>1, FreshCascades DEF AckInv, Backed
<1>2. LifecycleInv /\ AckInv /\ [Next]_vars => AckInv'
  BY AckStep
<1>3. AckInv => SucceededIsDurable
  BY DEF AckInv, Backed, Durable, SucceededIsDurable
<1>. QED
  BY <1>1, <1>2, <1>3, LifecycleInvariant, PTL DEF Spec

=============================================================================
