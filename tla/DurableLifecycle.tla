-------------------------- MODULE DurableLifecycle --------------------------
(***************************************************************************)
(* The commit boundary between the effect executors, the Rust Core and the *)
(* platform store: `DurableLifecycleCoordinator` with the `EffectExecutor` *)
(* cascades that call it (ios/Sources/WalletShell).  The store is the      *)
(* abstract register of DurableRegister, which DurableStore implements.    *)
(*                                                                         *)
(* A task is one `send` or `retryPendingDurableCommit` call.  Executors    *)
(* are rebuilt per flow over one coordinator (ios/App/WalletModel.swift),  *)
(* so several tasks and executors meet in one coordinator.  An event is    *)
(* the number of its occurrence; a checkpoint is the set of events whose   *)
(* durable effect on Core it contains.                                     *)
(***************************************************************************)
EXTENDS Naturals, Sequences

CONSTANTS Tasks,       \* concurrent executor calls
          Executors,   \* EffectExecutor objects over the one coordinator
          ExecutorOf,  \* ExecutorOf[t]: the executor task t runs on
          HostKinds,   \* kinds of event the host sends
          Batches,     \* effect arrays Core may answer with
          MaxEvents,   \* bound on event occurrences
          MaxEffects,  \* maximumEffectsPerCascade
          None         \* no task, no checkpoint

Events == 1 .. MaxEvents
NoEvent == 0

Checkpoints == SUBSET Events

\* The effect classes the cascade tells apart: an operation whose success is
\* a completion event, any other operation, the transfer-offer publication,
\* an out-of-band broadcast, a screen, the error screen, close.
Effects == {"deliver", "operate", "publish", "emit", "render", "error", "close"}

\* The initial event types drain tells apart, and the results of effects.
UserKinds == {"request", "decline", "idle"}
FollowUpKinds == {"completion", "success", "failure"}

ASSUME LifecycleAssumption ==
  /\ ExecutorOf \in [Tasks -> Executors]
  /\ HostKinds \subseteq UserKinds
  /\ Batches \subseteq Seq(Effects)
  /\ MaxEvents \in Nat /\ MaxEffects \in Nat
  /\ None \notin Tasks /\ \A bytes \in Checkpoints : None # bytes

VARIABLES reg, owner, call,  \* the store: committed record, outstanding call
          coord,             \* the coordinator: State and its pending values
          coordLock,         \* the task inside a coordinator call, or None
          mem,               \* events absorbed by the Core in memory
          pending,           \* pending[x]: pendingDurableEventJson
          execLock,          \* execLock[x]: holder of durableStateLock, or None
          pc, event,         \* control point and current event of each task
          cascade,           \* drain's local variables of each task
          sent,              \* kinds of the events so far, by occurrence
          releases           \* times each event's effect batch was returned

storeVars == <<reg, owner, call>>
taskVars == <<pc, event, cascade>>
vars == <<reg, owner, call, coord, coordLock, mem, pending, execLock,
          pc, event, cascade, sent, releases>>

App == "app"

Store == INSTANCE DurableRegister WITH
           Clients <- {App}, Payloads <- Checkpoints,
           ContextOf <- [c \in {App} |-> App], MaxGeneration <- MaxEvents

----------------------------------------------------------------------------
(* State *)

\* generation: the committed generation the coordinator builds on; the
\* retained event, effects and checkpoint matter in the pending states.
Coordinator(state, generation, e, batch, bytes) ==
  [state |-> state, generation |-> generation, event |-> e,
   effects |-> batch, checkpoint |-> bytes]

Settled(state, generation) == Coordinator(state, generation, NoEvent, <<>>, {})

Uninitialized == Settled("uninitialized", 0)

Pending == coord.state \in {"pendingExport", "pendingCommit"}

CoordinatorFree == coordLock = None /\ coord.state # "bootstrapping"

\* drain's locals: the remaining queue, what has been seen, the effect being
\* executed, the cascade's first event, the acknowledging completion event.
Cascade(first, queue) ==
  [first |-> first, queue |-> queue, seen |-> {}, effect |-> "none",
   ack |-> NoEvent, executed |-> 0, outcome |-> "none"]

Finished(outcome) == [Cascade(NoEvent, <<>>) EXCEPT !.outcome = outcome]

Outcomes == {"none", "thrown", "idle", "awaitingInput", "succeeded", "declined",
             "coreError", "closedWithoutSuccess", "missingTerminalOutcome",
             "effectAfterClose"}

Init ==
  /\ Store!Init
  /\ coord = Uninitialized
  /\ coordLock = None
  /\ mem = {}
  /\ pending = [x \in Executors |-> NoEvent]
  /\ execLock = [x \in Executors |-> None]
  /\ pc = [t \in Tasks |-> "idle"]
  /\ event = [t \in Tasks |-> NoEvent]
  /\ cascade = [t \in Tasks |-> Finished("none")]
  /\ sent = <<>>
  /\ releases = [e \in Events |-> 0]

----------------------------------------------------------------------------
(* Coordinator bootstrap, and the store's own steps *)

\* bootstrap(environment:): prepare, then the outstanding store.load.
Bootstrap ==
  /\ coord.state = "uninitialized"
  /\ coordLock = None
  /\ \/ /\ coord' = Settled("bootstrapping", 0)
        /\ Store!InvokeLoad(App)
     \/ /\ coord' = Settled("failed", 0)
        /\ UNCHANGED storeVars
  /\ UNCHANGED <<coordLock, mem, pending, execLock, taskVars, sent, releases>>

\* The load answers; restoreDurableCheckpointRecord may still refuse.
BootstrapLoaded ==
  /\ coord.state = "bootstrapping"
  /\ \/ /\ call[App].phase = "loaded"
        /\ coord' = Settled("ready", call[App].record.generation)
        /\ mem' = IF call[App].record.generation = 0
                  THEN {} ELSE call[App].record.plaintext
     \/ /\ \/ call[App].phase = "failed"
           \/ call[App].phase = "loaded" /\ call[App].record.generation > 0
        /\ coord' = Settled("failed", 0)
        /\ UNCHANGED mem
  /\ UNCHANGED <<storeVars, coordLock, pending, execLock, taskVars, sent, releases>>

StoreStep ==
  /\ Store!Apply(App) \/ Store!Committed(App) \/ Store!Conflict(App)
     \/ Store!Loaded(App) \/ Store!Fail(App)
  /\ UNCHANGED <<coord, coordLock, mem, pending, execLock, taskVars, sent, releases>>

----------------------------------------------------------------------------
(* Leaving an executor call *)

\* The call throws: the cascade, with the rest of its queue, is abandoned.
Throw(t) ==
  /\ pc' = [pc EXCEPT ![t] = "idle"]
  /\ cascade' = [cascade EXCEPT ![t] = Finished("thrown")]
  /\ event' = [event EXCEPT ![t] = NoEvent]

\* catch DurableLifecycleError: still under durableStateLock, the executor
\* asks the coordinator whether a commit is pending.
ToCatch(t) ==
  /\ pc' = [pc EXCEPT ![t] = "caught"]
  /\ UNCHANGED <<event, cascade, pending, execLock>>

Caught(t) ==
  /\ pc[t] = "caught"
  /\ CoordinatorFree
  /\ pending' = IF Pending THEN pending ELSE [pending EXCEPT ![ExecutorOf[t]] = NoEvent]
  /\ execLock' = [execLock EXCEPT ![ExecutorOf[t]] = None]
  /\ Throw(t)
  /\ UNCHANGED <<storeVars, coord, coordLock, mem, sent, releases>>

\* Mutant: any result that is not a failure acknowledges the cascade.
MutantResumed(t, e, batch) ==
  [cascade[t] EXCEPT !.queue = @ \o batch, !.effect = "none",
                     !.ack = IF sent[e] # "failure" THEN e ELSE @]

\* A completion callback counts once Core has durably accepted it and its
\* batch has no error screen; a published offer waits for the peer.
Resumed(t, e, batch) ==
  LET c == cascade[t]
      acked == sent[e] = "completion" /\ \A i \in DOMAIN batch : batch[i] # "error"
  IN [c EXCEPT !.queue = @ \o batch, !.effect = "none",
               !.ack = IF acked THEN e ELSE @,
               !.seen = IF c.effect = "publish" /\ sent[e] = "success"
                        THEN @ \union {"external"} ELSE @]

\* Mutant: the coordinator keeps the batch it has returned.
MutantRelease(t) ==
  /\ coordLock' = None
  /\ releases' = [releases EXCEPT ![coord.event] = @ + 1]
  /\ execLock' = [execLock EXCEPT ![ExecutorOf[t]] = None]
  /\ pc' = [pc EXCEPT ![t] = "drain"]
  /\ cascade' = [cascade EXCEPT ![t] =
       IF cascade[t].first = coord.event THEN Cascade(coord.event, coord.effects)
       ELSE Resumed(t, coord.event, coord.effects)]
  /\ UNCHANGED <<coord, pending, event, mem, sent>>

\* handleEventJson/retryPendingEvent return the retained effects: the
\* coordinator is ready at the next generation and the batch is discarded.
Release(t) ==
  /\ coord' = Settled("ready", coord.generation + 1)
  /\ coordLock' = None
  /\ releases' = [releases EXCEPT ![coord.event] = @ + 1]
  /\ pending' = [pending EXCEPT ![ExecutorOf[t]] = NoEvent]
  /\ execLock' = [execLock EXCEPT ![ExecutorOf[t]] = None]
  /\ pc' = [pc EXCEPT ![t] = "drain"]
  /\ event' = [event EXCEPT ![t] = NoEvent]
  /\ cascade' = [cascade EXCEPT ![t] =
       IF cascade[t].first = coord.event THEN Cascade(coord.event, coord.effects)
       ELSE Resumed(t, coord.event, coord.effects)]
  /\ UNCHANGED <<mem, sent>>

----------------------------------------------------------------------------
(* Executor calls into the coordinator *)

\* send: a fresh event from the host.
Send(t) ==
  /\ pc[t] = "idle"
  /\ Len(sent) < MaxEvents
  /\ \E kind \in HostKinds : sent' = Append(sent, kind)
  /\ event' = [event EXCEPT ![t] = Len(sent) + 1]
  /\ cascade' = [cascade EXCEPT ![t] = Cascade(Len(sent) + 1, <<>>)]
  /\ pc' = [pc EXCEPT ![t] = "invoke"]
  /\ UNCHANGED <<storeVars, coord, coordLock, mem, pending, execLock, releases>>

\* invokeCore up to its call: nothing retained by the executor, nothing by
\* the coordinator (a separate acquisition of the coordinator's lock).
InvokeCore(t) ==
  LET x == ExecutorOf[t] IN
  /\ pc[t] = "invoke"
  /\ execLock[x] = None
  /\ IF pending[x] # NoEvent
     THEN Throw(t) /\ UNCHANGED <<pending, execLock>>
     ELSE /\ CoordinatorFree
          /\ IF Pending THEN Throw(t) /\ UNCHANGED <<pending, execLock>>
             ELSE /\ pending' = [pending EXCEPT ![x] = event[t]]
                  /\ execLock' = [execLock EXCEPT ![x] = t]
                  /\ pc' = [pc EXCEPT ![t] = "handle"]
                  /\ UNCHANGED <<event, cascade>>
  /\ UNCHANGED <<storeVars, coord, coordLock, mem, sent, releases>>

\* retryPendingDurableCommit with the event this executor retains.
Retry(t) ==
  LET x == ExecutorOf[t] IN
  /\ pc[t] = "idle"
  /\ execLock[x] = None
  /\ pending[x] # NoEvent
  /\ execLock' = [execLock EXCEPT ![x] = t]
  /\ event' = [event EXCEPT ![t] = pending[x]]
  /\ cascade' = [cascade EXCEPT ![t] = Cascade(pending[x], <<>>)]
  /\ pc' = [pc EXCEPT ![t] = "retry"]
  /\ UNCHANGED <<storeVars, coord, coordLock, mem, pending, sent, releases>>

----------------------------------------------------------------------------
(* Inside the coordinator *)

\* exportPending then commitPending up to the outstanding store.commit.  An
\* export failure keeps pendingExport and throws.
ExportAndCommit(t, generation, e, batch, absorbed, at) ==
  \/ /\ coord' = Coordinator("pendingCommit", generation, e, batch, absorbed)
     /\ coordLock' = t
     /\ Store!InvokeCommit(App, generation + 1, absorbed)
     /\ pc' = [pc EXCEPT ![t] = at]
     /\ UNCHANGED <<event, cascade, pending, execLock>>
  \/ /\ coord' = Coordinator("pendingExport", generation, e, batch, {})
     /\ ToCatch(t)
     /\ UNCHANGED <<storeVars, coordLock>>

\* handleEventJson in any state but ready.
HandleRefused(t) ==
  /\ pc[t] = "handle"
  /\ CoordinatorFree
  /\ coord.state # "ready"
  /\ ToCatch(t)
  /\ UNCHANGED <<storeVars, coord, coordLock, mem, sent, releases>>

\* The engine throws or its output is malformed.
HandleBroken(t) ==
  /\ pc[t] = "handle"
  /\ CoordinatorFree
  /\ coord.state = "ready"
  /\ coord' = Settled("failed", 0)
  /\ mem' \in {mem, mem \union {event[t]}}
  /\ ToCatch(t)
  /\ UNCHANGED <<storeVars, coordLock, sent, releases>>

\* Core answers with an error envelope: nothing is committed.  Core may have
\* changed its durable fields before it failed (the wire serialisation of the
\* effects comes after the transition).  Decoding the envelope throws.
HandleError(t) ==
  /\ pc[t] = "handle"
  /\ CoordinatorFree
  /\ coord.state = "ready"
  /\ mem' \in {mem, mem \union {event[t]}}
  /\ pending' = [pending EXCEPT ![ExecutorOf[t]] = NoEvent]
  /\ execLock' = [execLock EXCEPT ![ExecutorOf[t]] = None]
  /\ Throw(t)
  /\ UNCHANGED <<storeVars, coord, coordLock, sent, releases>>

\* Core answers with an effect array.
HandleEffects(t) ==
  /\ pc[t] = "handle"
  /\ CoordinatorFree
  /\ coord.state = "ready"
  /\ mem' = mem \union {event[t]}
  /\ \E batch \in Batches :
       ExportAndCommit(t, coord.generation, event[t], batch, mem', "commit")
  /\ UNCHANGED <<sent, releases>>

\* retryPendingEvent: only the exact retained event; Core is not called.
RetryRefused(t) ==
  /\ pc[t] = "retry"
  /\ CoordinatorFree
  /\ ~Pending \/ coord.event # event[t]
  /\ ToCatch(t)
  /\ UNCHANGED <<storeVars, coord, coordLock, mem, sent, releases>>

RetryExport(t) ==
  /\ pc[t] = "retry"
  /\ CoordinatorFree
  /\ coord.state = "pendingExport" /\ coord.event = event[t]
  /\ ExportAndCommit(t, coord.generation, coord.event, coord.effects, mem, "recommit")
  /\ UNCHANGED <<mem, sent, releases>>

RetryCommit(t) ==
  /\ pc[t] = "retry"
  /\ CoordinatorFree
  /\ coord.state = "pendingCommit" /\ coord.event = event[t]
  /\ coordLock' = t
  /\ Store!InvokeCommit(App, coord.generation + 1, coord.checkpoint)
  /\ pc' = [pc EXCEPT ![t] = "recommit"]
  /\ UNCHANGED <<coord, event, cascade, pending, execLock, mem, sent, releases>>

\* store.commit returned the exact generation and bytes.
CommitReturned(t) ==
  /\ pc[t] \in {"commit", "recommit"}
  /\ call[App].phase = "committed"
  /\ Release(t)
  /\ UNCHANGED storeVars

\* Mutant: a failed commit is taken as not performed.
MutantCommitThrew(t) ==
  /\ call[App].phase \in {"conflict", "failed"}
  /\ pc[t] = "commit"
  /\ coordLock' = None
  /\ coord' = Settled("ready", coord.generation)
  /\ ToCatch(t)
  /\ UNCHANGED <<storeVars, mem, sent, releases>>

\* Mutant: a failed commit does not unlock the coordinator.
MutantCommitThrewLocked(t) ==
  /\ call[App].phase \in {"conflict", "failed"}
  /\ \/ /\ pc[t] = "commit"
        /\ ToCatch(t)
        /\ UNCHANGED <<storeVars, coordLock>>
     \/ /\ pc[t] = "recommit"
        /\ Store!InvokeLoad(App)
        /\ pc' = [pc EXCEPT ![t] = "reconcile"]
        /\ UNCHANGED <<coordLock, event, cascade, pending, execLock>>
  /\ UNCHANGED <<coord, mem, sent, releases>>

\* store.commit threw: the retained values stay.  Only a retry reconciles.
CommitThrew(t) ==
  /\ call[App].phase \in {"conflict", "failed"}
  /\ \/ /\ pc[t] = "commit"
        /\ coordLock' = None
        /\ ToCatch(t)
        /\ UNCHANGED storeVars
     \/ /\ pc[t] = "recommit"
        /\ Store!InvokeLoad(App)
        /\ pc' = [pc EXCEPT ![t] = "reconcile"]
        /\ UNCHANGED <<coordLock, event, cascade, pending, execLock>>
  /\ UNCHANGED <<coord, mem, sent, releases>>

\* Mutant: any record that loads counts as the committed one.
MutantCommittedByStore == call[App].phase = "loaded"

\* reconcileStoreRecord: committed only for the exact generation and bytes.
CommittedByStore ==
  /\ call[App].phase = "loaded"
  /\ call[App].record = [generation |-> coord.generation + 1,
                         plaintext |-> coord.checkpoint]

Reconciled(t) ==
  /\ pc[t] = "reconcile"
  /\ CommittedByStore
  /\ Release(t)
  /\ UNCHANGED storeVars

\* unchanged, diverged or unavailable.
NotReconciled(t) ==
  /\ pc[t] = "reconcile"
  /\ call[App].phase \in {"loaded", "failed"}
  /\ ~CommittedByStore
  /\ coordLock' = None
  /\ ToCatch(t)
  /\ UNCHANGED <<storeVars, coord, mem, sent, releases>>

----------------------------------------------------------------------------
(* The effect cascade *)

FollowUps(effect) ==
  CASE effect = "deliver" -> {"completion", "failure"}
    [] effect \in {"operate", "publish"} -> {"success", "failure"}
    [] effect = "render" -> {"none", "failure"}
    [] OTHER -> {"none"}

Observe(effect) ==
  CASE effect = "render" -> {"input"}
    [] effect = "emit" -> {"external"}
    [] effect \in {"error", "close"} -> {effect}
    [] OTHER -> {}

\* Take the next effect and begin executing it, within the cascade's limit.
TakeEffect(t) ==
  LET c == cascade[t] IN
  /\ pc[t] = "drain"
  /\ c.queue # <<>>
  /\ c.executed < MaxEffects
  /\ IF "close" \in c.seen
     THEN /\ pc' = [pc EXCEPT ![t] = "idle"]
          /\ cascade' = [cascade EXCEPT ![t] = [c EXCEPT !.outcome = "effectAfterClose"]]
     ELSE /\ pc' = [pc EXCEPT ![t] = "await"]
          /\ cascade' = [cascade EXCEPT ![t] =
               [c EXCEPT !.queue = Tail(@), !.effect = Head(c.queue),
                         !.executed = @ + 1, !.seen = @ \union Observe(Head(c.queue))]]
  /\ UNCHANGED <<storeVars, coord, coordLock, mem, pending, execLock, event, sent, releases>>

\* The effect throws out of the cascade, or the cascade is too long.
Abandon(t) ==
  /\ \/ pc[t] = "await" /\ cascade[t].effect \in {"emit", "render", "error"}
     \/ pc[t] = "drain" /\ cascade[t].queue # <<>> /\ cascade[t].executed = MaxEffects
  /\ Throw(t)
  /\ UNCHANGED <<storeVars, coord, coordLock, mem, pending, execLock, sent, releases>>

Performed(t) ==
  /\ pc[t] = "await"
  /\ "none" \in FollowUps(cascade[t].effect)
  /\ pc' = [pc EXCEPT ![t] = "drain"]
  /\ UNCHANGED <<storeVars, coord, coordLock, mem, pending, execLock, event, cascade,
                 sent, releases>>

\* The effect's result goes back to Core as the next event.
FollowUp(t) ==
  /\ pc[t] = "await"
  /\ Len(sent) < MaxEvents
  /\ \E kind \in FollowUps(cascade[t].effect) \ {"none"} : sent' = Append(sent, kind)
  /\ event' = [event EXCEPT ![t] = Len(sent) + 1]
  /\ pc' = [pc EXCEPT ![t] = "invoke"]
  /\ UNCHANGED <<storeVars, coord, coordLock, mem, pending, execLock, cascade, releases>>

Outcome(c) ==
  IF "error" \in c.seen THEN "coreError"
  ELSE IF "close" \in c.seen
       THEN IF sent[c.first] = "decline" THEN "declined"
            ELSE IF c.ack # NoEvent THEN "succeeded" ELSE "closedWithoutSuccess"
  ELSE IF c.seen \intersect {"input", "external"} # {} THEN "awaitingInput"
  ELSE IF sent[c.first] = "idle" THEN "idle" ELSE "missingTerminalOutcome"

Drained(t) ==
  /\ pc[t] = "drain"
  /\ cascade[t].queue = <<>>
  /\ pc' = [pc EXCEPT ![t] = "idle"]
  /\ cascade' = [cascade EXCEPT ![t].outcome = Outcome(cascade[t])]
  /\ UNCHANGED <<storeVars, coord, coordLock, mem, pending, execLock, event, sent, releases>>

----------------------------------------------------------------------------
(* The host: executors rebuilt per flow, process death *)

ReplaceExecutor(x) ==
  /\ pending[x] # NoEvent
  /\ \A t \in Tasks : ExecutorOf[t] = x => pc[t] = "idle"
  /\ pending' = [pending EXCEPT ![x] = NoEvent]
  /\ UNCHANGED <<storeVars, coord, coordLock, mem, execLock, taskVars, sent, releases>>

\* Everything but the committed record is memory only.
ProcessDeath ==
  /\ Store!Crash
  /\ call' = [c \in {App} |-> Store!Idle]
  /\ coord' = Uninitialized
  /\ coordLock' = None
  /\ mem' = {}
  /\ pending' = [x \in Executors |-> NoEvent]
  /\ execLock' = [x \in Executors |-> None]
  /\ pc' = [t \in Tasks |-> "idle"]
  /\ event' = [t \in Tasks |-> NoEvent]
  /\ cascade' = [t \in Tasks |-> Finished("none")]
  /\ UNCHANGED <<sent, releases>>

\* One step of a call that holds or waits for a lock.
CallStep(t) ==
  \/ InvokeCore(t) \/ Caught(t)
  \/ HandleRefused(t) \/ HandleBroken(t) \/ HandleError(t) \/ HandleEffects(t)
  \/ RetryRefused(t) \/ RetryExport(t) \/ RetryCommit(t)
  \/ CommitReturned(t) \/ CommitThrew(t) \/ Reconciled(t) \/ NotReconciled(t)

TaskStep(t) ==
  \/ Send(t) \/ Retry(t) \/ CallStep(t)
  \/ TakeEffect(t) \/ Abandon(t) \/ Performed(t) \/ FollowUp(t) \/ Drained(t)

Next ==
  \/ Bootstrap \/ BootstrapLoaded \/ StoreStep
  \/ \E t \in Tasks : TaskStep(t)
  \/ \E x \in Executors : ReplaceExecutor(x)
  \/ ProcessDeath

Spec == Init /\ [][Next]_vars

\* Every thread inside a call keeps running and the store answers; nothing is
\* assumed of the host, of pending effects or of retries.
FairSpec ==
  /\ Spec
  /\ WF_vars(StoreStep) /\ WF_vars(BootstrapLoaded)
  /\ \A t \in Tasks : SF_vars(CallStep(t))

----------------------------------------------------------------------------
(* Properties *)

Locations == {"idle", "invoke", "handle", "commit", "recommit", "reconcile",
              "retry", "caught", "drain", "await"}

\* What the committed checkpoint contains.
Absorbed == IF reg.generation = 0 THEN {} ELSE reg.plaintext

\* No effect leaves the coordinator before the checkpoint holding its event's
\* transition is committed, and no later commit or restart loses it
\* (docs/DURABLE_LIFECYCLE.md, "Event commit boundary").
ReleasedIsDurable == \A e \in Events : releases[e] > 0 => e \in Absorbed

\* At-most-once release: retries, ambiguous commits, concurrent executors and
\* process deaths never return one effect batch twice.
ReleasedAtMostOnce == \A e \in Events : releases[e] <= 1

\* The coordinator never builds on a generation the store does not hold: when
\* ready it is at the store's generation with at least its content in memory,
\* and with a commit pending the store holds the expected generation or the
\* exact retained checkpoint, so a retry cannot end in persistenceDiverged.
CoordinatorAgreesWithStore ==
  /\ coord.state = "ready" => /\ coord.generation = reg.generation
                              /\ Absorbed \subseteq mem
  /\ Pending => \/ coord.generation = reg.generation
                \/ /\ coord.state = "pendingCommit"
                   /\ reg = [generation |-> coord.generation + 1,
                             plaintext |-> coord.checkpoint]

\* A cascade reports success only when a completion callback is part of the
\* committed checkpoint.
SucceededIsDurable ==
  \A t \in Tasks : cascade[t].outcome = "succeeded" =>
    /\ cascade[t].ack \in Absorbed
    /\ sent[cascade[t].ack] = "completion"

InCall(t) == pc[t] \in Locations \ {"idle", "drain", "await"}

\* Every call into Core returns or throws: the executor lock and the
\* coordinator lock, taken in this order and across a failing store, are
\* always given back.
CallsReturn == \A t \in Tasks : InCall(t) ~> ~InCall(t)

\* "never adopt the new event as if it were the original pending event": an
\* executor outside a call retains an event only if the coordinator does.
NeverAdoptsAnotherEvent ==
  \A x \in Executors :
    Pending /\ execLock[x] = None /\ pending[x] # NoEvent => pending[x] = coord.event
=============================================================================
