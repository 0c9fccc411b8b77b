-------------------------- MODULE DurableRegister --------------------------
(***************************************************************************)
(* What the encrypted platform store promises the lifecycle coordinator:   *)
(* one register holding the last committed checkpoint and its generation,  *)
(* changed only by compare-and-swap.  A call that fails is ambiguous (the  *)
(* register holds the old or the new record, never anything else), a call  *)
(* that succeeds has taken effect, and a load returns the register or      *)
(* fails.  This is the reading of the `DurableStateStore` protocol that    *)
(* DurableLifecycleCoordinator relies on; DurableStore implements it.      *)
(***************************************************************************)
EXTENDS Naturals

CONSTANTS Clients,        \* processes holding a store object
          Payloads,       \* checkpoint plaintexts
          ContextOf,      \* ContextOf[c]: the context binding of client c
          MaxGeneration,  \* bound on generations, so that TLC terminates
          None            \* no value

Generations == 0 .. MaxGeneration

Record == [generation: Generations, plaintext: Payloads \union {None}]

EmptyRecord == [generation |-> 0, plaintext |-> None]

VARIABLES reg,    \* the committed record
          owner,  \* the context that committed it
          call    \* call[c]: the outstanding or last call of client c

vars == <<reg, owner, call>>

\* phase: idle, commit, applied, load (outstanding); committed, conflict,
\* loaded, failed (answered).  record: what a commit writes, or an answer.
Call == [phase: {"idle", "commit", "applied", "load",
                 "committed", "conflict", "loaded", "failed"},
         record: Record]

Outstanding == {"commit", "applied", "load"}

Idle == [phase |-> "idle", record |-> EmptyRecord]

Init ==
  /\ reg = EmptyRecord
  /\ owner = None
  /\ call = [c \in Clients |-> Idle]

Answer(c, phase, record) ==
  call' = [call EXCEPT ![c] = [phase |-> phase, record |-> record]]

\* commit(expectedGeneration: n - 1, nextGeneration: n, plaintext: p)
InvokeCommit(c, n, p) ==
  /\ call[c].phase \notin Outstanding
  /\ Answer(c, "commit", [generation |-> n, plaintext |-> p])
  /\ UNCHANGED <<reg, owner>>

\* The compare-and-swap itself.
Apply(c) ==
  /\ call[c].phase = "commit"
  /\ call[c].record.generation = reg.generation + 1
  /\ reg.generation > 0 => owner = ContextOf[c]
  /\ reg' = call[c].record
  /\ owner' = ContextOf[c]
  /\ Answer(c, "applied", call[c].record)

Committed(c) ==
  /\ call[c].phase = "applied"
  /\ Answer(c, "committed", call[c].record)
  /\ UNCHANGED <<reg, owner>>

Conflict(c) ==
  /\ call[c].phase = "commit"
  /\ call[c].record.generation # reg.generation + 1
  /\ Answer(c, "conflict", EmptyRecord)
  /\ UNCHANGED <<reg, owner>>

\* An error, before or after the swap took effect.
Fail(c) ==
  /\ call[c].phase \in Outstanding
  /\ Answer(c, "failed", EmptyRecord)
  /\ UNCHANGED <<reg, owner>>

\* A call refused before it does anything.
Refuse(c) ==
  /\ call[c].phase \notin Outstanding
  /\ Answer(c, "failed", EmptyRecord)
  /\ UNCHANGED <<reg, owner>>

InvokeLoad(c) ==
  /\ call[c].phase \notin Outstanding
  /\ Answer(c, "load", EmptyRecord)
  /\ UNCHANGED <<reg, owner>>

Loaded(c) ==
  /\ call[c].phase = "load"
  /\ reg.generation > 0 => owner = ContextOf[c]
  /\ Answer(c, "loaded", reg)
  /\ UNCHANGED <<reg, owner>>

\* Process deaths: the dead clients' calls vanish, whether or not they took
\* effect.
Crash ==
  /\ \E dead \in SUBSET Clients :
       call' = [c \in Clients |-> IF c \in dead THEN Idle ELSE call[c]]
  /\ UNCHANGED <<reg, owner>>

Next ==
  \/ \E c \in Clients :
       \/ \E n \in Generations \ {0}, p \in Payloads : InvokeCommit(c, n, p)
       \/ Apply(c) \/ Committed(c) \/ Conflict(c) \/ Fail(c) \/ Refuse(c)
       \/ InvokeLoad(c) \/ Loaded(c)
  \/ Crash

Spec == Init /\ [][Next]_vars
=============================================================================
