---------------------------- MODULE DurableStore ----------------------------
(***************************************************************************)
(* The encrypted two-slot journal with a Keychain anchor                   *)
(* (AppleDurableStateStore over AppleDurableStateFileSystem).  A commit     *)
(* makes the inactive slot durable before it replaces the anchor; a load   *)
(* follows the anchor and never falls back to another slot.  Every client  *)
(* step ends at one of the code's fault points; between two steps the call *)
(* may throw, its process may die, or the device may lose power.           *)
(*                                                                         *)
(* A digest is modelled by the envelope it is the digest of (no            *)
(* collisions), an AEAD tag by the context, generation and slot it         *)
(* authenticates, a seal's random nonce by an element of Nonces.           *)
(***************************************************************************)
EXTENDS Naturals

CONSTANTS Clients,        \* processes holding a store object
          Payloads,       \* checkpoint plaintexts
          TooLarge,       \* the plaintexts above maximumPlaintextBytes
          Contexts,       \* values of DurableStateContext.binding
          ContextOf,      \* ContextOf[c]: the context client c passes
          Nonces,         \* AES-GCM nonces
          MaxGeneration,  \* bound: no commit beyond this generation
          MaxLosses,      \* bound: slot files lost outside the store
          None            \* no value

ASSUME StoreAssumption ==
  /\ TooLarge \subseteq Payloads
  /\ ContextOf \in [Clients -> Contexts]
  /\ MaxGeneration \in Nat
  /\ MaxLosses \in Nat
  /\ None \notin Payloads
  /\ None \notin Contexts
  /\ None \notin Clients

Generations == 0 .. MaxGeneration

Slots == {"a", "b"}

Opposite(s) == IF s = "a" THEN "b" ELSE "a"

Record == [generation: Generations, plaintext: Payloads \union {None}]

EmptyRecord == [generation |-> 0, plaintext |-> None]

\* DurableEnvelope, with what its associated data authenticates.
Envelope == [generation: Generations \ {0}, slot: Slots, nonce: Nonces,
             plaintext: Payloads, context: Contexts]

ASSUME NoneIsNoEnvelope == None \notin Envelope

\* DurableAnchor; the genesis anchor has generation 0, slot byte 0xff and an
\* all-zero digest.
Anchor == [generation: {0}, slot: {"genesis"}, digest: {None},
           context: Contexts]
  \union [generation: Generations \ {0}, slot: Slots, digest: Envelope,
          context: Contexts]

ASSUME NoneIsNoAnchor == None \notin Anchor

VARIABLES key,       \* the installation key is in the Keychain
          anchor,    \* the Keychain anchor, or None
          slots,     \* slots[s]: the envelope a read of slot s returns, or None
          stable,    \* stable[s]: what slot s returns if power is lost now
          tmp,       \* envelope in the temporary file being written, or None
          synced,    \* that temporary file was fsynced
          losses,    \* slot files lost so far
          lock,      \* holder of the exclusive lock, or None
          pc,        \* pc[c]: last fault point client c passed
          call       \* call[c]: what client c asked, or the answer it got

vars == <<key, anchor, slots, stable, tmp, synced, losses, lock, pc, call>>

disk == <<slots, stable, tmp, synced, losses>>
keychain == <<key, anchor>>

Outstanding == {"commit", "applied", "load"}

Phases == Outstanding \union
            {"idle", "committed", "conflict", "loaded", "failed"}

Call == [phase: Phases, record: Record]

Idle == [phase |-> "idle", record |-> EmptyRecord]

Points == {"none", "called", "locked", "keyMissing", "keyCreated",
           "anchored", "temporaryCreated", "temporaryWritten",
           "temporarySynced", "renamed", "directorySynced", "anchorUpdated"}

\* Where a client stands once its commit passed the generation check.
Committing == Points \ {"none", "called", "locked"}

Init ==
  /\ key = FALSE
  /\ anchor = None
  /\ slots = [s \in Slots |-> None]
  /\ stable = slots
  /\ tmp = None
  /\ synced = FALSE
  /\ losses = 0
  /\ lock = None
  /\ pc = [c \in Clients |-> "none"]
  /\ call = [c \in Clients |-> Idle]

(***************************************************************************)
(* validatedState: what the Keychain and the disk amount to for a context. *)
(***************************************************************************)
AnySlot == \E s \in Slots : slots[s] # None

ValidatedState(ctx) ==
  LET envelope == slots[anchor.slot] IN
  IF anchor = None
    THEN IF ~AnySlot THEN "unanchoredEmpty"
         ELSE IF key THEN "missingAnchor" ELSE "missingInstallationKey"
  ELSE IF ~key THEN "missingInstallationKey"
  ELSE IF anchor.context # ctx THEN "contextMismatch"
  ELSE IF anchor.generation = 0 THEN "anchoredEmpty"
  ELSE IF envelope = None THEN "missingAnchoredSlot"
  ELSE IF envelope # anchor.digest THEN "anchorDigestMismatch"
  ELSE IF envelope.slot # anchor.slot THEN "slotMismatch"
  ELSE IF envelope.generation # anchor.generation THEN "generationMismatch"
  ELSE IF envelope.context # ctx THEN "authenticationFailed"
  ELSE "record"

\* Mutant: a lost anchored slot is taken for an empty store.
MutantValid == {"unanchoredEmpty", "anchoredEmpty", "record", "missingAnchoredSlot"}

Valid == {"unanchoredEmpty", "anchoredEmpty", "record"}

ActualGeneration == IF anchor = None THEN 0 ELSE anchor.generation

\* The answer of load: .empty, or the record the anchor selects.
ActualRecord(ctx) ==
  IF ValidatedState(ctx) = "record"
    THEN [generation |-> anchor.generation,
          plaintext |-> slots[anchor.slot].plaintext]
    ELSE EmptyRecord

\* Mutant: every commit rewrites slot a in place.
MutantTargetSlot == "a"

\* The slot a commit writes: never the one the anchor selects.
TargetSlot ==
  IF ActualGeneration = 0 THEN "a" ELSE Opposite(anchor.slot)

\* Mutant: only the calls that hold no temporary file release the lock.
MutantRelease(c) ==
  /\ lock' = IF lock = c /\ tmp = None THEN None ELSE lock
  /\ UNCHANGED <<tmp, synced>>

(***************************************************************************)
(* Calls and answers.  Every answer releases the lock and unlinks the      *)
(* temporary file (the code's two `defer` blocks).                         *)
(***************************************************************************)
Release(c) ==
  /\ lock' = IF lock = c THEN None ELSE lock
  /\ tmp' = IF lock = c THEN None ELSE tmp
  /\ synced' = IF lock = c THEN FALSE ELSE synced

Answer(c, phase, record) ==
  /\ call' = [call EXCEPT ![c] = [phase |-> phase, record |-> record]]
  /\ pc' = [pc EXCEPT ![c] = "none"]
  /\ Release(c)
  /\ UNCHANGED <<keychain, slots, stable, losses>>

At(c, point) == pc[c] = point

Pass(c, point) == pc' = [pc EXCEPT ![c] = point]

\* A call starts: its arguments are checked before the lock is requested.
CallCommit(c, n, p) ==
  /\ At(c, "none")
  /\ IF p \in TooLarge
       THEN Answer(c, "failed", EmptyRecord)
       ELSE /\ call' = [call EXCEPT ![c] =
                 [phase |-> "commit",
                  record |-> [generation |-> n, plaintext |-> p]]]
            /\ Pass(c, "called")
            /\ UNCHANGED <<keychain, disk, lock>>

CallLoad(c) ==
  /\ At(c, "none")
  /\ call' = [call EXCEPT ![c] = [phase |-> "load", record |-> EmptyRecord]]
  /\ Pass(c, "called")
  /\ UNCHANGED <<keychain, disk, lock>>

AcquireExclusiveLock(c) ==
  /\ At(c, "called")
  /\ lock = None
  /\ lock' = c
  /\ Pass(c, "locked")
  /\ UNCHANGED <<keychain, disk, call>>

Load(c) ==
  /\ At(c, "locked")
  /\ call[c].phase = "load"
  /\ IF ValidatedState(ContextOf[c]) \in Valid
       THEN Answer(c, "loaded", ActualRecord(ContextOf[c]))
       ELSE Answer(c, "failed", EmptyRecord)

\* Mutant: the expected generation is not compared with the actual one.
MutantValidateForCommit(c) ==
  LET state == ValidatedState(ContextOf[c]) IN
  /\ At(c, "locked")
  /\ call[c].phase = "commit"
  /\ IF state \notin Valid
       THEN Answer(c, "failed", EmptyRecord)
     ELSE /\ Pass(c, IF state # "unanchoredEmpty" THEN "anchored"
                     ELSE IF key THEN "keyCreated" ELSE "keyMissing")
          /\ UNCHANGED <<keychain, disk, lock, call>>

\* commit, up to the generation check and the choice of the genesis path.
ValidateForCommit(c) ==
  LET state == ValidatedState(ContextOf[c]) IN
  /\ At(c, "locked")
  /\ call[c].phase = "commit"
  /\ IF state \notin Valid
       THEN Answer(c, "failed", EmptyRecord)
     ELSE IF call[c].record.generation # ActualGeneration + 1
       THEN Answer(c, "conflict", EmptyRecord)
     ELSE /\ Pass(c, IF state # "unanchoredEmpty" THEN "anchored"
                     ELSE IF key THEN "keyCreated" ELSE "keyMissing")
          /\ UNCHANGED <<keychain, disk, lock, call>>

CreateInstallationKey(c) ==
  /\ At(c, "keyMissing")
  /\ key' = TRUE
  /\ Pass(c, "keyCreated")
  /\ UNCHANGED <<anchor, disk, lock, call>>

CreateGenesisAnchor(c) ==
  /\ At(c, "keyCreated")
  /\ anchor' = [generation |-> 0, slot |-> "genesis", digest |-> None,
                context |-> ContextOf[c]]
  /\ Pass(c, "anchored")
  /\ UNCHANGED <<key, disk, lock, call>>

(***************************************************************************)
(* writeDurably: temporary file, fsync, rename, directory fsync.           *)
(***************************************************************************)
TemporaryCreate(c) ==
  /\ At(c, "anchored")
  /\ tmp' = None
  /\ synced' = FALSE
  /\ Pass(c, "temporaryCreated")
  /\ UNCHANGED <<keychain, slots, stable, losses, lock, call>>

TemporaryWrite(c) ==
  /\ At(c, "temporaryCreated")
  /\ \E nonce \in Nonces :
       tmp' = [generation |-> call[c].record.generation,
               slot |-> TargetSlot, nonce |-> nonce,
               plaintext |-> call[c].record.plaintext,
               context |-> ContextOf[c]]
  /\ Pass(c, "temporaryWritten")
  /\ UNCHANGED <<keychain, slots, stable, synced, losses, lock, call>>

\* Mutant: the fsync of the temporary file is skipped.
MutantTemporarySync(c) ==
  /\ At(c, "temporaryWritten")
  /\ Pass(c, "temporarySynced")
  /\ UNCHANGED <<keychain, disk, lock, call>>

TemporarySync(c) ==
  /\ At(c, "temporaryWritten")
  /\ synced' = TRUE
  /\ Pass(c, "temporarySynced")
  /\ UNCHANGED <<keychain, slots, stable, tmp, losses, lock, call>>

\* Until the directory is fsynced a power loss may undo the rename; a file
\* renamed before its own fsync may also come back without its data.
Rename(c) ==
  /\ At(c, "temporarySynced")
  /\ slots' = [slots EXCEPT ![TargetSlot] = tmp]
  /\ stable' = [stable EXCEPT ![TargetSlot] = IF synced THEN @ ELSE None]
  /\ Pass(c, "renamed")
  /\ UNCHANGED <<keychain, tmp, synced, losses, lock, call>>

SynchronizeDirectory(c) ==
  /\ At(c, "renamed")
  /\ stable' = [stable EXCEPT ![TargetSlot] =
                  IF synced THEN slots[TargetSlot] ELSE @]
  /\ Pass(c, "directorySynced")
  /\ UNCHANGED <<keychain, slots, tmp, synced, losses, lock, call>>

ReplaceAnchor(c) ==
  /\ At(c, "directorySynced")
  /\ anchor' = [generation |-> call[c].record.generation,
                slot |-> TargetSlot, digest |-> tmp,
                context |-> ContextOf[c]]
  /\ call' = [call EXCEPT ![c] = [phase |-> "applied", record |-> @.record]]
  /\ Pass(c, "anchorUpdated")
  /\ UNCHANGED <<key, disk, lock>>

ReturnCommitted(c) ==
  /\ At(c, "anchorUpdated")
  /\ Answer(c, "committed", call[c].record)

(***************************************************************************)
(* Failures: an error thrown at any fault point, a process death, a power  *)
(* loss, and a slot file lost outside the store.                           *)
(***************************************************************************)
Throw(c) ==
  /\ pc[c] # "none"
  /\ Answer(c, "failed", EmptyRecord)

ProcessDeath(c) ==
  /\ call[c].phase # "idle"
  /\ call' = [call EXCEPT ![c] = Idle]
  /\ pc' = [pc EXCEPT ![c] = "none"]
  /\ Release(c)
  /\ UNCHANGED <<keychain, slots, stable, losses>>

PowerLoss ==
  /\ slots' \in {f \in [Slots -> {slots[s] : s \in Slots}
                                   \union {stable[s] : s \in Slots}] :
                   \A s \in Slots : f[s] \in {slots[s], stable[s]}}
  /\ stable' = slots'
  /\ tmp' = None
  /\ synced' = FALSE
  /\ lock' = None
  /\ pc' = [c \in Clients |-> "none"]
  /\ call' = [c \in Clients |-> Idle]
  /\ UNCHANGED <<keychain, losses>>

SlotLost(s) ==
  /\ losses < MaxLosses
  /\ lock = None
  /\ slots[s] # None
  /\ slots' = [slots EXCEPT ![s] = None]
  /\ stable' = [stable EXCEPT ![s] = None]
  /\ losses' = losses + 1
  /\ UNCHANGED <<keychain, tmp, synced, lock, pc, call>>

WriteDurably(c) ==
  \/ TemporaryCreate(c) \/ TemporaryWrite(c) \/ TemporarySync(c)
  \/ Rename(c) \/ SynchronizeDirectory(c)

Commit(c) ==
  \/ ValidateForCommit(c) \/ CreateInstallationKey(c)
  \/ CreateGenesisAnchor(c) \/ WriteDurably(c)
  \/ ReplaceAnchor(c) \/ ReturnCommitted(c)

Next ==
  \/ \E c \in Clients :
       \/ \E n \in Generations \ {0}, p \in Payloads : CallCommit(c, n, p)
       \/ CallLoad(c) \/ AcquireExclusiveLock(c) \/ Load(c)
       \/ Commit(c) \/ Throw(c) \/ ProcessDeath(c)
  \/ PowerLoss
  \/ \E s \in Slots : SlotLost(s)

Spec == Init /\ [][Next]_vars

\* A running call keeps executing: nothing in load or commit waits once the
\* lock is held.
FairSpec ==
  Spec /\ \A c \in Clients : WF_vars(Load(c)) /\ WF_vars(Commit(c))

(***************************************************************************)
(* Properties.                                                             *)
(***************************************************************************)
\* Type invariant.
TypeOK ==
  /\ key \in BOOLEAN
  /\ anchor \in Anchor \union {None}
  /\ slots \in [Slots -> Envelope \union {None}]
  /\ stable \in [Slots -> Envelope \union {None}]
  /\ tmp \in Envelope \union {None}
  /\ synced \in BOOLEAN
  /\ losses \in 0 .. MaxLosses
  /\ lock \in Clients \union {None}
  /\ pc \in [Clients -> Points]
  /\ call \in [Clients -> Call]

\* Whatever was interrupted, thrown or lost with the power, the store still
\* opens: unless slot files were lost outside it, validatedState never reports
\* a missing key, anchor or slot, a wrong digest, slot or generation.  (Only a
\* caller with another context binding is turned away.)
Recoverable ==
  losses = 0 =>
    \A ctx \in Contexts :
      ValidatedState(ctx) \in Valid \union {"contextMismatch"}

\* The anchor selects a slot whose envelope is already durable, so that no
\* power loss can leave it pointing at an older or an unfinished envelope
\* ("Commits make the inactive slot durable before atomically replacing the
\* anchor").
AnchorSelectsDurableSlot ==
  (anchor # None /\ losses = 0) =>
    (anchor.generation > 0 =>
       /\ slots[anchor.slot] = anchor.digest
       /\ stable[anchor.slot] = anchor.digest)

AnchoredSlotLost ==
  /\ anchor # None
  /\ anchor.slot \in Slots
  /\ slots[anchor.slot] = None

\* Losing the anchored slot fails closed: from then on nothing is committed
\* over it and nothing is loaded, although the other slot may hold an older
\* valid envelope ("there is no fallback to an older valid slot").
FailsClosed ==
  [][AnchoredSlotLost =>
       /\ anchor' = anchor
       /\ \A c \in Clients :
            call'[c] # call[c] => call'[c].phase \notin {"loaded", "applied"}]_vars

\* Every path through load and commit, the ones that throw included, gives
\* the exclusive lock back.
LockReleased ==
  \A c \in Clients : (lock = c) ~> (lock # c)

(***************************************************************************)
(* The store implements the compare-and-swap register of DurableRegister:  *)
(* the register is what the anchor selects, and a commit takes effect when *)
(* it replaces the anchor.                                                 *)
(***************************************************************************)
RegisterRecord ==
  IF ActualGeneration = 0 THEN EmptyRecord
  ELSE [generation |-> anchor.generation, plaintext |-> anchor.digest.plaintext]

RegisterOwner == IF ActualGeneration = 0 THEN None ELSE anchor.context

Register == INSTANCE DurableRegister
              WITH reg <- RegisterRecord, owner <- RegisterOwner

\* Refinement: commits are atomic, applied at most once each and in generation
\* order; a failed or interrupted commit left the old or the new record; a
\* load returns the last committed record, whatever happened in between.
ImplementsRegister == Register!Spec
=============================================================================
