------------------------- MODULE DurableStoreProofs -------------------------
(***************************************************************************)
(* The inductive invariant of the two-slot store, and the proofs, for any  *)
(* number of clients, payloads, contexts, generations and losses, that the *)
(* store recovers from every interruption, never selects content that is   *)
(* not durable, fails closed, and implements the compare-and-swap          *)
(* register.                                                               *)
(***************************************************************************)
EXTENDS DurableStore, TLAPS

\* The assumptions; Zenon proves a leaf unless the leaf cites SMT.
USE StoreAssumption, NoneIsNoEnvelope, NoneIsNoAnchor, ZenonT(10)

\* Points at which the temporary file (later: the target slot) has its data.
Written == {"temporaryWritten", "temporarySynced", "renamed", "directorySynced"}

\* What holds of a commit under way, by the fault point it has passed.
CommitInv(c) ==
  LET record == call[c].record IN
  /\ pc[c] \in Committing \ {"anchorUpdated"} =>
       /\ call[c].phase = "commit"
       /\ record.plaintext \in Payloads
       /\ record.generation = ActualGeneration + 1
       /\ ~AnchoredSlotLost
  /\ pc[c] \in {"keyMissing", "keyCreated"} => anchor = None
  /\ pc[c] = "keyCreated" => key
  /\ pc[c] \in Committing \ {"keyMissing", "keyCreated"} =>
       anchor # None /\ anchor.context = ContextOf[c]
  /\ pc[c] \in Written =>
       /\ tmp \in Envelope
       /\ tmp.generation = record.generation
       /\ tmp.plaintext = record.plaintext
       /\ tmp.slot = TargetSlot
       /\ tmp.context = ContextOf[c]
  /\ pc[c] \in {"temporarySynced", "renamed", "directorySynced"} => synced
  /\ pc[c] \in {"renamed", "directorySynced"} => slots[TargetSlot] = tmp
  /\ pc[c] = "directorySynced" => stable[TargetSlot] = tmp

\* The exclusive lock serialises everything after it is acquired.
LockInv ==
  \A c \in Clients :
    /\ pc[c] \notin {"none", "called"} <=> lock = c
    /\ pc[c] = "none" <=> call[c].phase \notin Outstanding
    /\ pc[c] = "anchorUpdated" <=> call[c].phase = "applied"
    /\ call[c].phase = "commit" => call[c].record.plaintext \in Payloads

\* An anchored record is in its slot, now and after a power loss, unless the
\* slot file was lost outside the store.
AnchorInv ==
  /\ anchor # None => key
  /\ anchor = None => \A s \in Slots : slots[s] = None /\ stable[s] = None
  /\ (anchor # None /\ ActualGeneration > 0) =>
       /\ anchor.slot \in Slots
       /\ anchor.digest \in Envelope
       /\ anchor.digest.slot = anchor.slot
       /\ anchor.digest.generation = anchor.generation
       /\ anchor.digest.context = anchor.context
       /\ \/ slots[anchor.slot] = anchor.digest /\ stable[anchor.slot] = anchor.digest
          \/ losses > 0 /\ slots[anchor.slot] = None /\ stable[anchor.slot] = None

\* The inductive invariant.
StoreInv ==
  /\ TypeOK
  /\ LockInv
  /\ AnchorInv
  /\ \A c \in Clients : CommitInv(c)

\* Facts about the constant operators.
LEMMA Constants ==
  /\ EmptyRecord \in Record
  /\ Idle \in Call
  /\ TargetSlot \in Slots
  /\ \A s \in Slots : Opposite(s) \in Slots /\ Opposite(s) # s
  /\ \A phase \in Phases, record \in Record :
       [phase |-> phase, record |-> record] \in Call
  BY SMTT(60) DEF EmptyRecord, Record, Idle, Call, Phases, Outstanding, Generations,
         TargetSlot, Opposite, Slots

\* An answer keeps the types.
LEMMA AnswerType ==
  ASSUME TypeOK, NEW c \in Clients, NEW phase \in Phases, NEW record \in Record,
         Answer(c, phase, record)
  PROVE  TypeOK'
  BY Constants DEF TypeOK, Answer, Release, keychain, Points

\* A load answers with a record.
LEMMA ActualRecordType ==
  ASSUME TypeOK, AnchorInv, NEW ctx
  PROVE  ActualRecord(ctx) \in Record
<1>1. CASE ValidatedState(ctx) = "record"
  <2>1. /\ anchor \in Anchor
        /\ anchor.generation # 0
        /\ slots[anchor.slot] # None
    BY <1>1 DEF ValidatedState, TypeOK
  <2>2. anchor.slot \in Slots /\ anchor.generation \in Generations
    BY <2>1 DEF Anchor
  <2>3. slots[anchor.slot] \in Envelope
    BY <2>1, <2>2 DEF TypeOK
  <2>4. slots[anchor.slot].plaintext \in Payloads
    BY <2>3 DEF Envelope
  <2>. QED
    BY <1>1, <2>2, <2>4 DEF ActualRecord, Record
<1>2. CASE ValidatedState(ctx) # "record"
  BY <1>2, Constants DEF ActualRecord
<1>. QED
  BY <1>1, <1>2

\* While one client commits, no other does; who does not commit satisfies
\* CommitInv trivially.
LEMMA Exclusive ==
  ASSUME StoreInv, NEW c \in Clients, pc[c] \in Committing,
         NEW d \in Clients, d # c
  PROVE  pc[d] \notin Committing
  BY DEF StoreInv, LockInv, Committing

LEMMA NotCommitting ==
  ASSUME NEW d \in Clients, pc[d] \notin Committing
  PROVE  CommitInv(d)
  BY DEF CommitInv, Committing, Points, Written

\* The same in the next state.
LEMMA NotCommittingNext ==
  ASSUME NEW d \in Clients, pc'[d] \notin Committing
  PROVE  CommitInv(d)'
  BY DEF CommitInv, Committing, Points, Written

\* A step that leaves a commit and all it wrote alone.
LEMMA CommitUntouched ==
  ASSUME NEW d \in Clients, CommitInv(d), pc'[d] = pc[d], call'[d] = call[d],
         UNCHANGED <<key, anchor, slots, stable, tmp, synced>>
  PROVE  CommitInv(d)'
  BY DEF CommitInv, ActualGeneration, TargetSlot, AnchoredSlotLost

\* A step that gives an answer.
LEMMA AnswerStep ==
  ASSUME StoreInv, NEW c \in Clients, NEW phase \in Phases \ Outstanding,
         NEW record \in Record, Answer(c, phase, record)
  PROVE  StoreInv'
<1>1. TypeOK'
  BY AnswerType DEF StoreInv
<1>2. LockInv'
  BY DEF StoreInv, TypeOK, LockInv, Answer, Release, keychain, Outstanding
<1>3. AnchorInv'
  BY DEF StoreInv, AnchorInv, Answer, keychain, ActualGeneration
<1>4. ASSUME NEW d \in Clients PROVE CommitInv(d)'
  <2>1. CASE d = c
    <3>1. pc'[d] = "none"
      BY <2>1 DEF StoreInv, TypeOK, Answer, Release
    <3>. QED
      BY <3>1, NotCommittingNext DEF Committing
  <2>2. CASE d # c /\ lock = c
    <3>1. pc'[d] = pc[d] /\ pc[d] \notin Committing
      BY <2>2 DEF StoreInv, TypeOK, LockInv, Committing, Answer, Release
    <3>. QED
      BY <3>1, NotCommittingNext
  <2>3. CASE d # c /\ lock # c
    <3>1. pc'[d] = pc[d] /\ call'[d] = call[d] /\ CommitInv(d)
      BY <2>3 DEF StoreInv, TypeOK, Answer, Release
    <3>2. UNCHANGED <<key, anchor, slots, stable, tmp, synced>>
      BY <2>3 DEF Answer, Release, keychain
    <3>. QED
      BY <3>1, <3>2, CommitUntouched
  <2>. QED
    BY <2>1, <2>2, <2>3
<1>. QED
  BY <1>1, <1>2, <1>3, <1>4 DEF StoreInv

\* What the holder of the lock writes is well typed.
LEMMA Holder ==
  ASSUME StoreInv, NEW c \in Clients, pc[c] \in Committing \ {"anchorUpdated"}
  PROVE  /\ call[c].record \in Record
         /\ call[c].record.plaintext \in Payloads
         /\ call[c].record.generation \in Generations \ {0}
         /\ call[c].record.generation = ActualGeneration + 1
         /\ ActualGeneration \in Generations
<1>1. call[c].record \in Record
  BY DEF StoreInv, TypeOK, Call
<1>2. ActualGeneration \in Generations
  BY SMTT(60) DEF StoreInv, TypeOK, ActualGeneration, Anchor, Generations
<1>. QED
  BY SMTT(60), <1>1, <1>2 DEF StoreInv, CommitInv, Record, Generations

\* load is called.
LEMMA CallLoadStep ==
  ASSUME StoreInv, NEW c \in Clients, CallLoad(c)
  PROVE  StoreInv'
<1> USE DEF CallLoad, At, Pass, keychain, disk
<1>1. TypeOK'
  BY Constants DEF StoreInv, TypeOK, Points, Phases, Outstanding
<1>2. LockInv'
  BY DEF StoreInv, TypeOK, LockInv, Outstanding
<1>3. AnchorInv'
  BY DEF StoreInv, AnchorInv, ActualGeneration
<1>4. ASSUME NEW d \in Clients PROVE CommitInv(d)'
  <2>1. CASE d = c
    <3>1. pc'[d] = "called"
      BY <2>1 DEF StoreInv, TypeOK
    <3>. QED
      BY <3>1, NotCommittingNext DEF Committing
  <2>2. CASE d # c
    <3>1. pc'[d] = pc[d] /\ call'[d] = call[d] /\ CommitInv(d)
      BY <2>2 DEF StoreInv, TypeOK
    <3>2. UNCHANGED <<key, anchor, slots, stable, tmp, synced>>
      OBVIOUS
    <3>. QED
      BY <3>1, <3>2, CommitUntouched
  <2>. QED
    BY <2>1, <2>2
<1>. QED
  BY <1>1, <1>2, <1>3, <1>4 DEF StoreInv

\* The lock is acquired.
LEMMA AcquireExclusiveLockStep ==
  ASSUME StoreInv, NEW c \in Clients, AcquireExclusiveLock(c)
  PROVE  StoreInv'
<1> USE DEF AcquireExclusiveLock, At, Pass, keychain, disk
<1>1. TypeOK'
  BY Constants DEF StoreInv, TypeOK, Points, Phases, Outstanding
<1>2. LockInv'
  BY DEF StoreInv, TypeOK, LockInv, Outstanding
<1>3. AnchorInv'
  BY DEF StoreInv, AnchorInv, ActualGeneration
<1>4. ASSUME NEW d \in Clients PROVE CommitInv(d)'
  <2>1. CASE d = c
    <3>1. pc'[d] = "locked"
      BY <2>1 DEF StoreInv, TypeOK
    <3>. QED
      BY <3>1, NotCommittingNext DEF Committing
  <2>2. CASE d # c
    <3>1. pc'[d] = pc[d] /\ call'[d] = call[d] /\ CommitInv(d)
      BY <2>2 DEF StoreInv, TypeOK
    <3>2. UNCHANGED <<key, anchor, slots, stable, tmp, synced>>
      OBVIOUS
    <3>. QED
      BY <3>1, <3>2, CommitUntouched
  <2>. QED
    BY <2>1, <2>2
<1>. QED
  BY <1>1, <1>2, <1>3, <1>4 DEF StoreInv

\* The installation key is created.
LEMMA CreateInstallationKeyStep ==
  ASSUME StoreInv, NEW c \in Clients, CreateInstallationKey(c)
  PROVE  StoreInv'
<1> USE DEF CreateInstallationKey, At, Pass, keychain, disk
<1>1. TypeOK'
  BY Constants DEF StoreInv, TypeOK, Points, Phases, Outstanding
<1>2. LockInv'
  BY DEF StoreInv, TypeOK, LockInv, Outstanding
<1>3. AnchorInv'
  BY DEF StoreInv, AnchorInv, ActualGeneration
<1>4. ASSUME NEW d \in Clients PROVE CommitInv(d)'
  BY SMTT(60) DEF StoreInv, TypeOK, LockInv, CommitInv, Committing, Points, Written,
         ActualGeneration, TargetSlot, AnchoredSlotLost
<1>. QED
  BY <1>1, <1>2, <1>3, <1>4 DEF StoreInv

\* The genesis anchor is created.
LEMMA CreateGenesisAnchorStep ==
  ASSUME StoreInv, NEW c \in Clients, CreateGenesisAnchor(c)
  PROVE  StoreInv'
<1> USE DEF CreateGenesisAnchor, At, Pass, keychain, disk
<1>1. TypeOK'
  BY Constants DEF StoreInv, TypeOK, Points, Anchor
<1>2. LockInv'
  BY DEF StoreInv, TypeOK, LockInv, Outstanding
<1>3. AnchorInv'
  <2>1. key /\ anchor = None
    BY DEF StoreInv, CommitInv
  <2>. QED
    BY SMTT(60), <2>1, NoneIsNoAnchor DEF ActualGeneration, StoreInv, AnchorInv
<1>4. ASSUME NEW d \in Clients PROVE CommitInv(d)'
  <2>1. pc[c] \in Committing
    BY DEF Committing, Points
  <2>2. CASE d # c
    <3>1. pc[d] \notin Committing /\ pc'[d] = pc[d]
      BY <2>1, <2>2, Exclusive DEF StoreInv, TypeOK
    <3>. QED
      BY <3>1 DEF CommitInv, Committing, Points, Written
  <2>3. CASE d = c
    <3>1. /\ anchor = None
          /\ call[c].phase = "commit"
          /\ call[c].record.plaintext \in Payloads
          /\ call[c].record.generation = 1
      BY SMTT(60) DEF StoreInv, CommitInv, Committing, Points, ActualGeneration
    <3>2. pc'[c] = "anchored"
      BY DEF StoreInv, TypeOK
    <3>3. ~AnchoredSlotLost'
      BY DEF AnchoredSlotLost, Slots
    <3>4. ActualGeneration' = 0
      BY DEF ActualGeneration
    <3>5. anchor' # None
      BY SMTT(60), NoneIsNoAnchor DEF Anchor, StoreAssumption
    <3>. QED
      BY SMTT(60), <2>3, <3>1, <3>2, <3>3, <3>4, <3>5 DEF CommitInv, Committing, Written
  <2>. QED
    BY <2>2, <2>3
<1>. QED
  BY <1>1, <1>2, <1>3, <1>4 DEF StoreInv

\* The temporary file is created.
LEMMA TemporaryCreateStep ==
  ASSUME StoreInv, NEW c \in Clients, TemporaryCreate(c)
  PROVE  StoreInv'
<1> USE DEF TemporaryCreate, At, Pass, keychain, disk
<1>1. TypeOK'
  BY Constants DEF StoreInv, TypeOK, Points, Phases, Outstanding
<1>2. LockInv'
  BY DEF StoreInv, TypeOK, LockInv, Outstanding
<1>3. AnchorInv'
  BY DEF StoreInv, AnchorInv, ActualGeneration
<1>4. ASSUME NEW d \in Clients PROVE CommitInv(d)'
  BY SMTT(60) DEF StoreInv, TypeOK, LockInv, CommitInv, Committing, Points, Written,
         ActualGeneration, TargetSlot, AnchoredSlotLost
<1>. QED
  BY <1>1, <1>2, <1>3, <1>4 DEF StoreInv

\* The temporary file is written.
LEMMA TemporaryWriteStep ==
  ASSUME StoreInv, NEW c \in Clients, TemporaryWrite(c)
  PROVE  StoreInv'
<1> USE DEF TemporaryWrite, At, Pass, keychain, disk
<1>0. tmp' \in Envelope
  <2>1. pc[c] \in Committing \ {"anchorUpdated"}
    BY DEF Committing, Points
  <2>2. call[c].record.generation \in Generations \ {0} /\ call[c].record.plaintext \in Payloads
    BY <2>1, Holder
  <2>3. TargetSlot \in Slots /\ ContextOf[c] \in Contexts
    BY Constants
  <2>. QED
    BY SMTT(60), <2>2, <2>3 DEF Envelope
<1>1. TypeOK'
  BY <1>0 DEF StoreInv, TypeOK, Points
<1>2. LockInv'
  BY DEF StoreInv, TypeOK, LockInv, Outstanding
<1>3. AnchorInv'
  BY DEF StoreInv, AnchorInv, ActualGeneration
<1>4. ASSUME NEW d \in Clients PROVE CommitInv(d)'
  <2>1. pc[c] \in Committing
    BY DEF Committing, Points
  <2>2. CASE d # c
    <3>1. pc[d] \notin Committing /\ pc'[d] = pc[d]
      BY <2>1, <2>2, Exclusive DEF StoreInv, TypeOK
    <3>. QED
      BY <3>1 DEF CommitInv, Committing, Points, Written
  <2>3. CASE d = c
    <3>3. pc'[c] = "temporaryWritten"
      BY DEF StoreInv, TypeOK
    <3>4. /\ UNCHANGED <<key, anchor, slots, call>>
          /\ TargetSlot' = TargetSlot /\ ActualGeneration' = ActualGeneration
          /\ AnchoredSlotLost' = AnchoredSlotLost
      BY DEF TargetSlot, ActualGeneration, AnchoredSlotLost
    <3>5. /\ tmp'.generation = call[c].record.generation
          /\ tmp'.plaintext = call[c].record.plaintext
          /\ tmp'.slot = TargetSlot /\ tmp'.context = ContextOf[c]
      BY SMTT(60)
    <3>6. CommitInv(c) /\ pc[c] = "temporaryCreated"
      BY DEF StoreInv
    <3>. QED
      BY <1>0, <2>3, <3>3, <3>4, <3>5, <3>6 DEF CommitInv, Committing, Points, Written
  <2>. QED
    BY <2>2, <2>3
<1>. QED
  BY <1>1, <1>2, <1>3, <1>4 DEF StoreInv

\* The temporary file is fsynced.
LEMMA TemporarySyncStep ==
  ASSUME StoreInv, NEW c \in Clients, TemporarySync(c)
  PROVE  StoreInv'
<1> USE DEF TemporarySync, At, Pass, keychain, disk
<1>1. TypeOK'
  BY Constants DEF StoreInv, TypeOK, Points, Phases, Outstanding
<1>2. LockInv'
  BY DEF StoreInv, TypeOK, LockInv, Outstanding
<1>3. AnchorInv'
  BY DEF StoreInv, AnchorInv, ActualGeneration
<1>4. ASSUME NEW d \in Clients PROVE CommitInv(d)'
  BY SMTT(60) DEF StoreInv, TypeOK, LockInv, CommitInv, Committing, Points, Written,
         ActualGeneration, TargetSlot, AnchoredSlotLost
<1>. QED
  BY <1>1, <1>2, <1>3, <1>4 DEF StoreInv

\* The temporary file is renamed to the target slot.
LEMMA RenameStep ==
  ASSUME StoreInv, NEW c \in Clients, Rename(c)
  PROVE  StoreInv'
<1> USE DEF Rename, At, Pass, keychain, disk
<1>1. TypeOK'
  BY Constants DEF StoreInv, TypeOK, Points, Phases, Outstanding
<1>2. LockInv'
  BY DEF StoreInv, TypeOK, LockInv, Outstanding
<1>3. AnchorInv'
  <2>1. pc[c] \in Committing \ {"anchorUpdated"} /\ anchor # None /\ synced
    BY DEF StoreInv, CommitInv, Committing, Points
  <2>2. ASSUME ActualGeneration > 0 PROVE anchor.slot \in Slots /\ TargetSlot # anchor.slot
    BY SMTT(60), <2>1, <2>2, Constants DEF TargetSlot, StoreInv, AnchorInv, Slots, Opposite
  <2>. QED
    BY <2>1, <2>2, Constants DEF StoreInv, TypeOK, AnchorInv, ActualGeneration
<1>4. ASSUME NEW d \in Clients PROVE CommitInv(d)'
  <2>1. pc[c] \in Committing
    BY DEF Committing, Points
  <2>2. CASE d # c
    <3>1. pc[d] \notin Committing /\ pc'[d] = pc[d]
      BY <2>1, <2>2, Exclusive DEF StoreInv, TypeOK
    <3>. QED
      BY <3>1 DEF CommitInv, Committing, Points, Written
  <2>3. CASE d = c
    <3>1. pc'[c] = "renamed" /\ anchor # None
      BY DEF StoreInv, TypeOK, CommitInv, Committing, Points
    <3>2. slots'[TargetSlot] = tmp
      BY Constants DEF StoreInv, TypeOK
    <3>3. ~AnchoredSlotLost'
      BY SMTT(60), Constants DEF StoreInv, TypeOK, CommitInv, Committing, Points, Written,
             AnchoredSlotLost
    <3>. QED
      BY <2>3, <3>1, <3>2, <3>3 DEF StoreInv, CommitInv, Committing, Points, Written,
             ActualGeneration, TargetSlot
  <2>. QED
    BY <2>2, <2>3
<1>. QED
  BY <1>1, <1>2, <1>3, <1>4 DEF StoreInv

\* The directory is fsynced.
LEMMA SynchronizeDirectoryStep ==
  ASSUME StoreInv, NEW c \in Clients, SynchronizeDirectory(c)
  PROVE  StoreInv'
<1> USE DEF SynchronizeDirectory, At, Pass, keychain, disk
<1>1. TypeOK'
  BY Constants DEF StoreInv, TypeOK, Points, Phases, Outstanding
<1>2. LockInv'
  BY DEF StoreInv, TypeOK, LockInv, Outstanding
<1>3. AnchorInv'
  <2>1. slots[TargetSlot] = tmp /\ synced /\ anchor # None /\ TargetSlot \in Slots
    BY Constants DEF StoreInv, CommitInv, Committing, Points
  <2>. QED
    BY <2>1 DEF StoreInv, TypeOK, AnchorInv, ActualGeneration, TargetSlot, Opposite, Slots
<1>4. ASSUME NEW d \in Clients PROVE CommitInv(d)'
  <2>1. pc[c] \in Committing
    BY DEF Committing, Points
  <2>2. CASE d # c
    <3>1. pc[d] \notin Committing /\ pc'[d] = pc[d]
      BY <2>1, <2>2, Exclusive DEF StoreInv, TypeOK
    <3>. QED
      BY <3>1 DEF CommitInv, Committing, Points, Written
  <2>3. CASE d = c
    <3>1. pc'[c] = "directorySynced"
      BY DEF StoreInv, TypeOK
    <3>2. stable'[TargetSlot] = tmp
      BY Constants DEF StoreInv, TypeOK, CommitInv
    <3>3. /\ UNCHANGED <<key, anchor, slots, tmp, synced, call>>
          /\ TargetSlot' = TargetSlot /\ ActualGeneration' = ActualGeneration
          /\ AnchoredSlotLost' = AnchoredSlotLost
      BY DEF TargetSlot, ActualGeneration, AnchoredSlotLost
    <3>4. CommitInv(c) /\ pc[c] = "renamed"
      BY DEF StoreInv
    <3>. QED
      BY SMTT(60), <2>3, <3>1, <3>2, <3>3, <3>4 DEF CommitInv, Committing, Points, Written
  <2>. QED
    BY <2>2, <2>3
<1>. QED
  BY <1>1, <1>2, <1>3, <1>4 DEF StoreInv

\* The anchor is replaced.
LEMMA ReplaceAnchorStep ==
  ASSUME StoreInv, NEW c \in Clients, ReplaceAnchor(c)
  PROVE  StoreInv'
<1> USE DEF ReplaceAnchor, At, Pass, keychain, disk
<1>1. TypeOK'
  <2>1. pc[c] \in Committing \ {"anchorUpdated"} /\ tmp \in Envelope
    BY DEF StoreInv, CommitInv, Committing, Points, Written
  <2>2. anchor' \in Anchor
    BY <2>1, Holder, Constants DEF Anchor
  <2>. QED
    BY <2>1, <2>2, Holder, Constants DEF StoreInv, TypeOK, Points, Phases, Outstanding
<1>2. LockInv'
  BY DEF StoreInv, TypeOK, LockInv, Outstanding
<1>3. AnchorInv'
  <2>1. /\ pc[c] \in Committing \ {"anchorUpdated"}
        /\ slots[TargetSlot] = tmp
        /\ stable[TargetSlot] = tmp
        /\ tmp \in Envelope
        /\ tmp.slot = TargetSlot
        /\ tmp.generation = call[c].record.generation
        /\ tmp.context = ContextOf[c]
        /\ anchor # None
    BY DEF StoreInv, CommitInv, Committing, Points, Written
  <2>2. anchor' # None /\ TargetSlot \in Slots
    BY SMTT(60), <2>1, Holder, Constants, NoneIsNoAnchor DEF Anchor
  <2>. QED
    BY <2>1, <2>2 DEF StoreInv, AnchorInv
<1>4. ASSUME NEW d \in Clients PROVE CommitInv(d)'
  <2>1. pc[c] \in Committing
    BY DEF Committing, Points
  <2>2. CASE d # c
    <3>1. pc[d] \notin Committing /\ pc'[d] = pc[d]
      BY <2>1, <2>2, Exclusive DEF StoreInv, TypeOK
    <3>. QED
      BY <3>1 DEF CommitInv, Committing, Points, Written
  <2>3. CASE d = c
    <3>1. pc'[c] = "anchorUpdated"
      BY DEF StoreInv, TypeOK
    <3>2. tmp \in Envelope
      BY DEF StoreInv, CommitInv, Written
    <3>3. anchor' # None
      BY SMTT(60), <2>1, <3>2, Holder, Constants, NoneIsNoAnchor DEF Anchor
    <3>. QED
      BY <2>3, <3>1, <3>3 DEF CommitInv, Committing, Written
  <2>. QED
    BY <2>2, <2>3
<1>. QED
  BY <1>1, <1>2, <1>3, <1>4 DEF StoreInv

\* A process dies.
LEMMA ProcessDeathStep ==
  ASSUME StoreInv, NEW c \in Clients, ProcessDeath(c)
  PROVE  StoreInv'
<1> USE DEF ProcessDeath, At, Pass, keychain, disk, Release
<1>1. TypeOK'
  BY Constants DEF StoreInv, TypeOK, Points, Phases, Outstanding
<1>2. LockInv'
  BY DEF StoreInv, TypeOK, LockInv, Outstanding, Idle
<1>3. AnchorInv'
  BY DEF StoreInv, AnchorInv, ActualGeneration
<1>4. ASSUME NEW d \in Clients PROVE CommitInv(d)'
  <2>1. CASE d = c
    <3>1. pc'[d] = "none"
      BY <2>1 DEF StoreInv, TypeOK
    <3>. QED
      BY <3>1, NotCommittingNext DEF Committing
  <2>2. CASE d # c /\ lock = c
    <3>1. pc'[d] = pc[d] /\ pc[d] \notin Committing
      BY <2>2 DEF StoreInv, TypeOK, LockInv, Committing
    <3>. QED
      BY <3>1, NotCommittingNext
  <2>3. CASE d # c /\ lock # c
    <3>1. pc'[d] = pc[d] /\ call'[d] = call[d] /\ CommitInv(d)
      BY <2>3 DEF StoreInv, TypeOK
    <3>2. UNCHANGED <<key, anchor, slots, stable, tmp, synced>>
      BY <2>3
    <3>. QED
      BY <3>1, <3>2, CommitUntouched
  <2>. QED
    BY <2>1, <2>2, <2>3
<1>. QED
  BY <1>1, <1>2, <1>3, <1>4 DEF StoreInv

\* The power is lost.
LEMMA PowerLossStep ==
  ASSUME StoreInv, PowerLoss
  PROVE  StoreInv'
<1> USE DEF PowerLoss, At, Pass, keychain, disk
<1>1. TypeOK'
  BY Constants DEF StoreInv, TypeOK, Points, Phases, Outstanding
<1>2. LockInv'
  BY DEF StoreInv, TypeOK, LockInv, Outstanding, Idle
<1>3. AnchorInv'
  BY DEF StoreInv, AnchorInv, ActualGeneration
<1>4. ASSUME NEW d \in Clients PROVE CommitInv(d)'
  <2>1. pc'[d] = "none"
    OBVIOUS
  <2>. QED
    BY <2>1, NotCommittingNext DEF Committing
<1>. QED
  BY <1>1, <1>2, <1>3, <1>4 DEF StoreInv

\* A slot file is lost.
LEMMA SlotLostStep ==
  ASSUME StoreInv, NEW s \in Slots, SlotLost(s)
  PROVE  StoreInv'
<1> USE DEF SlotLost, At, Pass, keychain, disk
<1>1. TypeOK'
  BY SMTT(60), Constants DEF StoreInv, TypeOK, Points, Phases, Outstanding
<1>2. LockInv'
  BY DEF StoreInv, TypeOK, LockInv, Outstanding
<1>3. AnchorInv'
  BY SMTT(60) DEF StoreInv, TypeOK, AnchorInv, ActualGeneration
<1>4. ASSUME NEW d \in Clients PROVE CommitInv(d)'
  <2>1. pc'[d] = pc[d] /\ pc[d] \notin Committing
    BY DEF StoreInv, LockInv, Committing
  <2>. QED
    BY <2>1, NotCommittingNext
<1>. QED
  BY <1>1, <1>2, <1>3, <1>4 DEF StoreInv

\* commit is called.
LEMMA CallCommitStep ==
  ASSUME StoreInv, NEW c \in Clients, NEW n \in Generations \ {0},
         NEW p \in Payloads, CallCommit(c, n, p)
  PROVE  StoreInv'
<1>1. CASE p \in TooLarge
  <2>1. "failed" \in Phases \ Outstanding
    BY DEF Phases, Outstanding
  <2>. QED
    BY <1>1, <2>1, AnswerStep, Constants DEF CallCommit
<1>2. CASE p \notin TooLarge
  <2> DEFINE record == [generation |-> n, plaintext |-> p]
  <2>0. record \in Record
    BY DEF Record
  <2> HIDE DEF record
  <2>1. /\ At(c, "none")
        /\ call' = [call EXCEPT ![c] = [phase |-> "commit", record |-> record]]
        /\ Pass(c, "called")
        /\ UNCHANGED <<keychain, disk, lock>>
    BY <1>2 DEF CallCommit, record
  <2> USE <2>1 DEF At, Pass, keychain, disk
  <2>2. TypeOK'
    BY <2>0, Constants DEF StoreInv, TypeOK, Points, Phases, Outstanding
  <2>3. LockInv'
    BY DEF StoreInv, TypeOK, LockInv, Outstanding, record
  <2>4. AnchorInv'
    BY DEF StoreInv, AnchorInv, ActualGeneration
  <2>5. ASSUME NEW d \in Clients PROVE CommitInv(d)'
    <3>1. CASE d = c
      <4>1. pc'[d] = "called"
        BY <3>1 DEF StoreInv, TypeOK
      <4>. QED
        BY <4>1, NotCommittingNext DEF Committing
    <3>2. CASE d # c
      <4>1. pc'[d] = pc[d] /\ call'[d] = call[d] /\ CommitInv(d)
        BY <3>2 DEF StoreInv, TypeOK
      <4>2. UNCHANGED <<key, anchor, slots, stable, tmp, synced>>
        OBVIOUS
      <4>. QED
        BY <4>1, <4>2, CommitUntouched
    <3>. QED
      BY <3>1, <3>2
  <2>. QED
    BY <2>2, <2>3, <2>4, <2>5 DEF StoreInv
<1>. QED
  BY <1>1, <1>2

\* What a commit that passed its checks finds.
LEMMA CommitBegins ==
  ASSUME NEW c \in Clients, call[c].phase = "commit",
         call[c].record.plaintext \in Payloads,
         call[c].record.generation = ActualGeneration + 1,
         ~AnchoredSlotLost,
         anchor # None => anchor.context = ContextOf[c],
         pc'[c] = IF anchor # None THEN "anchored"
                  ELSE IF key THEN "keyCreated" ELSE "keyMissing",
         UNCHANGED <<key, anchor, call>>, ActualGeneration' = ActualGeneration,
         AnchoredSlotLost' = AnchoredSlotLost
  PROVE  CommitInv(c)'
  BY DEF CommitInv, Committing, Points, Written

\* The state is validated and the expected generation compared.
LEMMA ValidateForCommitStep ==
  ASSUME StoreInv, NEW c \in Clients, ValidateForCommit(c)
  PROVE  StoreInv'
<1>0. "failed" \in Phases \ Outstanding /\ "conflict" \in Phases \ Outstanding
  BY DEF Phases, Outstanding
<1>1. CASE Answer(c, "failed", EmptyRecord) \/ Answer(c, "conflict", EmptyRecord)
  BY <1>0, <1>1, AnswerStep, Constants
<1>2. CASE /\ ValidatedState(ContextOf[c]) \in Valid
           /\ call[c].record.generation = ActualGeneration + 1
           /\ Pass(c, IF ValidatedState(ContextOf[c]) # "unanchoredEmpty"
                        THEN "anchored"
                      ELSE IF key THEN "keyCreated" ELSE "keyMissing")
           /\ UNCHANGED <<keychain, disk, lock, call>>
  <2> USE <1>2 DEF ValidateForCommit, At, Pass, keychain, disk
  <2>1. TypeOK'
    BY DEF StoreInv, TypeOK, Points
  <2>2. LockInv'
    BY DEF StoreInv, TypeOK, LockInv, Outstanding
  <2>3. AnchorInv'
    BY DEF StoreInv, AnchorInv, ActualGeneration
  <2>4. ASSUME NEW d \in Clients PROVE CommitInv(d)'
    <3>1. CASE d # c
      <4>1. pc'[d] = pc[d] /\ pc[d] \notin Committing
        BY <3>1 DEF StoreInv, TypeOK, LockInv, Committing
      <4>. QED
        BY <4>1, NotCommittingNext
    <3>2. CASE d = c
      <4>1. ValidatedState(ContextOf[c]) = "unanchoredEmpty" <=> anchor = None
        BY DEF ValidatedState, Valid
      <4>2. anchor # None => anchor.context = ContextOf[c]
        BY DEF ValidatedState, Valid
      <4>3. ~AnchoredSlotLost
        BY DEF ValidatedState, Valid, AnchoredSlotLost, Slots, StoreInv, TypeOK, Anchor
      <4>4. call[c].record.plaintext \in Payloads
        BY DEF StoreInv, LockInv
      <4>5. /\ call[c].phase = "commit"
            /\ pc'[c] = IF anchor # None THEN "anchored"
                        ELSE IF key THEN "keyCreated" ELSE "keyMissing"
        BY <4>1 DEF StoreInv, TypeOK
      <4>6. /\ UNCHANGED <<key, anchor, call>> /\ ActualGeneration' = ActualGeneration
            /\ AnchoredSlotLost' = AnchoredSlotLost
        BY DEF ActualGeneration, AnchoredSlotLost
      <4>7. call[c].record.generation = ActualGeneration + 1
        OBVIOUS
      <4>. QED
        BY <3>2, <4>2, <4>3, <4>4, <4>5, <4>6, <4>7, CommitBegins
    <3>. QED
      BY <3>1, <3>2
  <2>. QED
    BY <2>1, <2>2, <2>3, <2>4 DEF StoreInv
<1>. QED
  BY <1>1, <1>2 DEF ValidateForCommit

(***************************************************************************)
(* The inductive invariant holds in every reachable state, for every value *)
(* of the constants.                                                       *)
(***************************************************************************)
THEOREM StoreInvariant == Spec => []StoreInv
<1>1. Init => StoreInv
  <2> SUFFICES ASSUME Init PROVE StoreInv
    OBVIOUS
  <2>1. TypeOK
    <3>1. losses \in 0 .. MaxLosses
      BY SMTT(60) DEF Init
    <3>2. pc \in [Clients -> Points] /\ call \in [Clients -> Call]
      BY Constants DEF Init, Points
    <3>. QED
      BY <3>1, <3>2 DEF Init, TypeOK
  <2>2. LockInv
    BY ZenonT(30) DEF Init, LockInv, Idle, Outstanding
  <2>3. AnchorInv
    BY DEF Init, AnchorInv, ActualGeneration
  <2>4. \A c \in Clients : CommitInv(c)
    BY ZenonT(30) DEF Init, CommitInv, Committing, Points, Written
  <2>. QED
    BY <2>1, <2>2, <2>3, <2>4 DEF StoreInv
<1>2. StoreInv /\ [Next]_vars => StoreInv'
  <2> SUFFICES ASSUME StoreInv, [Next]_vars PROVE StoreInv'
    OBVIOUS
  <2>0. {"failed", "loaded", "committed"} \subseteq Phases \ Outstanding
    BY DEF Phases, Outstanding
  <2>1. ASSUME NEW c \in Clients, NEW n \in Generations \ {0}, NEW p \in Payloads,
               CallCommit(c, n, p)
        PROVE  StoreInv'
    BY <2>1, CallCommitStep
  <2>2. ASSUME NEW c \in Clients, CallLoad(c) PROVE StoreInv'
    BY <2>2, CallLoadStep
  <2>3. ASSUME NEW c \in Clients, AcquireExclusiveLock(c) PROVE StoreInv'
    BY <2>3, AcquireExclusiveLockStep
  <2>4. ASSUME NEW c \in Clients, Load(c) PROVE StoreInv'
    BY <2>0, <2>4, AnswerStep, ActualRecordType, Constants DEF Load, StoreInv
  <2>5. ASSUME NEW c \in Clients, ReturnCommitted(c) PROVE StoreInv'
    BY <2>0, <2>5, AnswerStep DEF ReturnCommitted, StoreInv, TypeOK, Call
  <2>6. ASSUME NEW c \in Clients, Throw(c) PROVE StoreInv'
    BY <2>0, <2>6, AnswerStep, Constants DEF Throw
  <2>7. ASSUME NEW c \in Clients, Commit(c) PROVE StoreInv'
    BY <2>5, <2>7, ValidateForCommitStep, CreateInstallationKeyStep,
       CreateGenesisAnchorStep, TemporaryCreateStep, TemporaryWriteStep,
       TemporarySyncStep, RenameStep, SynchronizeDirectoryStep, ReplaceAnchorStep
       DEF Commit, WriteDurably
  <2>8. ASSUME NEW c \in Clients, ProcessDeath(c) PROVE StoreInv'
    BY <2>8, ProcessDeathStep
  <2>9. CASE PowerLoss
    BY <2>9, PowerLossStep
  <2>10. ASSUME NEW s \in Slots, SlotLost(s) PROVE StoreInv'
    BY <2>10, SlotLostStep
  <2>11. CASE UNCHANGED vars
    <3>1. TypeOK'
      BY <2>11 DEF vars, StoreInv, TypeOK
    <3>2. LockInv' /\ AnchorInv'
      BY <2>11 DEF vars, StoreInv, LockInv, AnchorInv, ActualGeneration
    <3>3. ASSUME NEW d \in Clients PROVE CommitInv(d)'
      BY <2>11, <3>3, CommitUntouched DEF vars, StoreInv
    <3>. QED
      BY <3>1, <3>2, <3>3 DEF StoreInv
  <2>. QED
    BY <2>1, <2>2, <2>3, <2>4, <2>6, <2>7, <2>8, <2>9, <2>10, <2>11 DEF Next
<1>. QED
  BY <1>1, <1>2, PTL DEF Spec

\* The store opens after any interruption, for every number of clients,
\* payloads, contexts and generations.
THEOREM StoreRecoverable == Spec => []Recoverable
<1>1. StoreInv => Recoverable
  <2> SUFFICES ASSUME StoreInv, losses = 0, NEW ctx \in Contexts
               PROVE  ValidatedState(ctx) \in Valid \union {"contextMismatch"}
    BY DEF Recoverable
  <2>1. CASE anchor = None
    BY <2>1 DEF StoreInv, AnchorInv, ValidatedState, Valid, AnySlot
  <2>2. CASE anchor # None /\ anchor.generation = 0
    BY <2>2 DEF StoreInv, AnchorInv, ValidatedState, Valid
  <2>3. CASE anchor # None /\ anchor.generation # 0
    <3>1. ActualGeneration > 0
      BY SMTT(60), <2>3 DEF ActualGeneration, StoreInv, TypeOK, Anchor, Generations
    <3>. QED
      BY SMTT(60), <2>3, <3>1, NoneIsNoEnvelope DEF StoreInv, AnchorInv, ValidatedState, Valid
  <2>. QED
    BY <2>1, <2>2, <2>3
<1>. QED
  BY <1>1, StoreInvariant, PTL

\* The anchor only ever selects an envelope that survives a power loss.
THEOREM StoreAnchorDurable == Spec => []AnchorSelectsDurableSlot
<1>1. StoreInv => AnchorSelectsDurableSlot
  BY SMTT(60) DEF StoreInv, AnchorInv, AnchorSelectsDurableSlot, ActualGeneration
<1>. QED
  BY <1>1, StoreInvariant, PTL

\* A lost anchored slot is never papered over.
THEOREM StoreFailsClosed == Spec => FailsClosed
<1>1. StoreInv /\ [Next]_vars =>
        [AnchoredSlotLost =>
           /\ anchor' = anchor
           /\ \A c \in Clients :
                call'[c] # call[c] =>
                  call'[c].phase \notin {"loaded", "applied"}]_vars
  <2> SUFFICES ASSUME StoreInv, Next, AnchoredSlotLost
               PROVE  /\ anchor' = anchor
                      /\ \A c \in Clients :
                           call'[c] # call[c] =>
                             call'[c].phase \notin {"loaded", "applied"}
    OBVIOUS
  <2> DEFINE Goal == /\ anchor' = anchor
                     /\ \A c \in Clients :
                          call'[c] # call[c] =>
                            call'[c].phase \notin {"loaded", "applied"}
  <2>1. ASSUME NEW c \in Clients, NEW phase \in Phases \ {"loaded", "applied"},
               NEW record, Answer(c, phase, record)
        PROVE  Goal
    BY <2>1 DEF Answer, keychain, StoreInv, TypeOK
  <2>2. \A c \in Clients : pc[c] \notin Committing \ {"anchorUpdated"}
    BY ZenonT(30) DEF StoreInv, CommitInv
  <2>3. \A ctx : ValidatedState(ctx) \notin Valid
    BY DEF AnchoredSlotLost, ValidatedState, Valid, StoreInv, TypeOK, Anchor, Slots
  <2>4. {"failed", "conflict", "committed"} \subseteq Phases \ {"loaded", "applied"}
    BY DEF Phases, Outstanding
  <2>5. ASSUME NEW c \in Clients, NEW n \in Generations \ {0}, NEW p \in Payloads,
               CallCommit(c, n, p)
        PROVE  Goal
    <3>1. CASE Answer(c, "failed", EmptyRecord)
      BY <2>1, <2>4, <3>1
    <3>2. CASE ~Answer(c, "failed", EmptyRecord)
      BY SMTT(60), <2>5, <3>2 DEF CallCommit, keychain, StoreInv, TypeOK
    <3>. QED
      BY <3>1, <3>2
  <2>6. ASSUME NEW c \in Clients, CallLoad(c) \/ AcquireExclusiveLock(c)
        PROVE  Goal
    BY SMTT(60), <2>6 DEF CallLoad, AcquireExclusiveLock, keychain, StoreInv, TypeOK
  <2>7. ASSUME NEW c \in Clients, Load(c) \/ ValidateForCommit(c)
        PROVE  Goal
    BY <2>1, <2>3, <2>4, <2>7 DEF Load, ValidateForCommit
  <2>8. ASSUME NEW c \in Clients, ReturnCommitted(c) \/ Throw(c)
        PROVE  Goal
    BY <2>1, <2>4, <2>8 DEF ReturnCommitted, Throw
  <2>9. ASSUME NEW c \in Clients, Commit(c)
        PROVE  Goal
    BY <2>2, <2>7, <2>8, <2>9
       DEF Commit, WriteDurably, CreateInstallationKey, CreateGenesisAnchor,
           TemporaryCreate, TemporaryWrite, TemporarySync, Rename,
           SynchronizeDirectory, ReplaceAnchor, At, Committing, Points
  <2>10. ASSUME NEW c \in Clients, ProcessDeath(c)
         PROVE  Goal
    BY <2>10 DEF ProcessDeath, keychain, Idle, StoreInv, TypeOK
  <2>11. CASE PowerLoss
    BY <2>11 DEF PowerLoss, keychain, Idle
  <2>12. ASSUME NEW s \in Slots, SlotLost(s)
         PROVE  Goal
    BY <2>12 DEF SlotLost, keychain
  <2>. QED
    BY <2>5, <2>6, <2>7, <2>8, <2>9, <2>10, <2>11, <2>12 DEF Next
<1>. QED
  BY <1>1, StoreInvariant, PTL DEF Spec, FailsClosed

----------------------------------------------------------------------------
(* The two-slot store implements the compare-and-swap register *)

\* While the anchor stands, so does the register.
LEMMA RegisterUnchanged ==
  ASSUME anchor' = anchor
  PROVE  RegisterRecord' = RegisterRecord /\ RegisterOwner' = RegisterOwner
  BY DEF RegisterRecord, RegisterOwner, ActualGeneration

\* The register's generation is the anchor's.
LEMMA RegisterGeneration ==
  ASSUME StoreInv
  PROVE  RegisterRecord.generation = ActualGeneration
  BY DEF RegisterRecord, ActualGeneration, EmptyRecord, StoreInv, TypeOK, Anchor

\* An answer of the store is an answer of the register.
LEMMA AnswerRefines ==
  ASSUME StoreInv, NEW c \in Clients, NEW phase, NEW record,
         Answer(c, phase, record)
  PROVE  /\ Register!Answer(c, phase, record)
         /\ UNCHANGED <<RegisterRecord, RegisterOwner>>
  BY RegisterUnchanged DEF Answer, Register!Answer, keychain

\* The compare-and-swap happens when the anchor is replaced.
LEMMA ReplaceAnchorRefines ==
  ASSUME StoreInv, NEW c \in Clients, ReplaceAnchor(c)
  PROVE  Register!Apply(c)
<1>1. /\ pc[c] \in Committing \ {"anchorUpdated"}
      /\ call[c].phase = "commit"
      /\ anchor # None
      /\ anchor.context = ContextOf[c]
      /\ tmp \in Envelope
      /\ tmp.plaintext = call[c].record.plaintext
  BY DEF ReplaceAnchor, At, StoreInv, CommitInv, Committing, Points, Written
<1>2. /\ call[c].record \in Record
      /\ call[c].record.generation \in Generations \ {0}
      /\ call[c].record.generation = ActualGeneration + 1
  BY <1>1, Holder
<1>3. RegisterRecord.generation = ActualGeneration
  BY RegisterGeneration
<1>4. anchor' # None /\ ActualGeneration' = call[c].record.generation
  BY SMTT(60), <1>1, <1>2, Holder, Constants, NoneIsNoAnchor
     DEF ReplaceAnchor, Anchor, ActualGeneration
<1>5. call[c].record = [generation |-> call[c].record.generation,
                        plaintext |-> call[c].record.plaintext]
  BY <1>2 DEF Record
<1>6. RegisterRecord' = call[c].record
  BY <1>1, <1>2, <1>4, <1>5 DEF ReplaceAnchor, RegisterRecord
<1>7. RegisterOwner' = ContextOf[c]
  BY <1>2, <1>4 DEF ReplaceAnchor, RegisterOwner
<1>8. RegisterRecord.generation > 0 => RegisterOwner = ContextOf[c]
  BY SMTT(60), <1>1, <1>3 DEF RegisterOwner, ActualGeneration, StoreInv, TypeOK, Anchor
<1>. QED
  BY <1>1, <1>2, <1>3, <1>6, <1>7, <1>8
     DEF Register!Apply, Register!Answer, ReplaceAnchor

\* A load answers with the register.
LEMMA LoadRefines ==
  ASSUME StoreInv, NEW c \in Clients, Load(c)
  PROVE  Register!Loaded(c) \/ Register!Fail(c)
<1>0. call[c].phase = "load" /\ call[c].phase \in Register!Outstanding
  BY DEF Load, Register!Outstanding
<1>1. CASE Answer(c, "failed", EmptyRecord)
  BY <1>0, <1>1, AnswerRefines DEF Register!Fail, Register!EmptyRecord, EmptyRecord
<1>2. CASE /\ ValidatedState(ContextOf[c]) \in Valid
           /\ Answer(c, "loaded", ActualRecord(ContextOf[c]))
  <2>1. CASE ValidatedState(ContextOf[c]) = "record"
    <3>1. /\ anchor # None
          /\ anchor.generation # 0
          /\ slots[anchor.slot] = anchor.digest
          /\ anchor.context = ContextOf[c]
      BY <2>1 DEF ValidatedState
    <3>2. ActualRecord(ContextOf[c]) = RegisterRecord
      BY <2>1, <3>1 DEF ActualRecord, RegisterRecord, ActualGeneration
    <3>3. RegisterOwner = ContextOf[c]
      BY <3>1 DEF RegisterOwner, ActualGeneration
    <3>. QED
      BY <1>0, <1>2, <3>2, <3>3, AnswerRefines DEF Register!Loaded
  <2>2. CASE ValidatedState(ContextOf[c]) # "record"
    <3>1. ActualGeneration = 0
      BY <1>2, <2>2 DEF ValidatedState, Valid, ActualGeneration
    <3>2. ActualRecord(ContextOf[c]) = RegisterRecord /\ RegisterRecord = EmptyRecord
      BY <2>2, <3>1 DEF ActualRecord, RegisterRecord
    <3>. QED
      BY SMTT(60), <1>0, <1>2, <3>2, AnswerRefines DEF Register!Loaded, EmptyRecord
  <2>. QED
    BY <2>1, <2>2
<1>. QED
  BY <1>1, <1>2 DEF Load

\* The two-slot store is a compare-and-swap register, whatever is thrown,
\* killed, lost with the power or lost on disk.
THEOREM StoreImplementsRegister == Spec => ImplementsRegister
<1> USE DEF Register!Outstanding, Register!EmptyRecord, EmptyRecord,
            Register!Generations, Generations, Register!Idle, Idle
<1>1. Init => Register!Init
  BY DEF Init, Register!Init, RegisterRecord, RegisterOwner, ActualGeneration
<1>2. StoreInv /\ [Next]_vars => [Register!Next]_(Register!vars)
  <2> SUFFICES ASSUME StoreInv, [Next]_vars
               PROVE  Register!Next \/ UNCHANGED Register!vars
    OBVIOUS
  <2>1. ASSUME NEW c \in Clients, NEW n \in Generations \ {0}, NEW p \in Payloads,
               CallCommit(c, n, p)
        PROVE  Register!InvokeCommit(c, n, p) \/ Register!Refuse(c)
    <3>1. call[c].phase \notin Outstanding
      BY <2>1 DEF CallCommit, At, StoreInv, LockInv
    <3>2. CASE Answer(c, "failed", EmptyRecord)
      BY <3>1, <3>2, AnswerRefines DEF Register!Refuse, Outstanding
    <3>3. CASE ~Answer(c, "failed", EmptyRecord)
      BY <2>1, <3>1, <3>3, RegisterUnchanged
         DEF CallCommit, Register!InvokeCommit, Register!Answer, keychain, Outstanding
    <3>. QED
      BY <3>2, <3>3
  <2>2. ASSUME NEW c \in Clients, CallLoad(c)
        PROVE  Register!InvokeLoad(c)
    BY <2>2, RegisterUnchanged
       DEF CallLoad, At, StoreInv, LockInv, Register!InvokeLoad, Register!Answer,
           keychain, Outstanding
  <2>3. ASSUME NEW c \in Clients, Load(c)
        PROVE  Register!Loaded(c) \/ Register!Fail(c)
    BY <2>3, LoadRefines
  <2>4. ASSUME NEW c \in Clients, ValidateForCommit(c)
        PROVE  Register!Fail(c) \/ Register!Conflict(c) \/ UNCHANGED Register!vars
    <3>1. call[c].phase = "commit"
      BY <2>4 DEF ValidateForCommit
    <3>2. CASE Answer(c, "failed", EmptyRecord)
      BY <3>1, <3>2, AnswerRefines DEF Register!Fail
    <3>3. CASE /\ call[c].record.generation # ActualGeneration + 1
               /\ Answer(c, "conflict", EmptyRecord)
      BY <3>1, <3>3, AnswerRefines, RegisterGeneration DEF Register!Conflict
    <3>4. CASE UNCHANGED <<keychain, call>>
      BY <3>4, RegisterUnchanged DEF keychain, Register!vars
    <3>. QED
      BY <2>4, <3>2, <3>3, <3>4 DEF ValidateForCommit
  <2>5. ASSUME NEW c \in Clients, CreateGenesisAnchor(c)
        PROVE  UNCHANGED Register!vars
    <3>1. anchor = None
      BY <2>5 DEF CreateGenesisAnchor, At, StoreInv, CommitInv
    <3>2. ActualGeneration = 0 /\ ActualGeneration' = 0
      BY <2>5, <3>1 DEF CreateGenesisAnchor, ActualGeneration
    <3>. QED
      BY <2>5, <3>2
         DEF CreateGenesisAnchor, Register!vars, RegisterRecord, RegisterOwner
  <2>6. ASSUME NEW c \in Clients,
               CreateInstallationKey(c) \/ WriteDurably(c) \/ AcquireExclusiveLock(c)
        PROVE  UNCHANGED Register!vars
    BY <2>6, RegisterUnchanged
       DEF CreateInstallationKey, WriteDurably, AcquireExclusiveLock, TemporaryCreate,
           TemporaryWrite, TemporarySync, Rename, SynchronizeDirectory, keychain,
           Register!vars
  <2>7. ASSUME NEW c \in Clients, ReturnCommitted(c)
        PROVE  Register!Committed(c)
    BY <2>7, AnswerRefines
       DEF ReturnCommitted, At, StoreInv, LockInv, Register!Committed
  <2>8. ASSUME NEW c \in Clients, Commit(c)
        PROVE  \/ Register!Fail(c) \/ Register!Conflict(c) \/ Register!Apply(c)
               \/ Register!Committed(c) \/ UNCHANGED Register!vars
    BY <2>4, <2>5, <2>6, <2>7, <2>8, ReplaceAnchorRefines DEF Commit
  <2>9. ASSUME NEW c \in Clients, Throw(c)
        PROVE  Register!Fail(c)
    BY <2>9, AnswerRefines DEF Throw, StoreInv, LockInv, Register!Fail, Outstanding
  <2>10. ASSUME NEW c \in Clients, ProcessDeath(c)
         PROVE  Register!Crash
    <3>1. call' = [d \in Clients |-> IF d \in {c} THEN Register!Idle ELSE call[d]]
      BY <2>10 DEF ProcessDeath, StoreInv, TypeOK
    <3>2. UNCHANGED <<RegisterRecord, RegisterOwner>>
      BY <2>10, RegisterUnchanged DEF ProcessDeath, keychain
    <3>3. {c} \in SUBSET Clients
      OBVIOUS
    <3>. QED
      BY <3>1, <3>2, <3>3 DEF Register!Crash
  <2>11. ASSUME PowerLoss
         PROVE  Register!Crash
    <3>1. call' = [d \in Clients |-> IF d \in Clients THEN Register!Idle ELSE call[d]]
      BY <2>11 DEF PowerLoss
    <3>2. UNCHANGED <<RegisterRecord, RegisterOwner>>
      BY <2>11, RegisterUnchanged DEF PowerLoss, keychain
    <3>3. Clients \in SUBSET Clients
      OBVIOUS
    <3>. QED
      BY <3>1, <3>2, <3>3 DEF Register!Crash
  <2>12. ASSUME NEW s \in Slots, SlotLost(s)
         PROVE  UNCHANGED Register!vars
    BY <2>12, RegisterUnchanged DEF SlotLost, keychain, Register!vars
  <2>13. CASE UNCHANGED vars
    BY <2>13, RegisterUnchanged DEF vars, Register!vars
  <2>. QED
    BY <2>1, <2>2, <2>3, <2>6, <2>8, <2>9, <2>10, <2>11, <2>12, <2>13
       DEF Next, Register!Next
<1>. QED
  BY <1>1, <1>2, StoreInvariant, PTL DEF Spec, Register!Spec, ImplementsRegister
=============================================================================
