------------------------- MODULE TenantRuntimeProofs -------------------------
EXTENDS TenantRuntime, WellFoundedInduction, TLAPS

(***************************************************************************)
(* Proofs about the durable command journal, for every set of operations,  *)
(* contents and receipts.  The four parts of the inductive invariant lean  *)
(* on each other: HighWaterExact is about sequence numbers, so it needs    *)
(* SequenceIndexAgrees to know which operation a number names, and both    *)
(* need JournalTypeOK to know that the index is total on 1..nextSequence.         *)
(***************************************************************************)

JournalInv ==
    /\ JournalTypeOK
    /\ SequenceIndexAgrees
    /\ ReceiptIffSettled
    /\ HighWaterExact

\* An empty journal satisfies every part.
LEMMA InitEstablishesJournalInv == JournalInit => JournalInv
<1> SUFFICES ASSUME JournalInit PROVE JournalInv
    OBVIOUS
<1> USE DEF JournalInit
<1>1. JournalTypeOK BY DEF JournalTypeOK
<1>2. SequenceIndexAgrees BY DEF SequenceIndexAgrees
<1>3. ReceiptIffSettled BY DEF ReceiptIffSettled
<1>4. HighWaterExact BY DEF HighWaterExact
<1> QED BY <1>1, <1>2, <1>3, <1>4 DEF JournalInv

\* prepare() files the new command one past the end of the sequence.
LEMMA PrepareNewPreserves ==
    ASSUME JournalInv,
           NEW op \in Operations, NEW content \in Contents,
           PrepareNew(op, content)
    PROVE  JournalInv'
<1> DEFINE new == [content |-> content, sequence |-> nextSequence + 1,
                   status |-> "pending", receipt |-> NoReceipt]
<1>1. /\ op \notin DOMAIN commands
      /\ DOMAIN commands' = DOMAIN commands \cup {op}
      /\ commands'[op] = new
      /\ \A o \in DOMAIN commands : commands'[o] = commands[o]
    BY DEF PrepareNew, Recorded, Put
<1>2. /\ nextSequence \in Nat
      /\ nextSequence' = nextSequence + 1
      /\ highWaterMark' = highWaterMark
      /\ highWaterMark \in 0..nextSequence
    BY DEF PrepareNew, JournalInv, JournalTypeOK
<1>3. /\ DOMAIN sequenceIndex' = 1..nextSequence'
      /\ sequenceIndex'[nextSequence + 1] = op
      /\ \A n \in 1..nextSequence : /\ sequenceIndex'[n] = sequenceIndex[n]
                                    /\ sequenceIndex[n] \in DOMAIN commands
    BY <1>2 DEF PrepareNew, Put, JournalInv, JournalTypeOK
<1>4. new \in Command
    BY <1>2 DEF Command
<1>5. JournalTypeOK'
  <2>1. DOMAIN commands' \subseteq Operations
      BY <1>1 DEF JournalInv, JournalTypeOK
  <2>2. \A o \in DOMAIN commands' : commands'[o] \in Command
      BY <1>1, <1>4 DEF JournalInv, JournalTypeOK
  <2>3. \A n \in 1..nextSequence' : sequenceIndex'[n] \in DOMAIN commands'
      BY <1>1, <1>2, <1>3
  <2> QED BY <1>2, <1>3, <2>1, <2>2, <2>3 DEF JournalTypeOK, Command
<1>6. SequenceIndexAgrees'
  <2>1. \A n \in 1..nextSequence' : commands'[sequenceIndex'[n]].sequence = n
    <3> TAKE n \in 1..nextSequence'
    <3>1. CASE n = nextSequence + 1
        BY <1>1, <1>3, <3>1
    <3>2. CASE n \in 1..nextSequence
        BY <1>1, <1>3, <3>2 DEF JournalInv, SequenceIndexAgrees
    <3> QED BY <1>2, <3>1, <3>2
  <2>2. \A o \in DOMAIN commands' :
            /\ commands'[o].sequence \in 1..nextSequence'
            /\ sequenceIndex'[commands'[o].sequence] = o
    <3> TAKE o \in DOMAIN commands'
    <3>1. CASE o = op
        BY <1>1, <1>2, <1>3, <3>1
    <3>2. CASE o \in DOMAIN commands
        BY <1>1, <1>2, <1>3, <3>2 DEF JournalInv, SequenceIndexAgrees
    <3> QED BY <1>1, <3>1, <3>2
  <2> QED BY <2>1, <2>2 DEF SequenceIndexAgrees
<1>7. ReceiptIffSettled'
    BY <1>1 DEF JournalInv, ReceiptIffSettled
<1>8. HighWaterExact'
  <2>1. \A o \in DOMAIN commands' :
            commands'[o].sequence <= highWaterMark' => Settled(o)'
    <3> TAKE o \in DOMAIN commands'
    <3>1. CASE o = op
        BY <1>1, <1>2, <3>1
    <3>2. CASE o \in DOMAIN commands
        BY <1>1, <1>2, <3>2 DEF JournalInv, HighWaterExact, Settled, Recorded
    <3> QED BY <1>1, <3>1, <3>2
  <2>2. highWaterMark' < nextSequence' => IsPending(sequenceIndex[highWaterMark + 1])'
    <3> SUFFICES ASSUME highWaterMark' < nextSequence'
                 PROVE  /\ sequenceIndex'[highWaterMark + 1] \in DOMAIN commands'
                        /\ commands'[sequenceIndex'[highWaterMark + 1]].status = "pending"
        BY <1>2 DEF IsPending, Recorded
    <3>1. CASE highWaterMark = nextSequence
        BY <1>1, <1>3, <3>1
    <3>2. CASE highWaterMark < nextSequence
      <4>1. highWaterMark + 1 \in 1..nextSequence
          BY <1>2, <3>2
      <4>2. commands[sequenceIndex[highWaterMark + 1]].status = "pending"
          BY <3>2 DEF JournalInv, HighWaterExact, IsPending
      <4> QED BY <1>1, <1>3, <4>1, <4>2
    <3> QED BY <1>2, <3>1, <3>2
  <2> QED BY <2>1, <2>2 DEF HighWaterExact
<1> QED BY <1>5, <1>6, <1>7, <1>8 DEF JournalInv

\* finalize() settles one pending command and walks the mark forward.
LEMMA FinalizePreserves ==
    ASSUME JournalInv,
           NEW op \in Operations, NEW status \in TerminalStatus,
           NEW receipt \in Receipts,
           Finalize(op, status, receipt)
    PROVE  JournalInv'
<1>1. CASE Settled(op) /\ UNCHANGED journalVars
  <2> USE <1>1 DEF journalVars
  <2>1. JournalTypeOK' BY DEF JournalInv, JournalTypeOK
  <2>2. SequenceIndexAgrees' BY DEF JournalInv, SequenceIndexAgrees
  <2>3. ReceiptIffSettled' BY DEF JournalInv, ReceiptIffSettled
  <2>4. HighWaterExact'
      BY DEF JournalInv, HighWaterExact, Settled, IsPending, Recorded
  <2> QED BY <2>1, <2>2, <2>3, <2>4 DEF JournalInv
<1>2. CASE /\ IsPending(op)
           /\ commands' = [commands EXCEPT ![op].status = status,
                                           ![op].receipt = receipt]
           /\ UNCHANGED <<sequenceIndex, nextSequence>>
           /\ AdvanceHighWaterMark
  <2>1. /\ op \in DOMAIN commands
        /\ \A o \in DOMAIN commands : commands[o] \in Command
        /\ DOMAIN commands \subseteq Operations
      BY <1>2 DEF IsPending, Recorded, JournalInv, JournalTypeOK
  <2>2. /\ DOMAIN commands' = DOMAIN commands
        /\ \A o \in DOMAIN commands :
               /\ commands'[o] \in Command
               /\ commands'[o].sequence = commands[o].sequence
               /\ commands'[o].content = commands[o].content
        /\ commands'[op].status = status
        /\ commands'[op].receipt = receipt
        /\ \A o \in DOMAIN commands : o # op => commands'[o] = commands[o]
      BY <1>2, <2>1 DEF Command
  <2>3. /\ sequenceIndex' = sequenceIndex
        /\ nextSequence' = nextSequence
        /\ nextSequence \in Nat
        /\ highWaterMark \in 0..nextSequence
        /\ DOMAIN sequenceIndex = 1..nextSequence
        /\ \A n \in 1..nextSequence : sequenceIndex[n] \in DOMAIN commands
      BY <1>2 DEF JournalInv, JournalTypeOK
  <2>4. PICK mark \in highWaterMark..nextSequence :
            /\ \A n \in (highWaterMark + 1)..mark : TerminalAt(n)'
            /\ ~TerminalAt(mark + 1)'
            /\ highWaterMark' = mark
      BY <1>2 DEF AdvanceHighWaterMark
  <2>5. JournalTypeOK'
      BY <2>1, <2>2, <2>3, <2>4 DEF JournalTypeOK
  <2>6. SequenceIndexAgrees'
    <3>1. \A n \in 1..nextSequence : commands[sequenceIndex[n]].sequence = n
        BY DEF JournalInv, SequenceIndexAgrees
    <3>2. \A o \in DOMAIN commands :
              /\ commands[o].sequence \in 1..nextSequence
              /\ sequenceIndex[commands[o].sequence] = o
        BY DEF JournalInv, SequenceIndexAgrees
    <3> QED BY <2>2, <2>3, <3>1, <3>2 DEF SequenceIndexAgrees
  <2>7. ReceiptIffSettled'
    <3>1. status # "pending" /\ receipt # NoReceipt
        BY NoReceiptAssumption DEF TerminalStatus
    <3> QED BY <2>2, <3>1 DEF JournalInv, ReceiptIffSettled
  <2>8. HighWaterExact'
    <3>1. ASSUME NEW o \in DOMAIN commands', commands'[o].sequence <= highWaterMark'
          PROVE  Settled(o)'
      <4>1. /\ commands[o].sequence \in 1..nextSequence
            /\ sequenceIndex[commands[o].sequence] = o
          BY <2>2 DEF JournalInv, SequenceIndexAgrees
      <4>2. CASE commands[o].sequence <= highWaterMark
        <5>1. commands[o].status \in TerminalStatus /\ o \in DOMAIN commands
            BY <2>2, <4>2 DEF JournalInv, HighWaterExact, Settled
        <5> QED BY <2>2, <5>1 DEF Settled, Recorded
      <4>3. CASE commands[o].sequence \in (highWaterMark + 1)..mark
          BY <2>3, <2>4, <4>1, <4>3 DEF TerminalAt
      <4> QED BY <2>2, <2>3, <2>4, <3>1, <4>1, <4>2, <4>3
    <3>2. ASSUME highWaterMark' < nextSequence'
          PROVE  IsPending(sequenceIndex[highWaterMark + 1])'
      <4>1. mark + 1 \in 1..nextSequence
          BY <2>3, <2>4, <3>2
      <4>2. /\ sequenceIndex'[mark + 1] \in DOMAIN commands'
            /\ commands'[sequenceIndex'[mark + 1]] \in Command
          BY <2>2, <2>3, <4>1
      <4>3. commands'[sequenceIndex'[mark + 1]].status \notin TerminalStatus
          BY <2>3, <2>4, <4>1, <4>2 DEF TerminalAt, Settled, Recorded
      <4> QED BY <2>4, <4>2, <4>3 DEF IsPending, Recorded, Command
    <3> QED BY <3>1, <3>2 DEF HighWaterExact
  <2> QED BY <2>5, <2>6, <2>7, <2>8 DEF JournalInv
<1> QED BY <1>1, <1>2 DEF Finalize

\* The journal's inductive invariant, for every step of the journal.
LEMMA NextPreservesJournalInv == JournalInv /\ [JournalNext]_journalVars => JournalInv'
<1> SUFFICES ASSUME JournalInv, [JournalNext]_journalVars PROVE JournalInv'
    OBVIOUS
<1>1. ASSUME NEW op \in Operations, NEW content \in Contents, PrepareNew(op, content)
      PROVE  JournalInv'
    BY <1>1, PrepareNewPreserves
<1>2. ASSUME NEW op \in Operations, NEW status \in TerminalStatus,
             NEW receipt \in Receipts, Finalize(op, status, receipt)
      PROVE  JournalInv'
    BY <1>2, FinalizePreserves
<1>3. CASE UNCHANGED journalVars
    BY <1>3 DEF journalVars, JournalInv, JournalTypeOK, SequenceIndexAgrees,
                ReceiptIffSettled, HighWaterExact, Settled, IsPending, Recorded
<1> QED BY <1>1, <1>2, <1>3 DEF JournalNext

\* What prepare() and finalize() keep true, whatever the order they run in.
THEOREM JournalInvariant == JournalSpec => []JournalInv
<1>1. JournalInit => JournalInv BY InitEstablishesJournalInv
<1>2. JournalInv /\ [JournalNext]_journalVars => JournalInv' BY NextPreservesJournalInv
<1> QED BY <1>1, <1>2, PTL DEF JournalSpec

\* Every record, index entry and counter the journal stores has its type.
THEOREM JournalTypeCorrect == JournalSpec => []JournalTypeOK
<1>1. JournalInv => JournalTypeOK BY DEF JournalInv
<1> QED BY <1>1, JournalInvariant, PTL

\* prepare() gives out 1..nextSequence without gap or double use.
THEOREM SequencesAreDense == JournalSpec => []SequenceIndexAgrees
<1>1. JournalInv => SequenceIndexAgrees BY DEF JournalInv
<1> QED BY <1>1, JournalInvariant, PTL

\* advanceHighWaterMark() leaves the mark exactly at the end of the settled
\* prefix: nothing unresolved is below it, nothing resolved is left above it
\* without an unresolved command in between.
THEOREM HighWaterMarkIsExact == JournalSpec => []HighWaterExact
<1>1. JournalInv => HighWaterExact BY DEF JournalInv
<1> QED BY <1>1, JournalInvariant, PTL

\* No step of the journal forgets a command or touches a settled one.
LEMMA StepKeepsSettled ==
    JournalInv /\ [JournalNext]_journalVars => SettledIsFinalStep
<1> SUFFICES ASSUME JournalInv, [JournalNext]_journalVars PROVE SettledIsFinalStep
    OBVIOUS
<1>1. ASSUME NEW op \in Operations, NEW content \in Contents, PrepareNew(op, content)
      PROVE  SettledIsFinalStep
    BY <1>1 DEF PrepareNew, Recorded, Put, SettledIsFinalStep
<1>2. ASSUME NEW op \in Operations, NEW status \in TerminalStatus,
             NEW receipt \in Receipts, Finalize(op, status, receipt)
      PROVE  SettledIsFinalStep
  <2>1. CASE Settled(op) /\ UNCHANGED journalVars
      BY <2>1 DEF journalVars, SettledIsFinalStep
  <2>2. CASE /\ IsPending(op)
             /\ commands' = [commands EXCEPT ![op].status = status,
                                             ![op].receipt = receipt]
    <3>1. \A o \in DOMAIN commands : commands[o] \in Command
        BY DEF JournalInv, JournalTypeOK
    <3>2. ~Settled(op)
        BY <2>2 DEF IsPending, Settled, TerminalStatus
    <3> QED BY <2>2, <3>1, <3>2 DEF SettledIsFinalStep, Command
  <2> QED BY <1>2, <2>1, <2>2 DEF Finalize
<1>3. CASE UNCHANGED journalVars
    BY <1>3 DEF journalVars, SettledIsFinalStep
<1> QED BY <1>1, <1>2, <1>3 DEF JournalNext

\* A command is journaled behind every command journaled before it.
LEMMA StepAppends ==
    ASSUME JournalInv, [JournalNext]_journalVars,
           NEW op \in DOMAIN commands', op \notin DOMAIN commands,
           NEW other \in DOMAIN commands
    PROVE  commands'[other].sequence < commands'[op].sequence
<1>1. ASSUME NEW o \in Operations, NEW content \in Contents, PrepareNew(o, content)
      PROVE  commands'[other].sequence < commands'[op].sequence
  <2>1. commands'[op].sequence = nextSequence + 1 /\ commands'[other] = commands[other]
      BY <1>1 DEF PrepareNew, Recorded, Put
  <2>2. commands[other].sequence \in 1..nextSequence /\ nextSequence \in Nat
      BY DEF JournalInv, JournalTypeOK, SequenceIndexAgrees
  <2> QED BY <2>1, <2>2
<1>2. ASSUME NEW o \in Operations, NEW status \in TerminalStatus,
             NEW receipt \in Receipts, Finalize(o, status, receipt)
      PROVE  FALSE
    BY <1>2 DEF Finalize, journalVars
<1>3. CASE UNCHANGED journalVars
    BY <1>3 DEF journalVars
<1> QED BY <1>1, <1>2, <1>3 DEF JournalNext

\* A recorded command is never forgotten or changed but by its one settlement
\* (prepare()'s reuse branch, finalize()'s early return).
THEOREM SettlementIsFinal == JournalSpec => SettledIsFinal
<1>1. JournalInv /\ [JournalNext]_journalVars => [SettledIsFinalStep]_journalVars
    BY StepKeepsSettled
<1> QED BY <1>1, JournalInvariant, PTL DEF JournalSpec, SettledIsFinal

\* The high-water mark never moves back, so "settled up to here" once read
\* stays true.
THEOREM MarkNeverMovesBack == JournalSpec => HighWaterMonotonic
<1>1. JournalInv /\ [JournalNext]_journalVars => [highWaterMark' >= highWaterMark]_journalVars
  <2> SUFFICES ASSUME JournalInv, JournalNext PROVE highWaterMark' >= highWaterMark
      OBVIOUS
  <2>1. highWaterMark \in Nat /\ nextSequence \in Nat
      BY DEF JournalInv, JournalTypeOK
  <2>2. ASSUME NEW op \in Operations, NEW content \in Contents, PrepareNew(op, content)
        PROVE  highWaterMark' >= highWaterMark
      BY <2>1, <2>2 DEF PrepareNew
  <2>3. ASSUME NEW op \in Operations, NEW status \in TerminalStatus,
               NEW receipt \in Receipts, Finalize(op, status, receipt)
        PROVE  highWaterMark' >= highWaterMark
    <3>1. AdvanceHighWaterMark \/ UNCHANGED highWaterMark
        BY <2>3, Zenon DEF Finalize, journalVars
    <3> QED BY <2>1, <3>1 DEF AdvanceHighWaterMark
  <2> QED BY <2>2, <2>3 DEF JournalNext
<1> QED BY <1>1, JournalInvariant, PTL DEF JournalSpec, HighWaterMonotonic

-------------------------------------------------------------------------------

(***************************************************************************)
(* Proofs about the tenant runtime, for every set of operations, contents, *)
(* receipts and replayers and every number of interruptions: it implements *)
(* the journal and the contract of OperationOutcomes, and its replays keep *)
(* the journal's order.                                                    *)
(*                                                                         *)
(* The invariant says of each handler what its local variables still know  *)
(* about the journal across an await.  A client request knows its command  *)
(* is pending until it finalizes it itself: only the gate makes that so.   *)
(* A replay knows no such thing, only that its commands are recorded and   *)
(* that its snapshot misses nothing unresolved that comes earlier.         *)
(***************************************************************************)

\* What the snapshot of replay r still guarantees about the journal's order.
SnapshotMissesNothing(r) ==
    \A op \in todo[r], earlier \in DOMAIN commands :
        IsPending(earlier) /\ commands[earlier].sequence < commands[op].sequence
            => \/ earlier \in todo[r]
               \/ InPhase(r, "forwarded") /\ handler[r].op = earlier
               \/ InPhase(r, "replied") /\ handler[r].op = earlier

ReplayerOK(r) ==
    /\ handler[r].phase \in {"idle", "choosing", "forwarded", "replied", "deleting"}
    /\ handler[r].phase \in {"forwarded", "replied", "deleting"} => Recorded(handler[r].op)
    /\ InPhase(r, "replied") => handler[r].reply \in Receipts
    /\ InPhase(r, "deleting") => Settled(handler[r].op)
    /\ todo[r] \subseteq DOMAIN commands
    /\ SnapshotMissesNothing(r)

FetchOK ==
    LET f == handler["fetch"] IN
    /\ f.phase # "choosing"
    /\ f.phase \in {"storing", "forwarded", "replied", "persisted"} => IsPending(f.op)
    /\ f.phase \in {"replied", "persisted"} => f.reply \in Receipts
    /\ f.phase \in {"deleting", "responding"} =>
           Settled(f.op) /\ commands[f.op].receipt = f.reply

RuntimeInv ==
    /\ TypeOK
    /\ JournalInv
    /\ FetchOK
    /\ \A r \in Replayers : ReplayerOK(r)
    /\ AnswersAreDurable

-----------------------------------------------------------------------------
\* The least-number principle for a set of naturals.
LEMMA NatHasMinimum ==
    ASSUME NEW T \in SUBSET Nat, T # {}
    PROVE  \E x \in T : \A y \in T : x <= y
<1> DEFINE Less == OpToRel(<, Nat)
<1>1. IsWellFoundedOn(Less, Nat)
    BY NatLessThanWellFounded
<1>2. \A x, y \in Nat : <<y, x>> \in Less <=> y < x
    BY DEF OpToRel
<1> HIDE DEF Less
<1>3. PICK x \in T : \A y \in T : ~(<<y, x>> \in Less)
    BY <1>1, WFMin
<1>4. \A y \in T : ~(y < x)
    BY <1>2, <1>3
<1>5. \A y \in T : x <= y
    BY <1>4
<1> QED BY <1>5

\* pending()'s sort puts a command of the snapshot first that no other precedes.
LEMMA FirstIsLeast ==
    ASSUME JournalInv, NEW ops \in SUBSET DOMAIN commands, ops # {}
    PROVE  /\ First(ops) \in ops
           /\ \A other \in ops : commands[First(ops)].sequence <= commands[other].sequence
<1> DEFINE sequences == {commands[op].sequence : op \in ops}
<1>1. sequences \in SUBSET Nat /\ sequences # {}
    BY DEF JournalInv, JournalTypeOK, Command
<1>2. \E x \in sequences : \A y \in sequences : x <= y
  <2> HIDE DEF sequences
  <2> QED BY <1>1, NatHasMinimum
<1>3. \E op \in ops : \A other \in ops : commands[op].sequence <= commands[other].sequence
    BY <1>2
<1> QED BY <1>3 DEF First

-----------------------------------------------------------------------------
\* The runtime uses the journal through prepare() and finalize() only.
LEMMA StepIsJournalStep ==
    ASSUME RuntimeInv, [Next]_vars
    PROVE  [JournalNext]_journalVars
<1>1. ASSUME NEW op \in Operations, NEW content \in Contents, FetchNew(op, content)
      PROVE  JournalNext
    BY <1>1 DEF FetchNew, JournalNext
<1>2. CASE FetchFinalize
  <2> DEFINE op == handler["fetch"].op
             reply == handler["fetch"].reply
  <2>1. op \in Operations /\ reply \in Receipts
      BY <1>2 DEF FetchFinalize, FetchReady, InPhase, RuntimeInv, FetchOK, IsPending,
                  Recorded, TypeOK, JournalTypeOK
  <2>2. Terminal(reply) \in TerminalStatus
      BY DEF Terminal, TerminalStatus
  <2>3. Finalize(op, Terminal(reply), reply)
      BY <1>2 DEF FetchFinalize
  <2> HIDE DEF op, reply
  <2> QED BY <2>1, <2>2, <2>3 DEF JournalNext
<1>3. ASSUME NEW r \in Replayers, ReplayFinalize(r)
      PROVE  JournalNext
  <2> DEFINE op == handler[r].op
             reply == handler[r].reply
  <2>1. op \in Operations /\ reply \in Receipts
      BY <1>3 DEF ReplayFinalize, InPhase, RuntimeInv, ReplayerOK, Recorded, TypeOK,
                  JournalTypeOK
  <2>2. Terminal(reply) \in TerminalStatus
      BY DEF Terminal, TerminalStatus
  <2>3. Finalize(op, Terminal(reply), reply)
      BY <1>3 DEF ReplayFinalize
  <2> HIDE DEF op, reply
  <2> QED BY <2>1, <2>2, <2>3 DEF JournalNext
<1>4. CASE UNCHANGED journalVars
    BY <1>4
<1>5. CASE UNCHANGED vars
    BY <1>5 DEF vars
<1> QED
    BY <1>1, <1>2, <1>3, <1>4, <1>5
    DEF Next, FetchStep, ReplayStep, FetchRetry, FetchSettled, FetchConflict, FetchStore,
        FetchPersist, FetchFinalizeFails, FetchDelete, FetchRespond, ReplayStart,
        ReplayForward, ReplayEnd, ReplayDelete, ContainerReplies, ContainerFails,
        SessionEnds, ContainerLoss, Crash

\* Facts about the journal that every step of the runtime inherits.
LEMMA StepKeepsJournal ==
    ASSUME RuntimeInv, [Next]_vars
    PROVE  /\ JournalInv'
           /\ SettledIsFinalStep
           /\ \A op \in DOMAIN commands' \ DOMAIN commands, other \in DOMAIN commands :
                  commands'[other].sequence < commands'[op].sequence
<1>1. JournalInv /\ [JournalNext]_journalVars
    BY StepIsJournalStep DEF RuntimeInv
<1>2. JournalInv'
    BY <1>1, NextPreservesJournalInv
<1>3. SettledIsFinalStep
    BY <1>1, StepKeepsSettled
<1>4. ASSUME NEW op \in DOMAIN commands' \ DOMAIN commands, NEW other \in DOMAIN commands
      PROVE  commands'[other].sequence < commands'[op].sequence
    BY <1>1, <1>4, StepAppends
<1> QED BY <1>2, <1>3, <1>4

\* A settled command stays settled, with the receipt it has.
LEMMA SettledStays ==
    ASSUME RuntimeInv, [Next]_vars, NEW op, Settled(op)
    PROVE  Settled(op)' /\ commands'[op] = commands[op]
<1>1. SettledIsFinalStep
    BY StepKeepsJournal
<1> QED BY <1>1 DEF SettledIsFinalStep, Settled, Recorded

\* What a replay knows it still knows after the steps of others: they settle
\* commands, but do not unsettle them or slip one in before its snapshot.
LEMMA ReplayerUndisturbed ==
    ASSUME RuntimeInv, [Next]_vars, NEW r \in Replayers,
           handler'[r] = handler[r], todo'[r] = todo[r]
    PROVE  ReplayerOK(r)'
<1>1. /\ SettledIsFinalStep
      /\ \A op \in DOMAIN commands' \ DOMAIN commands, other \in DOMAIN commands :
             commands'[other].sequence < commands'[op].sequence
      /\ JournalInv'
    BY StepKeepsJournal
<1>2. ReplayerOK(r)
    BY DEF RuntimeInv
<1>3. /\ todo[r] \subseteq DOMAIN commands
      /\ \A op \in DOMAIN commands : op \in DOMAIN commands'
    BY <1>1, <1>2 DEF ReplayerOK, SettledIsFinalStep
<1>4. SnapshotMissesNothing(r)'
  <2> SUFFICES ASSUME NEW op \in todo[r], NEW earlier \in DOMAIN commands',
                      IsPending(earlier)',
                      commands'[earlier].sequence < commands'[op].sequence
               PROVE  \/ earlier \in todo[r]
                      \/ InPhase(r, "forwarded") /\ handler[r].op = earlier
                      \/ InPhase(r, "replied") /\ handler[r].op = earlier
      BY DEF SnapshotMissesNothing, InPhase
  <2>1. /\ op \in DOMAIN commands
        /\ commands'[op].sequence = commands[op].sequence
      BY <1>1, <1>3 DEF SettledIsFinalStep
  <2>2. commands'[op].sequence \in Nat /\ commands'[earlier].sequence \in Nat
      BY <1>1, <1>3 DEF JournalInv, JournalTypeOK, Command
  <2>3. earlier \in DOMAIN commands
    <3> SUFFICES ASSUME earlier \notin DOMAIN commands PROVE FALSE
        OBVIOUS
    <3>1. commands'[op].sequence < commands'[earlier].sequence
        BY <1>1, <2>1
    <3> QED BY <2>2, <3>1
  <2>4. commands'[earlier].sequence = commands[earlier].sequence
      BY <1>1, <2>3 DEF SettledIsFinalStep
  <2>5. IsPending(earlier)
    <3>1. ~Settled(earlier)
        BY SettledStays DEF IsPending, Settled, TerminalStatus
    <3>2. commands[earlier] \in Command
        BY <2>3 DEF RuntimeInv, JournalInv, JournalTypeOK
    <3> QED BY <2>3, <3>1, <3>2 DEF Settled, Recorded, IsPending, Command
  <2> QED BY <1>2, <2>1, <2>3, <2>4, <2>5 DEF ReplayerOK, SnapshotMissesNothing
<1>5. (InPhase(r, "deleting") => Settled(handler[r].op))'
    BY <1>2, SettledStays DEF ReplayerOK, InPhase
<1>6. (handler[r].phase \in {"forwarded", "replied", "deleting"} => Recorded(handler[r].op))'
    BY <1>2, <1>3 DEF ReplayerOK, Recorded
<1> QED BY <1>2, <1>3, <1>4, <1>5, <1>6 DEF ReplayerOK, InPhase

\* A replay that holds nothing knows all it needs to.
LEMMA IdleReplayerOK ==
    ASSUME NEW r \in Replayers, handler[r] = Idle, todo[r] = {}
    PROVE  ReplayerOK(r)
BY DEF ReplayerOK, SnapshotMissesNothing, InPhase, Idle, At

\* An idle client handler knows nothing, so nothing can prove it wrong.
LEMMA IdleFetchOK ==
    ASSUME InPhase("fetch", "idle")
    PROVE  FetchOK
BY DEF FetchOK, InPhase

\* A client request in progress is not disturbed by a step that leaves it and
\* the journal alone.
LEMMA FetchUndisturbed ==
    ASSUME FetchOK, UNCHANGED journalVars, handler'["fetch"] = handler["fetch"]
    PROVE  FetchOK'
BY DEF FetchOK, journalVars, IsPending, Settled, Recorded

-----------------------------------------------------------------------------
\* The shapes a step of the runtime takes, for the proofs by cases below: which
\* handler moves and what else it may touch.
LEMMA ResetIsClean ==
    ASSUME RuntimeInv, ResetObject, UNCHANGED journalVars
    PROVE  /\ FetchOK'
           /\ \A r \in Replayers : ReplayerOK(r)'
<1>1. /\ handler'["fetch"] = Idle
      /\ \A r \in Replayers : handler'[r] = Idle /\ todo'[r] = {}
    BY DEF ResetObject, Handlers
<1>2. FetchOK'
    BY <1>1 DEF FetchOK, Idle, At
<1>3. ASSUME NEW r \in Replayers PROVE ReplayerOK(r)'
    BY <1>1 DEF ReplayerOK, SnapshotMissesNothing, InPhase, Idle, At
<1> QED BY <1>2, <1>3

\* Moving one handler leaves the others where they are.
LEMMA GoesMovesOne ==
    ASSUME TypeOK, NEW h \in Handlers, NEW phase, NEW op, NEW reply,
           Goes(h, phase, op, reply)
    PROVE  /\ handler'[h] = At(phase, op, reply)
           /\ \A g \in Handlers : g # h => handler'[g] = handler[g]
           /\ phase \in Phases /\ op \in Operations \cup {NoOperation}
                  /\ reply \in Receipts \cup {NoReceipt}
                => handler' \in [Handlers -> [phase : Phases,
                                              op    : Operations \cup {NoOperation},
                                              reply : Receipts \cup {NoReceipt}]]
BY DEF TypeOK, Goes, At

-----------------------------------------------------------------------------
\* Every variable keeps its type.
LEMMA StepPreservesType ==
    ASSUME RuntimeInv, Next
    PROVE  TypeOK'
<1> USE RuntimeAssumption
<1>0. JournalTypeOK' /\ TypeOK
    BY StepKeepsJournal DEF RuntimeInv, JournalInv
<1> DEFINE HandlerType == [Handlers -> [phase : Phases,
                                        op    : Operations \cup {NoOperation},
                                        reply : Receipts \cup {NoReceipt}]]
<1>h. ASSUME NEW h \in Handlers
      PROVE  /\ handler[h].op \in Operations \cup {NoOperation}
             /\ handler[h].reply \in Receipts \cup {NoReceipt}
             /\ handler[h].phase \in Phases
             /\ At("idle", NoOperation, NoReceipt).op = NoOperation
    BY <1>0, <1>h DEF TypeOK, At
<1>f. "fetch" \in Handlers /\ Replayers \subseteq Handlers
    BY DEF Handlers
<1>o. DOMAIN commands \subseteq Operations
    BY <1>0 DEF TypeOK, JournalTypeOK
<1>s. /\ handler["fetch"].phase \in {"storing", "forwarded", "replied", "persisted",
                                    "deleting", "responding"}
             => handler["fetch"].op \in Operations
      /\ handler["fetch"].phase \in {"replied", "persisted", "deleting", "responding"}
             => handler["fetch"].reply \in Receipts \cup {NoReceipt}
      /\ handler["fetch"].phase = "responding" => handler["fetch"].reply \in Receipts
    <2>1. FetchOK /\ TypeOK /\ JournalTypeOK BY <1>0 DEF RuntimeInv, TypeOK
    <2>2. handler["fetch"].phase \in {"storing", "forwarded", "replied", "persisted",
                                      "deleting", "responding"}
             => handler["fetch"].op \in Operations
        BY <1>o, <2>1 DEF FetchOK, IsPending, Settled, Recorded
    <2>3. handler["fetch"].phase = "responding" => handler["fetch"].reply \in Receipts
      <3> SUFFICES ASSUME handler["fetch"].phase = "responding"
                   PROVE  handler["fetch"].reply \in Receipts
          OBVIOUS
      <3>1. /\ Settled(handler["fetch"].op)
            /\ commands[handler["fetch"].op].receipt = handler["fetch"].reply
          BY <2>1 DEF FetchOK
      <3>2. commands[handler["fetch"].op] \in Command
          BY <2>1, <3>1 DEF Settled, Recorded, JournalTypeOK
      <3>3. commands[handler["fetch"].op].receipt # NoReceipt
          BY <3>1 DEF RuntimeInv, JournalInv, ReceiptIffSettled, Settled, Recorded,
                      TerminalStatus
      <3> QED BY <3>1, <3>2, <3>3 DEF Command
    <2> QED BY <1>f, <1>h, <2>2, <2>3
<1>r. ASSUME ResetObject, UNCHANGED journalVars,
             interruptions' \in 0..MaxInterruptions
      PROVE  TypeOK'
  <2>1. handler' \in HandlerType
      BY <1>r DEF ResetObject, Idle, At, Phases
  <2>2. onDisk' \subseteq Operations
    <3>1. PICK late \in SUBSET {handler[h].op : h \in {g \in Handlers : InPhase(g, "forwarded")}} :
              onDisk' = onDisk \cup late
        BY <1>r DEF ResetObject
    <3>2. \A h \in Handlers : InPhase(h, "forwarded") => handler[h].op \in Operations
        BY <1>o, <1>s DEF InPhase, Handlers, RuntimeInv, ReplayerOK, Recorded
    <3>3. late \subseteq Operations
        BY <3>1, <3>2
    <3> QED BY <1>0, <3>1, <3>3 DEF TypeOK
  <2> QED BY <1>0, <1>r, <2>1, <2>2 DEF TypeOK, ResetObject
<1>i. Interrupts => interruptions' \in 0..MaxInterruptions
    BY <1>0 DEF TypeOK, Interrupts
<1>j. interruptions \in 0..MaxInterruptions
    BY <1>0 DEF TypeOK
<1>1. ASSUME NEW op \in Operations, NEW content \in Contents, FetchNew(op, content)
      PROVE  TypeOK'
  <2>1. handler' \in HandlerType
      BY <1>0, <1>1, <1>f, GoesMovesOne DEF FetchNew, FirstPhase, Phases
  <2> QED BY <1>0, <1>1, <2>1 DEF FetchNew, TypeOK
<1>2. ASSUME NEW op \in Operations, NEW content \in Contents, FetchConflict(op, content)
      PROVE  TypeOK'
    BY <1>2, <1>r, <1>i DEF FetchConflict
<1>3. ASSUME NEW op \in Operations, FetchRetry(op)
      PROVE  TypeOK'
  <2>1. handler' \in HandlerType
      BY <1>0, <1>3, <1>f, GoesMovesOne DEF FetchRetry, FirstPhase, Phases
  <2> QED BY <1>0, <1>3, <2>1 DEF FetchRetry, TypeOK
<1>4. ASSUME NEW op \in Operations, FetchSettled(op)
      PROVE  TypeOK'
  <2>1. commands[op].receipt \in Receipts
    <3>1. commands[op] \in Command /\ commands[op].receipt # NoReceipt
        BY <1>4 DEF FetchSettled, Settled, Recorded, RuntimeInv, JournalInv, JournalTypeOK,
                    ReceiptIffSettled, TerminalStatus
    <3> QED BY <3>1 DEF Command
  <2> QED BY <1>0, <1>4, <2>1 DEF FetchSettled, TypeOK
<1>5. CASE FetchStore
  <2>1. handler["fetch"].op \in Operations
      BY <1>5, <1>s DEF FetchStore, InPhase
  <2>2. handler' \in HandlerType
      BY <1>0, <1>5, <1>f, <2>1, GoesMovesOne DEF FetchStore, Phases
  <2> QED BY <1>0, <1>5, <2>1, <2>2 DEF FetchStore, TypeOK
<1>6. CASE FetchPersist
  <2>1. handler["fetch"].op \in Operations /\ handler["fetch"].reply \in Receipts \cup {NoReceipt}
      BY <1>6, <1>s DEF FetchPersist, InPhase
  <2>2. CASE ResetObject
      BY <1>6, <1>r, <1>j, <2>2 DEF FetchPersist
  <2>3. CASE /\ persisted' = persisted \cup {handler["fetch"].op}
             /\ Goes("fetch", "persisted", handler["fetch"].op, handler["fetch"].reply)
             /\ UNCHANGED <<todo, objects, session, onDisk, answers>>
    <3>1. handler' \in HandlerType
        BY <1>0, <1>f, <2>1, <2>3, GoesMovesOne DEF Phases
    <3> QED BY <1>0, <1>6, <2>1, <2>3, <3>1 DEF FetchPersist, TypeOK
  <2> QED BY <1>6, <2>2, <2>3 DEF FetchPersist
<1>7. CASE FetchFinalize
  <2>1. handler["fetch"].op \in Operations /\ handler["fetch"].reply \in Receipts \cup {NoReceipt}
      BY <1>7, <1>s DEF FetchFinalize, FetchReady, InPhase
  <2>2. handler' \in HandlerType
      BY <1>0, <1>7, <1>f, <2>1, GoesMovesOne DEF FetchFinalize, Phases
  <2> QED BY <1>0, <1>7, <2>2 DEF FetchFinalize, TypeOK
<1>8. CASE FetchFinalizeFails
  <2>1. CASE ResetObject
      BY <1>8, <1>r, <1>i, <2>1 DEF FetchFinalizeFails
  <2>2. CASE /\ Goes("fetch", "idle", NoOperation, NoReceipt)
             /\ UNCHANGED <<todo, objects, persisted, session, onDisk, answers>>
    <3>1. handler' \in HandlerType
        BY <1>0, <1>f, <2>2, GoesMovesOne DEF Phases
    <3> QED BY <1>0, <1>8, <1>i, <2>2, <3>1 DEF FetchFinalizeFails, TypeOK
  <2> QED BY <1>8, <2>1, <2>2 DEF FetchFinalizeFails
<1>9. CASE FetchDelete
  <2>1. handler["fetch"].op \in Operations /\ handler["fetch"].reply \in Receipts \cup {NoReceipt}
      BY <1>9, <1>s DEF FetchDelete, InPhase
  <2>2. handler' \in HandlerType
      BY <1>0, <1>9, <1>f, <2>1, GoesMovesOne DEF FetchDelete, Phases
  <2> QED BY <1>0, <1>9, <2>2 DEF FetchDelete, TypeOK
<1>10. CASE FetchRespond
  <2>1. handler["fetch"].op \in Operations /\ handler["fetch"].reply \in Receipts
      BY <1>10, <1>s DEF FetchRespond, InPhase
  <2>2. handler' \in HandlerType
      BY <1>0, <1>10, <1>f, GoesMovesOne DEF FetchRespond, Phases
  <2> QED BY <1>0, <1>10, <2>1, <2>2 DEF FetchRespond, TypeOK
<1>11. ASSUME NEW r \in Replayers, ReplayStart(r)
       PROVE  TypeOK'
  <2>1. handler' \in HandlerType
      BY <1>0, <1>11, <1>f, GoesMovesOne DEF ReplayStart, Phases
  <2>2. PendingCommands \subseteq Operations
      BY <1>o DEF PendingCommands
  <2> QED BY <1>0, <1>11, <2>1, <2>2 DEF ReplayStart, TypeOK
<1>12. ASSUME NEW r \in Replayers, ReplayForward(r)
       PROVE  TypeOK'
  <2>1. /\ todo[r] \subseteq DOMAIN commands
        /\ todo[r] # {}
      BY <1>12 DEF ReplayForward, RuntimeInv, ReplayerOK
  <2>2. First(todo[r]) \in Operations
      BY <1>o, <2>1, FirstIsLeast DEF RuntimeInv
  <2>3. handler' \in HandlerType
      BY <1>0, <1>12, <1>f, <2>2, GoesMovesOne DEF ReplayForward, Phases
  <2> QED BY <1>0, <1>12, <2>3 DEF ReplayForward, TypeOK
<1>13. ASSUME NEW r \in Replayers, ReplayEnd(r)
       PROVE  TypeOK'
  <2>1. handler' \in HandlerType
      BY <1>0, <1>13, <1>f, GoesMovesOne DEF ReplayEnd, Phases
  <2> QED BY <1>0, <1>13, <2>1 DEF ReplayEnd, TypeOK
<1>14. ASSUME NEW r \in Replayers, ReplayFinalize(r)
       PROVE  TypeOK'
  <2>1. handler' \in HandlerType
      BY <1>0, <1>14, <1>f, <1>h, GoesMovesOne DEF ReplayFinalize, Phases
  <2> QED BY <1>0, <1>14, <2>1 DEF ReplayFinalize, TypeOK
<1>15. ASSUME NEW r \in Replayers, ReplayDelete(r)
       PROVE  TypeOK'
  <2>1. handler' \in HandlerType
      BY <1>0, <1>15, <1>f, GoesMovesOne DEF ReplayDelete, Phases
  <2> QED BY <1>0, <1>15, <2>1 DEF ReplayDelete, TypeOK
<1>16. ASSUME NEW h \in Handlers, ContainerReplies(h)
       PROVE  TypeOK'
  <2>1. PICK receipt \in Receipts :
            /\ onDisk' = IF receipt \in Successful THEN onDisk \cup {handler[h].op} ELSE onDisk
            /\ Goes(h, "replied", handler[h].op, receipt)
      BY <1>16 DEF ContainerReplies
  <2>2. handler[h].op \in Operations
      BY <1>16, <1>o, <1>s DEF ContainerReplies, InPhase, Handlers, RuntimeInv, ReplayerOK,
                               Recorded
  <2>3. handler' \in HandlerType
      BY <1>0, <2>1, <2>2, GoesMovesOne DEF Phases
  <2> QED BY <1>0, <1>16, <2>1, <2>2, <2>3 DEF ContainerReplies, TypeOK
<1>17. ASSUME NEW h \in Handlers, ContainerFails(h)
       PROVE  TypeOK'
  <2>1. CASE ResetObject
      BY <1>17, <1>r, <1>i, <2>1 DEF ContainerFails
  <2>2. CASE /\ h \notin Gated
             /\ Goes(h, "idle", NoOperation, NoReceipt)
             /\ todo' = [todo EXCEPT ![h] = {}]
             /\ onDisk' \in {onDisk, onDisk \cup {handler[h].op}}
             /\ UNCHANGED <<objects, persisted, session, answers>>
    <3>1. handler' \in HandlerType
        BY <1>0, <2>2, GoesMovesOne DEF Phases
    <3>2. handler[h].op \in Operations
        BY <1>17, <1>o, <1>s DEF ContainerFails, InPhase, Handlers, RuntimeInv, ReplayerOK,
                                 Recorded
    <3> QED BY <1>0, <1>17, <1>i, <2>2, <3>1, <3>2 DEF ContainerFails, TypeOK
  <2> QED BY <1>17, <2>1, <2>2 DEF ContainerFails
<1>18. ASSUME NEW content \in SessionContents, SessionEnds(content)
       PROVE  TypeOK'
    BY <1>0, <1>18 DEF SessionEnds, TypeOK
<1>19. CASE ContainerLoss
    BY <1>0, <1>19, <1>i DEF ContainerLoss, TypeOK
<1>20. CASE Crash
    BY <1>20, <1>r, <1>i DEF Crash
<1> QED
    BY <1>1, <1>2, <1>3, <1>4, <1>5, <1>6, <1>7, <1>8, <1>9, <1>10, <1>11, <1>12, <1>13,
       <1>14, <1>15, <1>16, <1>17, <1>18, <1>19, <1>20
    DEF Next, FetchStep, ReplayStep

-----------------------------------------------------------------------------
\* A client request in progress still holds a pending command, or one settled
\* with its own receipt: every other finalize() waits for the gate.
LEMMA StepPreservesFetch ==
    ASSUME RuntimeInv, Next
    PROVE  FetchOK'
<1> USE RuntimeAssumption
<1>0. TypeOK /\ FetchOK /\ JournalInv
    BY DEF RuntimeInv
<1>f. "fetch" \in Handlers /\ (\A r \in Replayers : r \in Handlers /\ r # "fetch")
    BY DEF Handlers
<1>r. ASSUME ResetObject, UNCHANGED journalVars
      PROVE  FetchOK'
    BY <1>r, ResetIsClean
<1>k. ASSUME UNCHANGED <<journalVars, handler>>
      PROVE  FetchOK'
    BY <1>0, <1>k, FetchUndisturbed
<1>1. ASSUME NEW op \in Operations, NEW content \in Contents, FetchNew(op, content)
      PROVE  FetchOK'
  <2>1. handler'["fetch"] = At(FirstPhase(content), op, NoReceipt)
      BY <1>0, <1>1, <1>f, GoesMovesOne DEF FetchNew
  <2>2. IsPending(op)'
      BY <1>1 DEF FetchNew, PrepareNew, Put, IsPending, Recorded
  <2> QED BY <2>1, <2>2 DEF FetchOK, At, FirstPhase
<1>2. ASSUME NEW op \in Operations, NEW content \in Contents, FetchConflict(op, content)
      PROVE  FetchOK'
    BY <1>2, <1>r DEF FetchConflict
<1>3. ASSUME NEW op \in Operations, FetchRetry(op)
      PROVE  FetchOK'
  <2>1. handler'["fetch"] = At(FirstPhase(commands[op].content), op, NoReceipt)
      BY <1>0, <1>3, <1>f, GoesMovesOne DEF FetchRetry
  <2>2. IsPending(op)'
      BY <1>3 DEF FetchRetry, IsPending, Recorded, journalVars
  <2> QED BY <2>1, <2>2 DEF FetchOK, At, FirstPhase
<1>4. ASSUME NEW op \in Operations, FetchSettled(op)
      PROVE  FetchOK'
    BY <1>4, <1>k DEF FetchSettled
<1>5. CASE FetchStore
  <2>1. handler'["fetch"] = At("forwarded", handler["fetch"].op, NoReceipt)
      BY <1>0, <1>5, <1>f, GoesMovesOne DEF FetchStore
  <2> QED BY <1>0, <1>5, <2>1 DEF FetchStore, FetchOK, At, InPhase, IsPending, Recorded,
                                  journalVars
<1>6. CASE FetchPersist
  <2>1. CASE ResetObject
      BY <1>6, <1>r, <2>1 DEF FetchPersist
  <2>2. CASE Goes("fetch", "persisted", handler["fetch"].op, handler["fetch"].reply)
    <3>1. handler'["fetch"] = At("persisted", handler["fetch"].op, handler["fetch"].reply)
        BY <1>0, <2>2, <1>f, GoesMovesOne
    <3> QED BY <1>0, <1>6, <3>1 DEF FetchPersist, FetchOK, At, InPhase, IsPending, Recorded,
                                    journalVars
  <2> QED BY <1>6, <2>1, <2>2 DEF FetchPersist
<1>7. CASE FetchFinalize
  <2>0. PICK op, reply : op = handler["fetch"].op /\ reply = handler["fetch"].reply
      OBVIOUS
  <2>1. \/ handler'["fetch"] = At("deleting", op, reply)
        \/ handler'["fetch"] = At("responding", op, reply)
      BY <1>0, <1>7, <1>f, <2>0, GoesMovesOne DEF FetchFinalize
  <2>2. IsPending(op)
      BY <1>0, <1>7, <2>0 DEF FetchFinalize, FetchReady, FetchOK, InPhase
  <2>3. Settled(op)' /\ commands'[op].receipt = reply
    <3>1. commands' = [commands EXCEPT ![op].status = Terminal(reply),
                                       ![op].receipt = reply]
      <4>1. ~Settled(op)
          BY <2>2 DEF IsPending, Settled, TerminalStatus
      <4> QED BY <1>7, <2>0, <4>1 DEF FetchFinalize, Finalize
    <3>2. op \in DOMAIN commands /\ commands[op] \in Command
        BY <1>0, <2>2 DEF IsPending, Recorded, JournalInv, JournalTypeOK
    <3>3. Terminal(reply) \in TerminalStatus
        BY DEF Terminal, TerminalStatus
    <3> QED BY <3>1, <3>2, <3>3 DEF Settled, Recorded, Command
  <2> QED BY <2>1, <2>3 DEF FetchOK, At
<1>8. CASE FetchFinalizeFails
  <2>1. CASE ResetObject
      BY <1>8, <1>r, <2>1 DEF FetchFinalizeFails
  <2>2. CASE Goes("fetch", "idle", NoOperation, NoReceipt)
    <3>1. handler'["fetch"] = Idle
        BY <1>0, <2>2, <1>f, GoesMovesOne DEF Idle
    <3> QED BY <3>1 DEF FetchOK, Idle, At
  <2> QED BY <1>8, <2>1, <2>2 DEF FetchFinalizeFails
<1>9. CASE FetchDelete
  <2>1. handler'["fetch"] = At("responding", handler["fetch"].op, handler["fetch"].reply)
      BY <1>0, <1>9, <1>f, GoesMovesOne DEF FetchDelete
  <2> QED BY <1>0, <1>9, <2>1 DEF FetchDelete, FetchOK, At, InPhase, Settled, Recorded,
                                  journalVars
<1>10. CASE FetchRespond
  <2>1. handler'["fetch"] = Idle
      BY <1>0, <1>10, <1>f, GoesMovesOne DEF FetchRespond, Idle
  <2> QED BY <2>1 DEF FetchOK, Idle, At
<1>11. ASSUME NEW r \in Replayers,
              ReplayStart(r) \/ ReplayForward(r) \/ ReplayEnd(r) \/ ReplayDelete(r)
       PROVE  FetchOK'
  <2>1. handler'["fetch"] = handler["fetch"]
      BY <1>0, <1>11, <1>f, GoesMovesOne
      DEF ReplayStart, ReplayForward, ReplayEnd, ReplayDelete
  <2>2. UNCHANGED journalVars
      BY <1>11 DEF ReplayStart, ReplayForward, ReplayEnd, ReplayDelete
  <2> QED BY <1>0, <2>1, <2>2, FetchUndisturbed
<1>12. ASSUME NEW r \in Replayers, ReplayFinalize(r)
       PROVE  FetchOK'
  <2>1. handler'["fetch"] = handler["fetch"]
      BY <1>0, <1>12, <1>f, GoesMovesOne DEF ReplayFinalize
  <2>2. handler["fetch"].phase = "idle"
      BY <1>12, <1>f DEF ReplayFinalize, GateOpen, Gated
  <2> QED BY <2>1, <2>2 DEF FetchOK
<1>13. ASSUME NEW h \in Handlers, ContainerReplies(h)
       PROVE  FetchOK'
  <2>1. PICK receipt \in Receipts : Goes(h, "replied", handler[h].op, receipt)
      BY <1>13 DEF ContainerReplies
  <2>2. UNCHANGED journalVars
      BY <1>13 DEF ContainerReplies
  <2>3. CASE h = "fetch"
    <3>1. handler'["fetch"] = At("replied", handler["fetch"].op, receipt)
        BY <1>0, <1>f, <2>1, <2>3, GoesMovesOne
    <3> QED BY <1>0, <1>13, <2>2, <2>3, <3>1
            DEF ContainerReplies, FetchOK, At, InPhase, IsPending, Recorded, journalVars
  <2>4. CASE h # "fetch"
    <3>1. handler'["fetch"] = handler["fetch"]
        BY <1>0, <1>f, <2>1, <2>4, GoesMovesOne
    <3> QED BY <1>0, <2>2, <3>1, FetchUndisturbed
  <2> QED BY <2>3, <2>4
<1>14. ASSUME NEW h \in Handlers, ContainerFails(h)
       PROVE  FetchOK'
  <2>1. CASE ResetObject
      BY <1>14, <1>r, <2>1 DEF ContainerFails
  <2>2. CASE h \notin Gated /\ Goes(h, "idle", NoOperation, NoReceipt)
    <3>1. handler'["fetch"] = handler["fetch"]
        BY <1>0, <1>f, <2>2, GoesMovesOne DEF Gated
    <3> QED BY <1>0, <1>14, <3>1, FetchUndisturbed DEF ContainerFails
  <2> QED BY <1>14, <2>1, <2>2 DEF ContainerFails
<1>15. ASSUME NEW content \in SessionContents, SessionEnds(content)
       PROVE  FetchOK'
    BY <1>15, <1>k DEF SessionEnds
<1>16. CASE ContainerLoss
    BY <1>16, <1>k DEF ContainerLoss
<1>17. CASE Crash
    BY <1>17, <1>r DEF Crash
<1> QED
    BY <1>1, <1>2, <1>3, <1>4, <1>5, <1>6, <1>7, <1>8, <1>9, <1>10, <1>11, <1>12, <1>13,
       <1>14, <1>15, <1>16, <1>17
    DEF Next, FetchStep, ReplayStep

\* What each replay knows survives every step, its own and the others'.
LEMMA StepPreservesReplayers ==
    ASSUME RuntimeInv, Next, NEW r \in Replayers
    PROVE  ReplayerOK(r)'
<1> USE RuntimeAssumption
<1>0. TypeOK /\ ReplayerOK(r) /\ JournalInv
    BY DEF RuntimeInv
<1>f. "fetch" \in Handlers /\ r \in Handlers /\ r # "fetch"
    BY DEF Handlers
<1>r. ASSUME ResetObject, UNCHANGED journalVars
      PROVE  ReplayerOK(r)'
    BY <1>r, ResetIsClean
<1>k. ASSUME handler'[r] = handler[r], todo'[r] = todo[r]
      PROVE  ReplayerOK(r)'
    BY <1>k, ReplayerUndisturbed
<1>1. ASSUME FetchStore \/ FetchDelete \/ FetchRespond \/ FetchFinalize
      PROVE  ReplayerOK(r)'
    BY <1>0, <1>1, <1>f, <1>k, GoesMovesOne
    DEF FetchStore, FetchDelete, FetchRespond, FetchFinalize
<1>2. ASSUME NEW op \in Operations, NEW content \in Contents, FetchNew(op, content)
      PROVE  ReplayerOK(r)'
    BY <1>0, <1>2, <1>f, <1>k, GoesMovesOne DEF FetchNew
<1>3. ASSUME NEW op \in Operations, FetchRetry(op) \/ FetchSettled(op)
      PROVE  ReplayerOK(r)'
    BY <1>0, <1>3, <1>f, <1>k, GoesMovesOne DEF FetchRetry, FetchSettled
<1>4. ASSUME NEW op \in Operations, NEW content \in Contents, FetchConflict(op, content)
      PROVE  ReplayerOK(r)'
    BY <1>4, <1>r DEF FetchConflict
<1>5. CASE FetchPersist
  <2>1. CASE ResetObject
      BY <1>5, <1>r, <2>1 DEF FetchPersist
  <2>2. CASE /\ Goes("fetch", "persisted", handler["fetch"].op, handler["fetch"].reply)
             /\ UNCHANGED todo
      BY <1>0, <1>f, <1>k, <2>2, GoesMovesOne
  <2> QED BY <1>5, <2>1, <2>2 DEF FetchPersist
<1>6. CASE FetchFinalizeFails
  <2>1. CASE ResetObject
      BY <1>6, <1>r, <2>1 DEF FetchFinalizeFails
  <2>2. CASE Goes("fetch", "idle", NoOperation, NoReceipt) /\ UNCHANGED todo
      BY <1>0, <1>f, <1>k, <2>2, GoesMovesOne
  <2> QED BY <1>6, <2>1, <2>2 DEF FetchFinalizeFails
<1>7. ASSUME NEW g \in Replayers, ReplayStart(g)
      PROVE  ReplayerOK(r)'
  <2>1. CASE g = r
    <3>1. /\ handler'[r] = At("choosing", NoOperation, NoReceipt)
          /\ todo'[r] = PendingCommands
          /\ commands' = commands
        BY <1>0, <1>7, <1>f, <2>1, GoesMovesOne DEF ReplayStart, TypeOK, journalVars
    <3> QED BY <3>1 DEF ReplayerOK, SnapshotMissesNothing, InPhase, At, PendingCommands,
                        IsPending, Recorded
  <2>2. CASE g # r
      BY <1>0, <1>7, <1>f, <1>k, <2>2, GoesMovesOne DEF ReplayStart, Handlers
  <2> QED BY <2>1, <2>2
<1>8. ASSUME NEW g \in Replayers, ReplayForward(g)
      PROVE  ReplayerOK(r)'
  <2>1. CASE g = r
    <3>0. PICK op : op = First(todo[r])
        OBVIOUS
    <3>1. /\ handler'[r] = At("forwarded", op, NoReceipt)
          /\ todo'[r] = todo[r] \ {op}
          /\ commands' = commands
        BY <1>0, <1>8, <1>f, <2>1, <3>0, GoesMovesOne DEF ReplayForward, TypeOK, journalVars
    <3>2. /\ todo[r] \subseteq DOMAIN commands
          /\ ~InPhase(r, "forwarded") /\ ~InPhase(r, "replied")
          /\ SnapshotMissesNothing(r)
        BY <1>0, <1>8, <2>1 DEF ReplayForward, InPhase, ReplayerOK
    <3>3. op \in DOMAIN commands
        BY <1>0, <1>8, <2>1, <3>0, <3>2, FirstIsLeast DEF ReplayForward
    <3>4. SnapshotMissesNothing(r)'
      <4> SUFFICES ASSUME NEW o \in todo'[r], NEW earlier \in DOMAIN commands',
                          IsPending(earlier)',
                          commands'[earlier].sequence < commands'[o].sequence,
                          earlier # op
                   PROVE  earlier \in todo'[r]
          BY <3>1 DEF SnapshotMissesNothing, InPhase, At
      <4>1. IsPending(earlier) /\ earlier \in DOMAIN commands /\ o \in todo[r]
          BY <3>1 DEF IsPending, Recorded
      <4>2. earlier \in todo[r]
          BY <3>1, <3>2, <4>1 DEF SnapshotMissesNothing
      <4> QED BY <3>1, <4>2
    <3>5. (todo[r] \subseteq DOMAIN commands)'
        BY <3>1, <3>2
    <3>6. handler'[r].phase = "forwarded" /\ handler'[r].op = op
        BY <3>1 DEF At
    <3>7. Recorded(handler[r].op)'
        BY <3>1, <3>3, <3>6 DEF Recorded
    <3> QED BY <3>4, <3>5, <3>6, <3>7 DEF ReplayerOK, InPhase
  <2>2. CASE g # r
    <3>1. /\ Goes(g, "forwarded", First(todo[g]), NoReceipt)
          /\ todo' = [todo EXCEPT ![g] = @ \ {First(todo[g])}]
        BY <1>8 DEF ReplayForward
    <3>2. handler'[r] = handler[r]
        BY <1>0, <1>f, <2>2, <3>1, GoesMovesOne DEF Handlers
    <3>3. todo'[r] = todo[r]
        BY <1>0, <2>2, <3>1 DEF TypeOK
    <3> QED BY <1>k, <3>2, <3>3
  <2> QED BY <2>1, <2>2
<1>9. ASSUME NEW g \in Replayers, ReplayEnd(g)
      PROVE  ReplayerOK(r)'
  <2>1. CASE g = r
    <3>1. handler'[r] = Idle /\ todo'[r] = {}
        BY <1>0, <1>9, <1>f, <2>1, GoesMovesOne DEF ReplayEnd, TypeOK, Idle
    <3> QED BY <3>1 DEF ReplayerOK, SnapshotMissesNothing, InPhase, Idle, At
  <2>2. CASE g # r
      BY <1>0, <1>9, <1>f, <1>k, <2>2, GoesMovesOne DEF ReplayEnd, Handlers
  <2> QED BY <2>1, <2>2
<1>10. ASSUME NEW g \in Replayers, ReplayDelete(g)
       PROVE  ReplayerOK(r)'
  <2>1. CASE g = r
    <3>1. /\ handler'[r] = At("choosing", NoOperation, NoReceipt)
          /\ todo' = todo
          /\ commands' = commands
        BY <1>0, <1>10, <1>f, <2>1, GoesMovesOne DEF ReplayDelete, journalVars
    <3>2. todo[r] \subseteq DOMAIN commands /\ SnapshotMissesNothing(r) /\ InPhase(r, "deleting")
        BY <1>0, <1>10, <2>1 DEF ReplayDelete, ReplayerOK
    <3> QED BY <3>1, <3>2
            DEF ReplayerOK, SnapshotMissesNothing, InPhase, At, IsPending, Recorded
  <2>2. CASE g # r
      BY <1>0, <1>10, <1>f, <1>k, <2>2, GoesMovesOne DEF ReplayDelete, Handlers
  <2> QED BY <2>1, <2>2
<1>11. ASSUME NEW g \in Replayers, ReplayFinalize(g)
       PROVE  ReplayerOK(r)'
  <2>1. CASE g = r
    <3>0. PICK op : op = handler[r].op
        OBVIOUS
    <3>1. /\ \/ handler'[r] = At("deleting", op, handler[r].reply)
             \/ handler'[r] = At("choosing", NoOperation, NoReceipt)
          /\ todo' = todo
        BY <1>0, <1>11, <1>f, <2>1, <3>0, GoesMovesOne DEF ReplayFinalize
    <3>2. op \in DOMAIN commands /\ InPhase(r, "replied")
        BY <1>0, <1>11, <2>1, <3>0 DEF ReplayFinalize, ReplayerOK, InPhase, Recorded
    <3>3. Settled(op)'
      <4>1. Finalize(op, Terminal(handler[r].reply), handler[r].reply)
          BY <1>11, <2>1, <3>0 DEF ReplayFinalize
      <4>2. Terminal(handler[r].reply) \in TerminalStatus
          BY DEF Terminal, TerminalStatus
      <4>3. commands[op] \in Command
          BY <1>0, <3>2 DEF JournalInv, JournalTypeOK
      <4>4. CASE Settled(op) /\ UNCHANGED journalVars
          BY <4>4 DEF Settled, Recorded, journalVars
      <4>5. CASE commands' = [commands EXCEPT ![op].status = Terminal(handler[r].reply),
                                              ![op].receipt = handler[r].reply]
          BY <3>2, <4>2, <4>3, <4>5 DEF Settled, Recorded, Command
      <4> QED BY <4>1, <4>4, <4>5 DEF Finalize
    <3>4. /\ SettledIsFinalStep
          /\ DOMAIN commands' = DOMAIN commands
          /\ \A o \in DOMAIN commands : IsPending(o)' => IsPending(o)
      <4>1. SettledIsFinalStep
          BY StepKeepsJournal
      <4>2. Finalize(op, Terminal(handler[r].reply), handler[r].reply)
          BY <1>11, <2>1, <3>0 DEF ReplayFinalize
      <4>3. DOMAIN commands' = DOMAIN commands
          BY <4>2 DEF Finalize, journalVars
      <4>4. ASSUME NEW o \in DOMAIN commands, IsPending(o)' PROVE IsPending(o)
        <5>1. ~Settled(o)
            BY <4>4, SettledStays DEF IsPending, Settled, TerminalStatus
        <5>2. commands[o] \in Command
            BY <1>0 DEF JournalInv, JournalTypeOK
        <5> QED BY <5>1, <5>2 DEF IsPending, Settled, Recorded, Command
      <4> QED BY <4>1, <4>3, <4>4
    <3>5. todo[r] \subseteq DOMAIN commands /\ SnapshotMissesNothing(r)
        BY <1>0 DEF ReplayerOK
    <3>6. SnapshotMissesNothing(r)'
      <4> SUFFICES ASSUME NEW o \in todo'[r], NEW earlier \in DOMAIN commands',
                          IsPending(earlier)',
                          commands'[earlier].sequence < commands'[o].sequence
                   PROVE  earlier \in todo'[r]
          BY DEF SnapshotMissesNothing
      <4>1. /\ IsPending(earlier)
            /\ commands[earlier].sequence < commands[o].sequence
          BY <3>1, <3>4, <3>5 DEF SettledIsFinalStep
      <4>2. earlier # op
          BY <3>3 DEF IsPending, Settled, TerminalStatus
      <4>3. /\ ~InPhase(r, "forwarded")
            /\ handler[r].op # earlier
          BY <3>0, <3>2, <4>2 DEF InPhase
      <4> QED BY <3>1, <3>4, <3>5, <4>1, <4>3 DEF SnapshotMissesNothing
    <3> QED BY <3>1, <3>2, <3>3, <3>4, <3>5, <3>6 DEF ReplayerOK, InPhase, At, Recorded
  <2>2. CASE g # r
      BY <1>0, <1>11, <1>f, <1>k, <2>2, GoesMovesOne DEF ReplayFinalize, Handlers
  <2> QED BY <2>1, <2>2
<1>12. ASSUME NEW h \in Handlers, ContainerReplies(h)
       PROVE  ReplayerOK(r)'
  <2>1. PICK receipt \in Receipts : Goes(h, "replied", handler[h].op, receipt)
      BY <1>12 DEF ContainerReplies
  <2>2. UNCHANGED <<commands, todo>> /\ InPhase(h, "forwarded")
      BY <1>12 DEF ContainerReplies, journalVars
  <2>3. CASE h = r
    <3>1. handler'[r] = At("replied", handler[r].op, receipt)
        BY <1>0, <1>f, <2>1, <2>3, GoesMovesOne
    <3> QED BY <1>0, <2>2, <2>3, <3>1
            DEF ReplayerOK, SnapshotMissesNothing, InPhase, At, IsPending, Recorded
  <2>4. CASE h # r
      BY <1>0, <1>f, <1>k, <2>1, <2>2, <2>4, GoesMovesOne
  <2> QED BY <2>3, <2>4
<1>13. ASSUME NEW h \in Handlers, ContainerFails(h)
       PROVE  ReplayerOK(r)'
  <2>1. CASE ResetObject
      BY <1>13, <1>r, <2>1 DEF ContainerFails
  <2>2. CASE /\ h \notin Gated
             /\ Goes(h, "idle", NoOperation, NoReceipt)
             /\ todo' = [todo EXCEPT ![h] = {}]
    <3>1. CASE h = r
      <4>1. handler'[r] = Idle /\ todo'[r] = {}
          BY <1>0, <1>f, <2>2, <3>1, GoesMovesOne DEF TypeOK, Idle
      <4> QED BY <4>1 DEF ReplayerOK, SnapshotMissesNothing, InPhase, Idle, At
    <3>2. CASE h # r
        BY <1>0, <1>f, <1>k, <2>2, <3>2, GoesMovesOne
    <3> QED BY <3>1, <3>2
  <2> QED BY <1>13, <2>1, <2>2 DEF ContainerFails
<1>14. ASSUME NEW content \in SessionContents, SessionEnds(content)
       PROVE  ReplayerOK(r)'
    BY <1>14, <1>k DEF SessionEnds
<1>15. CASE ContainerLoss
    BY <1>15, <1>k DEF ContainerLoss
<1>16. CASE Crash
    BY <1>16, <1>r DEF Crash
<1> QED
    BY <1>1, <1>2, <1>3, <1>4, <1>5, <1>6, <1>7, <1>8, <1>9, <1>10, <1>11, <1>12, <1>13,
       <1>14, <1>15, <1>16
    DEF Next, FetchStep, ReplayStep

-----------------------------------------------------------------------------
\* What clients were told stays the journal's receipt: a step either leaves the
\* answers alone, and settled commands do not change, or answers a receipt that
\* is in the journal.
LEMMA StepPreservesAnswers ==
    ASSUME RuntimeInv, Next
    PROVE  AnswersAreDurable'
<1>0. TypeOK /\ FetchOK /\ AnswersAreDurable
    BY DEF RuntimeInv
<1>k. ASSUME UNCHANGED answers
      PROVE  AnswersAreDurable'
    BY <1>0, <1>k, SettledStays DEF AnswersAreDurable
<1>a. ASSUME NEW op \in Operations, NEW receipt,
             answers' = [answers EXCEPT ![op] = @ \cup {receipt}],
             Settled(op), commands[op].receipt = receipt
      PROVE  AnswersAreDurable'
  <2> SUFFICES ASSUME NEW o \in Operations, answers'[o] # {}
               PROVE  Settled(o)' /\ answers'[o] = {commands'[o].receipt}
      BY DEF AnswersAreDurable
  <2>1. CASE o = op
    <3>1. answers'[op] = answers[op] \cup {receipt}
        BY <1>0, <1>a DEF TypeOK
    <3>2. answers[op] \subseteq {receipt}
        BY <1>0, <1>a DEF AnswersAreDurable
    <3>3. Settled(op)' /\ commands'[op] = commands[op]
        BY <1>a, SettledStays
    <3> QED BY <1>a, <2>1, <3>1, <3>2, <3>3
  <2>2. CASE o # op
    <3>1. answers'[o] = answers[o]
        BY <1>0, <1>a, <2>2 DEF TypeOK
    <3>2. Settled(o) /\ answers[o] = {commands[o].receipt}
        BY <1>0, <3>1 DEF AnswersAreDurable
    <3> QED BY <3>1, <3>2, SettledStays
  <2> QED BY <2>1, <2>2
<1>1. ASSUME NEW op \in Operations, FetchSettled(op)
      PROVE  AnswersAreDurable'
    BY <1>1, <1>a DEF FetchSettled
<1>2. CASE FetchRespond
  <2>1. PICK op, receipt : op = handler["fetch"].op /\ receipt = handler["fetch"].reply
      OBVIOUS
  <2>2. Settled(op) /\ commands[op].receipt = receipt
      BY <1>0, <1>2, <2>1 DEF FetchRespond, InPhase, FetchOK
  <2>3. op \in Operations
      BY <1>0, <2>2 DEF Settled, Recorded, TypeOK, JournalTypeOK
  <2>4. answers' = [answers EXCEPT ![op] = @ \cup {receipt}]
      BY <1>2, <2>1 DEF FetchRespond
  <2> QED BY <1>a, <2>2, <2>3, <2>4
<1>3. ASSUME ResetObject PROVE AnswersAreDurable'
    BY <1>3, <1>k DEF ResetObject
<1> QED
    BY <1>1, <1>2, <1>3, <1>k
    DEF Next, FetchStep, ReplayStep, FetchNew, FetchRetry, FetchConflict, FetchStore,
        FetchPersist, FetchFinalize, FetchFinalizeFails, FetchDelete, ReplayStart,
        ReplayForward, ReplayEnd, ReplayFinalize, ReplayDelete, ContainerReplies,
        ContainerFails, SessionEnds, ContainerLoss, Crash

\* The runtime starts with an empty journal and nothing in progress.
LEMMA InitEstablishesRuntimeInv == Init => RuntimeInv
<1> SUFFICES ASSUME Init PROVE RuntimeInv
    OBVIOUS
<1> USE RuntimeAssumption
<1>1. JournalInv
    BY InitEstablishesJournalInv DEF Init
<1>2. TypeOK
    BY <1>1 DEF Init, TypeOK, JournalInv, Idle, At, Phases
<1>3. FetchOK
    BY DEF Init, FetchOK, Idle, At, Handlers
<1>4. ASSUME NEW r \in Replayers PROVE ReplayerOK(r)
    BY <1>4, IdleReplayerOK DEF Init, Handlers
<1>5. AnswersAreDurable
    BY DEF Init, AnswersAreDurable
<1> QED BY <1>1, <1>2, <1>3, <1>4, <1>5 DEF RuntimeInv

\* No step of the runtime breaks the invariant.
LEMMA StepPreservesRuntimeInv == RuntimeInv /\ [Next]_vars => RuntimeInv'
<1> SUFFICES ASSUME RuntimeInv, [Next]_vars PROVE RuntimeInv'
    OBVIOUS
<1>1. CASE Next
    BY <1>1, StepKeepsJournal, StepPreservesType, StepPreservesFetch,
       StepPreservesReplayers, StepPreservesAnswers
    DEF RuntimeInv
<1>2. CASE UNCHANGED vars
  <2>1. UNCHANGED <<journalVars, handler, todo>> /\ UNCHANGED answers
      BY <1>2 DEF vars, runtimeVars
  <2>2. TypeOK'
      BY <1>2, StepKeepsJournal DEF vars, runtimeVars, RuntimeInv, TypeOK, JournalInv
  <2>3. FetchOK'
      BY <2>1, FetchUndisturbed DEF RuntimeInv
  <2>4. ASSUME NEW r \in Replayers PROVE ReplayerOK(r)'
      BY <2>1, ReplayerUndisturbed
  <2>5. AnswersAreDurable'
      BY <2>1, SettledStays DEF RuntimeInv, AnswersAreDurable
  <2> QED BY <2>2, <2>3, <2>4, <2>5, StepKeepsJournal DEF RuntimeInv
<1> QED BY <1>1, <1>2

\* The invariant of the tenant runtime, of which the properties below are parts
\* or consequences.
THEOREM RuntimeInvariant == Spec => []RuntimeInv
<1> QED BY InitEstablishesRuntimeInv, StepPreservesRuntimeInv, PTL DEF Spec

\* Every variable of the Durable Object, its handlers and R2 has its type.
THEOREM RuntimeTypeCorrect == Spec => []TypeOK
<1>1. RuntimeInv => TypeOK BY DEF RuntimeInv
<1> QED BY <1>1, RuntimeInvariant, PTL

\* fetch() tells every client of an operation the one receipt the journal holds
\* for it, whatever replays, crashes and Container failures come between.
THEOREM AnswersAreTheReceipt == Spec => []AnswersAreDurable
<1>1. RuntimeInv => AnswersAreDurable BY DEF RuntimeInv
<1> QED BY <1>1, RuntimeInvariant, PTL

\* The runtime uses the journal as prepare() and finalize() specify it, so what
\* is proved of the journal alone holds in it.
THEOREM RuntimeImplementsJournal == Spec => JournalSpec
<1>1. Init => JournalInit
    BY DEF Init
<1>2. RuntimeInv /\ [Next]_vars => [JournalNext]_journalVars
    BY StepIsJournalStep
<1> QED BY <1>1, <1>2, RuntimeInvariant, PTL DEF Spec, JournalSpec

\* The high-water mark the Durable Object stores is exact with every handler
\* running.
THEOREM RuntimeMarkIsExact == Spec => []HighWaterExact
<1> QED BY RuntimeImplementsJournal, HighWaterMarkIsExact, PTL

\* replayPending() forwards a command only when all journaled before it are
\* settled: nothing unresolved is missing from its snapshot, and it takes the
\* snapshot in order.
THEOREM ReplaysFollowTheJournal == Spec => ReplayInOrder
<1> DEFINE InOrder ==
        \A r \in Replayers, op \in Operations : Forwards(r, op) =>
            \A earlier \in DOMAIN commands :
                commands[earlier].sequence < commands[op].sequence => Settled(earlier)
<1>1. RuntimeInv /\ [Next]_vars => [InOrder]_vars
  <2> SUFFICES ASSUME RuntimeInv, Next,
                      NEW r \in Replayers, NEW op \in Operations, Forwards(r, op),
                      NEW earlier \in DOMAIN commands,
                      commands[earlier].sequence < commands[op].sequence
               PROVE  Settled(earlier)
      OBVIOUS
  <2>0. TypeOK /\ ReplayerOK(r) /\ r \in Handlers /\ r # "fetch" /\ "fetch" \in Handlers
      BY RuntimeAssumption DEF RuntimeInv, Handlers
  <2>1. ReplayForward(r)
    <3>1. /\ handler[r].phase # "forwarded"
          /\ handler'[r].phase = "forwarded"
        BY DEF Forwards
    <3>2. handler'[r] # handler[r]
        BY <3>1
    <3>r. ~ResetObject
        BY <2>0, <3>1 DEF ResetObject, Idle, At
    <3>g. ASSUME NEW h \in Handlers, NEW phase, NEW o, NEW reply, Goes(h, phase, o, reply)
          PROVE  h = r /\ phase = "forwarded"
      <4>1. h = r
          BY <2>0, <3>2, <3>g, GoesMovesOne
      <4>2. handler'[r] = At(phase, o, reply)
          BY <2>0, <3>g, <4>1, GoesMovesOne
      <4> QED BY <3>1, <4>1, <4>2 DEF At
    <3>f. ASSUME NEW phase, NEW o, NEW reply, Goes("fetch", phase, o, reply)
          PROVE  FALSE
        BY <2>0, <3>f, <3>g
    <3>3. ~FetchStep /\ ~FetchFinalizeFails
        BY <3>f, <3>r DEF FetchStep, FetchStore, FetchPersist, FetchFinalize, FetchDelete,
                          FetchRespond, FetchFinalizeFails
    <3>4. ASSUME NEW o \in Operations, NEW content \in Contents
          PROVE  ~FetchNew(o, content) /\ ~FetchConflict(o, content)
        BY <3>f, <3>r DEF FetchNew, FetchConflict
    <3>5. ASSUME NEW o \in Operations
          PROVE  ~FetchRetry(o) /\ ~FetchSettled(o)
        BY <3>2, <3>f DEF FetchRetry, FetchSettled
    <3>6. ASSUME NEW h \in Handlers
          PROVE  ~ContainerReplies(h) /\ ~ContainerFails(h)
        BY <3>g, <3>r, <3>1 DEF ContainerReplies, ContainerFails
    <3>7. ASSUME NEW content \in SessionContents
          PROVE  ~SessionEnds(content)
        BY <3>2 DEF SessionEnds
    <3>8. ~ContainerLoss /\ ~Crash
        BY <3>2, <3>r DEF ContainerLoss, Crash
    <3>9. PICK g \in Replayers : ReplayStart(g) \/ ReplayStep(g)
        BY <3>3, <3>4, <3>5, <3>6, <3>7, <3>8 DEF Next
    <3>10. g \in Handlers
        BY DEF Handlers
    <3>11. ~ReplayStart(g) /\ ~ReplayEnd(g) /\ ~ReplayFinalize(g) /\ ~ReplayDelete(g)
        BY <3>g, <3>10 DEF ReplayStart, ReplayEnd, ReplayFinalize, ReplayDelete
    <3>12. ReplayForward(g)
        BY <3>9, <3>11 DEF ReplayStep
    <3>13. g = r
        BY <3>g, <3>10, <3>12 DEF ReplayForward
    <3> QED BY <3>12, <3>13
  <2>2. /\ op = First(todo[r])
        /\ InPhase(r, "choosing")
        /\ todo[r] # {}
    <3>1. handler'[r] = At("forwarded", First(todo[r]), NoReceipt)
        BY <2>0, <2>1, GoesMovesOne DEF ReplayForward
    <3> QED BY <2>1, <3>1 DEF ReplayForward, Forwards, At
  <2>3. /\ op \in todo[r]
        /\ \A other \in todo[r] : commands[op].sequence <= commands[other].sequence
        /\ op \in DOMAIN commands
      BY <2>0, <2>2, FirstIsLeast DEF ReplayerOK, RuntimeInv
  <2>4. commands[op].sequence \in Nat /\ commands[earlier] \in Command
      BY <2>3 DEF RuntimeInv, JournalInv, JournalTypeOK, Command
  <2>5. earlier \notin todo[r]
      BY <2>3, <2>4 DEF Command
  <2>6. ~IsPending(earlier)
      BY <2>0, <2>2, <2>3, <2>5 DEF ReplayerOK, SnapshotMissesNothing, InPhase
  <2> QED BY <2>4, <2>6 DEF IsPending, Settled, Recorded, Command
<1> QED BY <1>1, RuntimeInvariant, PTL DEF Spec, ReplayInOrder

-----------------------------------------------------------------------------
\* A new operation is accepted undecided.
LEMMA PrepareAccepts ==
    ASSUME RuntimeInv, NEW op \in Operations, NEW content \in Contents,
           PrepareNew(op, content), UNCHANGED answers
    PROVE  Contract!Accept(op)
<1>1. /\ op \notin DOMAIN commands
      /\ DOMAIN commands' = DOMAIN commands \cup {op}
      /\ commands'[op].receipt = NoReceipt
      /\ \A o \in DOMAIN commands : commands'[o] = commands[o]
    BY DEF PrepareNew, Recorded, Put
<1>2. JournaledOutcome' = JournaledOutcome
    BY <1>1 DEF JournaledOutcome, Recorded
<1> QED BY <1>1, <1>2 DEF Contract!Accept

\* finalize() decides an operation, or has nothing left to decide.
LEMMA FinalizeDecides ==
    ASSUME RuntimeInv, NEW op \in Operations, NEW status \in TerminalStatus,
           NEW receipt \in Receipts, Finalize(op, status, receipt), UNCHANGED answers
    PROVE  [Contract!Next]_(Contract!outcomeVars)
<1>1. CASE Settled(op) /\ UNCHANGED journalVars
    BY <1>1 DEF journalVars, Contract!outcomeVars, JournaledOutcome, Recorded
<1>2. CASE /\ IsPending(op)
           /\ commands' = [commands EXCEPT ![op].status = status,
                                           ![op].receipt = receipt]
  <2>1. /\ op \in DOMAIN commands
        /\ commands[op] \in Command
        /\ commands[op].receipt = NoReceipt
      BY <1>2 DEF RuntimeInv, JournalInv, JournalTypeOK, ReceiptIffSettled, IsPending, Recorded
  <2>2. /\ DOMAIN commands' = DOMAIN commands
        /\ commands'[op].receipt = receipt
        /\ \A o \in DOMAIN commands : o # op => commands'[o] = commands[o]
      BY <1>2, <2>1 DEF Command
  <2>3. JournaledOutcome' = [JournaledOutcome EXCEPT ![op] = receipt]
      BY <2>1, <2>2 DEF JournaledOutcome, Recorded
  <2>4. JournaledOutcome[op] = NoReceipt
      BY <2>1 DEF JournaledOutcome, Recorded
  <2> QED BY <2>1, <2>2, <2>3, <2>4 DEF Contract!Next, Contract!Decide
<1> QED BY <1>1, <1>2 DEF Finalize

\* A settled operation is answered with its outcome.
LEMMA AnswerIsOutcome ==
    ASSUME RuntimeInv, NEW op \in Operations, Settled(op), UNCHANGED journalVars,
           answers' = [answers EXCEPT ![op] = @ \cup {commands[op].receipt}]
    PROVE  Contract!Answer(op)
<1>1. JournaledOutcome[op] = commands[op].receipt /\ commands[op].receipt # NoReceipt
    BY DEF JournaledOutcome, Settled, Recorded, RuntimeInv, JournalInv, ReceiptIffSettled,
           TerminalStatus
<1>2. UNCHANGED <<DOMAIN commands, JournaledOutcome>>
    BY DEF journalVars, JournaledOutcome, Recorded
<1> QED BY <1>1, <1>2 DEF Contract!Answer

\* Journal, gate, retries and replays together implement the contract of
\* OperationOutcomes: an accepted operation is decided at most once and every
\* answer is that decision.
THEOREM RuntimeKeepsContract == Spec => KeepsContract
<1>1. Init => Contract!Init
    BY DEF Init, JournalInit, Contract!Init, JournaledOutcome, Recorded
<1>2. RuntimeInv /\ [Next]_vars => [Contract!Next]_(Contract!outcomeVars)
  <2> SUFFICES ASSUME RuntimeInv, [Next]_vars
               PROVE  [Contract!Next]_(Contract!outcomeVars)
      OBVIOUS
  <2>k. ASSUME UNCHANGED <<journalVars, answers>>
        PROVE  UNCHANGED Contract!outcomeVars
      BY <2>k DEF journalVars, Contract!outcomeVars, JournaledOutcome, Recorded
  <2>1. ASSUME NEW op \in Operations, NEW content \in Contents, FetchNew(op, content)
        PROVE  [Contract!Next]_(Contract!outcomeVars)
    <3>1. Contract!Accept(op)
        BY <2>1, PrepareAccepts DEF FetchNew
    <3> QED BY <3>1 DEF Contract!Next
  <2>2. ASSUME NEW op \in Operations, FetchSettled(op)
        PROVE  [Contract!Next]_(Contract!outcomeVars)
    <3>1. Contract!Answer(op)
        BY <2>2, AnswerIsOutcome DEF FetchSettled
    <3> QED BY <3>1 DEF Contract!Next
  <2>3. CASE FetchRespond
    <3>1. PICK op : op = handler["fetch"].op
        OBVIOUS
    <3>2. Settled(op) /\ commands[op].receipt = handler["fetch"].reply
        BY <2>3, <3>1 DEF FetchRespond, InPhase, RuntimeInv, FetchOK
    <3>3. op \in Operations
        BY <3>2 DEF Settled, Recorded, RuntimeInv, TypeOK, JournalTypeOK
    <3>4. Contract!Answer(op)
        BY <2>3, <3>1, <3>2, <3>3, AnswerIsOutcome DEF FetchRespond
    <3> QED BY <3>3, <3>4 DEF Contract!Next
  <2>4. CASE FetchFinalize
    <3>1. PICK op, reply : op = handler["fetch"].op /\ reply = handler["fetch"].reply
        OBVIOUS
    <3>2. op \in Operations /\ reply \in Receipts
        BY <2>4, <3>1 DEF FetchFinalize, FetchReady, InPhase, RuntimeInv, FetchOK, IsPending,
                          Recorded, TypeOK, JournalTypeOK
    <3>3. Terminal(reply) \in TerminalStatus
        BY DEF Terminal, TerminalStatus
    <3> QED BY <2>4, <3>1, <3>2, <3>3, FinalizeDecides DEF FetchFinalize
  <2>5. ASSUME NEW r \in Replayers, ReplayFinalize(r)
        PROVE  [Contract!Next]_(Contract!outcomeVars)
    <3>1. PICK op, reply : op = handler[r].op /\ reply = handler[r].reply
        OBVIOUS
    <3>2. op \in Operations /\ reply \in Receipts
        BY <2>5, <3>1 DEF ReplayFinalize, InPhase, RuntimeInv, ReplayerOK, Recorded, TypeOK,
                          JournalTypeOK
    <3>3. Terminal(reply) \in TerminalStatus
        BY DEF Terminal, TerminalStatus
    <3> QED BY <2>5, <3>1, <3>2, <3>3, FinalizeDecides DEF ReplayFinalize
  <2>6. CASE UNCHANGED vars
      BY <2>6, <2>k DEF vars, runtimeVars
  <2>7. ASSUME ResetObject, UNCHANGED journalVars
        PROVE  UNCHANGED Contract!outcomeVars
      BY <2>7, <2>k DEF ResetObject
  <2> QED
      BY <2>1, <2>2, <2>3, <2>4, <2>5, <2>6, <2>7, <2>k
      DEF Next, FetchStep, ReplayStep, FetchRetry, FetchConflict, FetchStore, FetchPersist,
          FetchFinalizeFails, FetchDelete, ReplayStart, ReplayForward, ReplayEnd,
          ReplayDelete, ContainerReplies, ContainerFails, SessionEnds, ContainerLoss, Crash
<1> QED BY <1>1, <1>2, RuntimeInvariant, PTL DEF Spec, KeepsContract, Contract!Spec

\* An import's body is deleted from R2 only once the import is settled, so a
\* replay never finds the body of a stored import gone.
THEOREM BodiesOutliveTheirImports == Spec => BodyKeptUntilSettled
<1>1. RuntimeInv /\ [Next]_vars => [\A op \in objects \ objects' : Settled(op)]_vars
  <2> SUFFICES ASSUME RuntimeInv, Next, NEW op \in objects \ objects'
               PROVE  Settled(op)
      OBVIOUS
  <2>1. CASE FetchDelete
      BY <2>1 DEF FetchDelete, InPhase, RuntimeInv, FetchOK
  <2>2. ASSUME NEW r \in Replayers, ReplayDelete(r)
        PROVE  Settled(op)
      BY <2>2 DEF ReplayDelete, InPhase, RuntimeInv, ReplayerOK
  <2>3. CASE FetchStore
      BY <2>3 DEF FetchStore
  <2>4. CASE UNCHANGED objects
      BY <2>4
  <2>5. CASE ResetObject
      BY <2>5 DEF ResetObject
  <2> QED
      BY <2>1, <2>2, <2>3, <2>4, <2>5
      DEF Next, FetchStep, ReplayStep, FetchNew, FetchRetry, FetchSettled, FetchConflict,
          FetchPersist, FetchFinalize, FetchFinalizeFails, FetchRespond, ReplayStart,
          ReplayForward, ReplayEnd, ReplayFinalize, ContainerReplies, ContainerFails,
          SessionEnds, ContainerLoss, Crash
<1> QED BY <1>1, RuntimeInvariant, PTL DEF Spec, BodyKeptUntilSettled
=============================================================================
