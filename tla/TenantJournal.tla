---------------------------- MODULE TenantJournal ----------------------------
(***************************************************************************)
(* The durable command journal of one tenant                               *)
(* (apps/cloudflare-worker/src/journal.ts).                                *)
(*                                                                         *)
(* A Durable Object stores one record per operation id, an index from      *)
(* journal sequence to operation id, the last sequence given out and the   *)
(* high-water mark.  prepare() and finalize() each run inside one storage  *)
(* transaction, so each is one step here; between two of them anything may *)
(* happen.                                                                 *)
(*                                                                         *)
(* "Content" stands for everything prepare() compares on a retry: method,  *)
(* path, body digest, tenant, body reference and MCP session id.           *)
(***************************************************************************)
EXTENDS Naturals

CONSTANTS
    Operations,   \* operation ids clients may send
    Contents,     \* what a request asks for, as prepare() compares it
    Receipts,     \* stored responses
    NoReceipt     \* the receipt field of a pending command

ASSUME NoReceiptAssumption == NoReceipt \notin Receipts

VARIABLES
    commands,       \* journal:command:<operation id>  -> command record
    sequenceIndex,  \* journal:sequence:<n>            -> operation id
    nextSequence,   \* journal:next-sequence, the last sequence given out
    highWaterMark   \* journal:high-water-mark

journalVars == <<commands, sequenceIndex, nextSequence, highWaterMark>>

TerminalStatus == {"applied", "rejected"}

Command == [content  : Contents,
            sequence : Nat \ {0},
            status   : {"pending"} \cup TerminalStatus,
            receipt  : Receipts \cup {NoReceipt}]

\* A storage key written with a value: the other keys keep theirs.
Put(map, key, value) ==
    [k \in DOMAIN map \cup {key} |-> IF k = key THEN value ELSE map[k]]

JournalTypeOK ==
    /\ DOMAIN commands \subseteq Operations
    /\ \A op \in DOMAIN commands : commands[op] \in Command
    /\ nextSequence \in Nat
    /\ DOMAIN sequenceIndex = 1..nextSequence
    /\ \A n \in 1..nextSequence : sequenceIndex[n] \in DOMAIN commands
    /\ highWaterMark \in 0..nextSequence

Recorded(op) == op \in DOMAIN commands
IsPending(op) == Recorded(op) /\ commands[op].status = "pending"
Settled(op) == Recorded(op) /\ commands[op].status \in TerminalStatus

\* prepare() refuses an operation id that comes back asking for something else.
Conflicts(op, content) == Recorded(op) /\ commands[op].content # content

\* pending(): the unresolved commands; First is the one its sort puts first.
PendingCommands == {op \in DOMAIN commands : IsPending(op)}
First(ops) ==
    CHOOSE op \in ops : \A other \in ops :
        commands[op].sequence <= commands[other].sequence

-----------------------------------------------------------------------------
JournalInit ==
    /\ commands = [op \in {} |-> NoReceipt]
    /\ sequenceIndex = [n \in 1..0 |-> NoReceipt]
    /\ nextSequence = 0
    /\ highWaterMark = 0

\* prepare() of an operation id the journal has not seen.  Of one it has seen
\* it only reports the stored command or the conflict: no state changes.
PrepareNew(op, content) ==
    /\ ~Recorded(op)
    /\ commands' = Put(commands, op,
           [content |-> content, sequence |-> nextSequence + 1,
            status |-> "pending", receipt |-> NoReceipt])
    /\ sequenceIndex' = Put(sequenceIndex, nextSequence + 1, op)
    /\ nextSequence' = nextSequence + 1
    /\ UNCHANGED highWaterMark

\* The command filed under sequence n exists and is no longer pending.
TerminalAt(n) ==
    /\ n \in DOMAIN sequenceIndex
    /\ Settled(sequenceIndex[n])

\* Mutant: the walk does not look at the status it walks over.
AdvanceOverPending == highWaterMark' = nextSequence

\* advanceHighWaterMark() walks the sequences above the mark, in the state the
\* transaction has already written, and stops below the first one that is
\* missing or pending.
AdvanceHighWaterMark ==
    \E mark \in highWaterMark..nextSequence :
        /\ \A n \in (highWaterMark + 1)..mark : TerminalAt(n)'
        /\ ~TerminalAt(mark + 1)'
        /\ highWaterMark' = mark

\* finalize(): a pending command becomes terminal with its receipt and the mark
\* advances; a command that is already terminal keeps the receipt it has.
Finalize(op, status, receipt) ==
    \/ /\ IsPending(op)
       /\ commands' = [commands EXCEPT ![op].status = status,
                                       ![op].receipt = receipt]
       /\ UNCHANGED <<sequenceIndex, nextSequence>>
       /\ AdvanceHighWaterMark
    \/ /\ Settled(op)
       /\ UNCHANGED journalVars

JournalNext ==
    \/ \E op \in Operations, content \in Contents : PrepareNew(op, content)
    \/ \E op \in Operations, status \in TerminalStatus, receipt \in Receipts :
           Finalize(op, status, receipt)

JournalSpec == JournalInit /\ [][JournalNext]_journalVars

-----------------------------------------------------------------------------
\* The index and the records agree: sequences 1..nextSequence are given out
\* without a gap, each to one operation (prepare()'s three writes).
SequenceIndexAgrees ==
    /\ \A n \in 1..nextSequence : commands[sequenceIndex[n]].sequence = n
    /\ \A op \in DOMAIN commands :
           /\ commands[op].sequence \in 1..nextSequence
           /\ sequenceIndex[commands[op].sequence] = op

\* A command has a receipt exactly when it is terminal.
ReceiptIffSettled ==
    \A op \in DOMAIN commands :
        commands[op].receipt = NoReceipt <=> commands[op].status = "pending"

\* The mark is exactly the end of the settled prefix: no pending command hides
\* below it, and it never lags behind what has been settled (journal.ts
\* advanceHighWaterMark; journal.test.ts "only across contiguous terminal").
HighWaterExact ==
    /\ \A op \in DOMAIN commands :
           commands[op].sequence <= highWaterMark => Settled(op)
    /\ highWaterMark < nextSequence => IsPending(sequenceIndex[highWaterMark + 1])

\* What a step may never do: forget a command, change what it asks for or its
\* place in the order, or change a terminal command at all (a duplicate
\* finalize() does not overwrite the receipt).
SettledIsFinalStep ==
    \A op \in DOMAIN commands :
        /\ op \in DOMAIN commands'
        /\ commands'[op].content = commands[op].content
        /\ commands'[op].sequence = commands[op].sequence
        /\ Settled(op) => commands'[op] = commands[op]
SettledIsFinal == [][SettledIsFinalStep]_journalVars

\* The mark never moves back.
HighWaterMonotonic == [][highWaterMark' >= highWaterMark]_journalVars
=============================================================================
