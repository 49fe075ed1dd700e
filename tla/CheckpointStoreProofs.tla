------------------------ MODULE CheckpointStoreProofs ------------------------
(***************************************************************************)
(* What the checkpoint store keeps true, proved for any number of exports, *)
(* of crashes between two writes and of retries, and any retention of two  *)
(* or more, as long as an export is repeated only while it is the latest.  *)
(***************************************************************************)
EXTENDS CheckpointStore, FiniteSetTheorems, SequenceTheorems, TLAPS

\* The filter of a history in which at most the newest entry is dropped.
LEMMA WithoutNewest ==
    ASSUME NEW s \in Seq(Nat), NEW id, \A i \in 2..Len(s) : s[i] # id
    PROVE  Without(s, id) = IF s # <<>> /\ s[1] = id THEN Tail(s) ELSE s
  <1> DEFINE step(f, n) == IF n = 0 THEN <<>>
                           ELSE IF s[n] # id THEN Append(f[n - 1], s[n])
                           ELSE f[n - 1]
             first == IF s # <<>> /\ s[1] = id THEN 2 ELSE 1
             cut == [n \in 0..Len(s) |-> SubSeq(s, first, n)]
  <1>1. /\ Len(s) \in Nat
        /\ \A n \in 1..Len(s) : s[n] \in Nat
        /\ s # <<>> => Len(s) >= 1
        /\ first \in {1, 2}
        /\ first = 2 <=> Len(s) >= 1 /\ s[1] = id
    BY EmptySeq, ElementOfSeq
  <1> HIDE DEF first
  <1>2. cut[0] = <<>>
    BY <1>1, SubSeqEmpty
  <1>3. ASSUME NEW n \in 1..Len(s) PROVE cut[n] = step(cut, n)
    <2>1. CASE s[n] # id
      <3>1. n >= first
        BY <1>1, <2>1
      <3>2. SubSeq(s, first, n) = SubSeq(s, first, n - 1) \o <<s[n]>>
        <4>1. first \in 1..Len(s) /\ n \in first..Len(s)
          BY <1>1, <3>1
        <4> QED
          BY <4>1, SubSeqRecursiveSecond
      <3>3. SubSeq(s, first, n - 1) \in Seq(Nat)
        BY <1>1, SubSeqProperties
      <3>4. Append(SubSeq(s, first, n - 1), s[n]) = SubSeq(s, first, n - 1) \o <<s[n]>>
        BY <1>1, <3>3, AppendIsConcat
      <3>5. /\ cut[n] = SubSeq(s, first, n)
            /\ cut[n - 1] = SubSeq(s, first, n - 1)
            /\ n # 0
        <4>1. n \in 0..Len(s) /\ n - 1 \in 0..Len(s) /\ n # 0
          <5> HIDE DEF cut, step
          <5> QED
            BY <1>1
        <4> QED
          BY <4>1, Zenon
      <3> HIDE DEF cut
      <3> QED
        BY <2>1, <3>2, <3>4, <3>5
    <2>2. CASE s[n] = id
      <3>1. n = 1 /\ first = 2
        BY <1>1, <2>2
      <3>2. SubSeq(s, 2, 1) = <<>> /\ SubSeq(s, 2, 0) = <<>>
        BY SubSeqEmpty
      <3> QED
        BY <1>1, <2>2, <3>1, <3>2
    <2> QED
      BY <2>1, <2>2
  <1>4. cut = [n \in 0..Len(s) |-> step(cut, n)]
    <2>1. \A n \in 0..Len(s) : cut[n] = step(cut, n)
      <3>1. \A n \in 0..Len(s) : n = 0 \/ n \in 1..Len(s)
        BY <1>1
      <3>2. step(cut, 0) = <<>>
        OBVIOUS
      <3> HIDE DEF cut, step
      <3> QED
        BY <1>2, <1>3, <3>1, <3>2
    <2> HIDE DEF step
    <2> QED
      BY <2>1
  <1>5. ASSUME NEW f, f = [n \in 0..Len(s) |-> step(f, n)] PROVE f[Len(s)] = cut[Len(s)]
    <2> DEFINE differ == {n \in 0..Len(s) : f[n] # cut[n]}
    <2>1. \A n \in 0..Len(s) : f[n] = step(f, n) /\ cut[n] = step(cut, n)
      <3> HIDE DEF step, cut
      <3> QED
        BY <1>4, <1>5
    <2>2. \A n \in 1..Len(s) : f[n - 1] = cut[n - 1] => f[n] = cut[n]
      <3> HIDE DEF cut
      <3> QED
        BY <1>1, <2>1
    <2>3. f[0] = cut[0]
      <3> HIDE DEF cut
      <3> QED
        BY <1>1, <2>1
    <2> HIDE DEF cut
    <2>4. CASE differ # {}
      <3>1. differ \subseteq Nat
        BY <1>1
      <3>2. PICK n \in differ : \A m \in differ : ~ (<<m, n>> \in OpToRel(<, Nat))
        BY <2>4, <3>1, NatLessThanWellFounded, WFMin
      <3>3. \A m \in differ : ~ (m < n)
        BY <3>1, <3>2 DEF OpToRel
      <3>4. n # 0 /\ n - 1 \in 0..Len(s) /\ n - 1 < n
        BY <1>1, <2>3
      <3>5. f[n - 1] = cut[n - 1]
        BY <3>3, <3>4
      <3> QED
        BY <1>1, <2>2, <3>4, <3>5
    <2>5. CASE differ = {}
      BY <1>1, <2>5
    <2> QED
      BY <2>4, <2>5
  <1>6. Without(s, id) = cut[Len(s)]
    <2> DEFINE Filtered == CHOOSE f : f = [n \in 0..Len(s) |-> step(f, n)]
    <2>1. Without(s, id) = Filtered[Len(s)]
      BY DEF Without
    <2>2. Filtered = [n \in 0..Len(s) |-> step(Filtered, n)]
      <3> HIDE DEF cut, step
      <3> QED
        BY <1>4, Zenon
    <2> HIDE DEF Filtered, cut
    <2> QED
      BY <1>5, <2>1, <2>2
  <1>7. cut[Len(s)] = SubSeq(s, first, Len(s))
    BY <1>1
  <1>8. CASE first = 2
    BY <1>1, <1>6, <1>7, <1>8, TailIsSubSeq
  <1>9. CASE first = 1
    BY <1>1, <1>6, <1>7, <1>9, SubSeqFull
  <1> QED
    BY <1>1, <1>8, <1>9

-----------------------------------------------------------------------------
(***************************************************************************)
(* The invariant.  The history descends, because only the latest export    *)
(* can be at its head again.  So an artifact that is deleted is older than *)
(* all that are kept before the last retained one, and than the one that   *)
(* the pointer was moved to just before.                                   *)
(***************************************************************************)

HistoryDescends ==
    /\ \A i, j \in 1..Len(history) : i < j => history[j] < history[i]
    /\ \A i \in 1..Len(history) : history[i] <= begun

WriterIsLatest == writer.phase # "idle" => writer.id = begun /\ begun >= 1

ArtifactsFirst ==
    /\ active # None => active \in bucket
    /\ \A i \in 1..Len(history) : i < Retention => history[i] \in bucket
    /\ writer.phase \in {"point", "record", "expire"} => begun \in bucket
    /\ writer.phase \in {"record", "expire"} => active = begun

ExpiredAreOutlived ==
    writer.phase = "expire" =>
        /\ Len(history) >= 1 /\ history[1] = begun
        /\ \A id \in writer.expired :
               /\ Len(history) >= Retention - 1
               /\ \A i \in 1..Retention - 1 : history[i] > id

CheckpointInv ==
    /\ CheckpointsTypeOK
    /\ HistoryDescends
    /\ WriterIsLatest
    /\ ArtifactsFirst
    /\ ExpiredAreOutlived

LEMMA HistoryIsTyped ==
    ASSUME CheckpointAssumption, CheckpointInv
    PROVE  /\ history \in Seq(Checkpoints) /\ history \in Seq(Nat)
           /\ Len(history) \in Nat /\ Len(history) <= Retention
           /\ \A i \in 1..Len(history) : history[i] \in Checkpoints
           /\ begun \in Nat /\ begun <= MaxExports
           /\ Retention \in Nat /\ Retention >= 2 /\ MaxExports \in Nat
           /\ Checkpoints \subseteq Nat \ {0}
  <1>1. Checkpoints \subseteq Nat \ {0}
    BY DEF CheckpointAssumption, Checkpoints
  <1>2. history \in Seq(Checkpoints) /\ Len(history) <= Retention /\ begun \in 0..MaxExports
    BY DEF CheckpointInv, CheckpointsTypeOK
  <1>3. history \in Seq(Nat)
    BY <1>1, <1>2, SeqMonotonic
  <1> QED
    BY <1>1, <1>2, <1>3, LenProperties, ElementOfSeq DEF CheckpointAssumption

\* What is written as the new history: the old one, if the export is at its head,
\* or else the export before what fits of it.
LEMMA RetainedProperties ==
    ASSUME CheckpointAssumption, CheckpointInv, writer.phase = "record"
    PROVE  LET kept == Retained(writer.id) IN
           /\ kept \in Seq(Checkpoints)
           /\ Len(kept) \in 1..Retention
           /\ kept[1] = begun
           /\ \/ kept = history
              \/ /\ \A i \in 1..Len(history) : history[i] < begun
                 /\ Len(kept) = IF Len(history) < Retention THEN Len(history) + 1 ELSE Retention
                 /\ \A i \in 2..Len(kept) : kept[i] = history[i - 1]
  <1> DEFINE others == Without(history, begun)
             newest == <<begun>> \o others
             size == IF Len(newest) < Retention THEN Len(newest) ELSE Retention
             kept == SubSeq(newest, 1, size)
  <1>1. writer.id = begun /\ begun \in Checkpoints
    BY HistoryIsTyped DEF CheckpointInv, WriterIsLatest, Checkpoints
  <1>2. Retained(writer.id) = kept
    BY <1>1 DEF Retained
  <1>3. \A i \in 2..Len(history) : history[i] # begun
    <2> SUFFICES ASSUME NEW i \in 2..Len(history) PROVE history[i] # begun
      OBVIOUS
    <2>1. history[i] < history[1] /\ history[1] <= begun
      BY HistoryIsTyped DEF CheckpointInv, HistoryDescends
    <2>2. history[i] \in Nat /\ history[1] \in Nat
      BY HistoryIsTyped
    <2> QED
      BY <2>1, <2>2, HistoryIsTyped
  <1>4. others = IF history # <<>> /\ history[1] = begun THEN Tail(history) ELSE history
    BY <1>3, HistoryIsTyped, WithoutNewest
  <1>5. <<begun>> \in Seq(Checkpoints) /\ Len(<<begun>>) = 1 /\ <<begun>>[1] = begun
    BY <1>1
  <1>6. CASE history # <<>> /\ history[1] = begun
    <2>1. /\ Tail(history) \in Seq(Checkpoints)
          /\ Len(Tail(history)) = Len(history) - 1
          /\ \A i \in 1..Len(Tail(history)) : Tail(history)[i] = history[i + 1]
          /\ Len(history) >= 1
      BY <1>6, HistoryIsTyped, HeadTailProperties, EmptySeq
    <2>2. /\ newest \in Seq(Checkpoints)
          /\ Len(newest) = Len(history)
          /\ \A i \in 1..Len(history) : newest[i] = IF i <= 1 THEN begun ELSE Tail(history)[i - 1]
      <3>1. newest = <<begun>> \o Tail(history)
        BY <1>4, <1>6
      <3>2. 1 + Len(Tail(history)) = Len(history)
        BY <2>1, HistoryIsTyped
      <3> HIDE DEF newest
      <3> QED
        BY <1>5, <2>1, <3>1, <3>2, ConcatProperties
    <2>3. \A i \in 1..Len(history) : newest[i] = history[i]
      <3> HIDE DEF newest
      <3> QED
        BY <1>6, <2>1, <2>2, HistoryIsTyped
    <2> HIDE DEF newest
    <2>4. newest = history
      BY <2>2, <2>3, HistoryIsTyped, SeqEqual
    <2>5. size = Len(history)
      BY <2>4, HistoryIsTyped
    <2>6. kept = history
      BY <2>4, <2>5, HistoryIsTyped, SubSeqFull
    <2> HIDE DEF kept
    <2>7. history \in Seq(Checkpoints) /\ Len(history) \in 1..Retention /\ history[1] = begun
      BY <1>6, <2>1, HistoryIsTyped
    <2> QED
      BY <1>2, <2>6, <2>7
  <1>7. CASE ~ (history # <<>> /\ history[1] = begun)
    <2>1. \A i \in 1..Len(history) : history[i] < begun
      <3> SUFFICES ASSUME NEW i \in 1..Len(history) PROVE history[i] < begun
        OBVIOUS
      <3>1. /\ history[i] \in Nat /\ history[i] <= begun
            /\ history # <<>>
            /\ i \in 2..Len(history) \/ i = 1
        BY HistoryIsTyped DEF CheckpointInv, HistoryDescends
      <3> QED
        BY <1>3, <1>7, <3>1, HistoryIsTyped
    <2>2. /\ newest \in Seq(Checkpoints)
          /\ Len(newest) = Len(history) + 1
          /\ \A i \in 1..Len(history) + 1 : newest[i] = IF i <= 1 THEN begun ELSE history[i - 1]
      <3>1. newest = <<begun>> \o history
        BY <1>4, <1>7
      <3>2. 1 + Len(history) = Len(history) + 1
        BY HistoryIsTyped
      <3> HIDE DEF newest
      <3> QED
        BY <1>5, <3>1, <3>2, HistoryIsTyped, ConcatProperties
    <2> HIDE DEF newest
    <2>3. /\ size = IF Len(history) < Retention THEN Len(history) + 1 ELSE Retention
          /\ size \in 1..Retention /\ size <= Len(newest)
      <3>1. Len(newest) = Len(history) + 1
        BY <2>2
      <3> HIDE DEF newest
      <3>2. CASE Len(history) < Retention
        BY <3>1, <3>2, HistoryIsTyped
      <3>3. CASE ~ (Len(history) < Retention)
        BY <3>1, <3>3, HistoryIsTyped
      <3> QED
        BY <3>2, <3>3
    <2> HIDE DEF size
    <2>4. /\ kept \in Seq(Checkpoints)
          /\ Len(kept) = size
          /\ \A i \in 1..size : kept[i] = newest[i]
      <3>1. \A i \in 1..size : newest[i] \in Checkpoints
        BY <2>2, <2>3, HistoryIsTyped, ElementOfSeq
      <3>2. size \in Nat /\ 1 <= size
        BY <2>3, HistoryIsTyped
      <3>3. /\ kept \in Seq(Checkpoints)
            /\ Len(kept) = IF 1 <= size THEN size - 1 + 1 ELSE 0
            /\ \A i \in 1..size - 1 + 1 : kept[i] = newest[1 + i - 1]
        BY <3>1, <3>2, SubSeqProperties
      <3> HIDE DEF kept
      <3> QED
        BY <3>2, <3>3
    <2> HIDE DEF kept
    <2>5. kept[1] = begun /\ \A i \in 2..size : kept[i] = history[i - 1]
      <3>1. \A i \in 1..size : i \in 1..Len(history) + 1
        BY <2>2, <2>3, HistoryIsTyped
      <3>2. 1 \in 1..size /\ \A i \in 2..size : i \in 1..size /\ ~ (i <= 1)
        BY <2>3, HistoryIsTyped
      <3> QED
        BY <2>2, <2>4, <3>1, <3>2
    <2> QED
      BY <1>2, <2>1, <2>3, <2>4, <2>5
  <1> QED
    BY <1>6, <1>7

-----------------------------------------------------------------------------
LEMMA NoCheckpointIsSound ==
    ASSUME CheckpointAssumption, CheckpointsInit
    PROVE  CheckpointInv
  BY DEF CheckpointAssumption, CheckpointsInit, NoExport, Writing, CheckpointInv,
         CheckpointsTypeOK, HistoryDescends,
         WriterIsLatest, ArtifactsFirst, ExpiredAreOutlived, None, Checkpoints

LEMMA BeginKeeps ==
    ASSUME CheckpointAssumption, ~LateRetries, CheckpointInv,
           BeginNew \/ \E id \in Checkpoints : BeginAgain(id)
    PROVE  CheckpointInv'
  <1>1. /\ UNCHANGED <<settled, bucket, active, history>>
        /\ begun' \in {begun, begun + 1}
        /\ writer' = Writing("put", begun', {})
        /\ begun' \in Checkpoints
    BY HistoryIsTyped DEF BeginNew, BeginAgain, Checkpoints
  <1>2. begun <= begun'
    BY <1>1, HistoryIsTyped
  <1>3. CheckpointsTypeOK'
    BY <1>1, HistoryIsTyped DEF CheckpointInv, CheckpointsTypeOK, Writing, Checkpoints
  <1>4. HistoryDescends'
    <2>1. \A i \in 1..Len(history) : history[i] \in Nat /\ history[i] <= begun /\ begun' \in Nat
      BY <1>1, HistoryIsTyped DEF CheckpointInv, HistoryDescends
    <2>2. \A i \in 1..Len(history) : history[i] <= begun'
      BY <1>2, <2>1, HistoryIsTyped
    <2> QED
      BY <1>1, <2>2 DEF CheckpointInv, HistoryDescends
  <1>5. WriterIsLatest' /\ ArtifactsFirst' /\ ExpiredAreOutlived'
    BY <1>1, HistoryIsTyped
    DEF CheckpointInv, WriterIsLatest, ArtifactsFirst, ExpiredAreOutlived, Writing, Checkpoints
  <1> QED
    BY <1>3, <1>4, <1>5 DEF CheckpointInv

LEMMA PutKeeps ==
    ASSUME CheckpointAssumption, CheckpointInv, PutArtifact \/ PutPointer
    PROVE  CheckpointInv'
  <1>1. /\ UNCHANGED <<begun, settled, history>>
        /\ writer.phase \in {"put", "point"}
        /\ \/ /\ bucket' = bucket \cup {writer.id} /\ UNCHANGED active
              /\ writer' = [writer EXCEPT !.phase = "point"]
           \/ /\ active' = writer.id /\ UNCHANGED bucket /\ writer.phase = "point"
              /\ writer' = [writer EXCEPT !.phase = "record"]
    BY DEF PutArtifact, PutPointer
  <1>2. writer.id = begun /\ begun \in Checkpoints
    BY <1>1, HistoryIsTyped DEF CheckpointInv, WriterIsLatest, Checkpoints
  <1>3. CheckpointsTypeOK'
    BY <1>1, <1>2 DEF CheckpointInv, CheckpointsTypeOK
  <1>4. /\ writer'.id = begun /\ writer'.phase \in {"point", "record"}
        /\ writer'.phase = "point" => active' = active
    BY <1>1, <1>2 DEF CheckpointInv, CheckpointsTypeOK
  <1>5. HistoryDescends' /\ WriterIsLatest' /\ ExpiredAreOutlived'
    BY <1>1, <1>2, <1>4, HistoryIsTyped
    DEF CheckpointInv, HistoryDescends, WriterIsLatest, ExpiredAreOutlived
  <1>6. ArtifactsFirst'
    BY <1>1, <1>2, <1>4 DEF CheckpointInv, CheckpointsTypeOK, ArtifactsFirst
  <1> QED
    BY <1>3, <1>5, <1>6 DEF CheckpointInv

LEMMA PutHistoryKeeps ==
    ASSUME CheckpointAssumption, CheckpointInv, PutHistory
    PROVE  CheckpointInv'
  <1> DEFINE last == SubSeq(history, Retention, Len(history))
  <1>1. /\ writer.phase = "record"
        /\ history' = Retained(writer.id)
        /\ writer' = [phase |-> "expire", id |-> writer.id, expired |-> Range(last)]
        /\ UNCHANGED <<begun, settled, bucket, active>>
    BY DEF PutHistory, Writing, Expired
  <1>2. writer.id = begun /\ begun \in Checkpoints
    BY <1>1, HistoryIsTyped DEF CheckpointInv, WriterIsLatest, Checkpoints
  <1>3. /\ history' \in Seq(Checkpoints)
        /\ Len(history') \in 1..Retention
        /\ history'[1] = begun
        /\ \/ history' = history
           \/ /\ \A i \in 1..Len(history) : history[i] < begun
              /\ Len(history') = IF Len(history) < Retention THEN Len(history) + 1 ELSE Retention
              /\ \A i \in 2..Len(history') : history'[i] = history[i - 1]
    BY <1>1, RetainedProperties
  <1>4. \A id \in Range(last) :
            Len(history) = Retention /\ id = history[Retention]
    <2>1. CASE Len(history) = Retention
      <3>1. \A i \in Retention..Len(history) : history[i] \in Checkpoints
        BY <2>1, HistoryIsTyped
      <3>2. /\ last \in Seq(Checkpoints)
            /\ Len(last) = IF Retention <= Len(history) THEN Len(history) - Retention + 1 ELSE 0
            /\ \A i \in 1..Len(history) - Retention + 1 : last[i] = history[Retention + i - 1]
        <4>1. Retention \in Int /\ Len(history) \in Int
          BY HistoryIsTyped
        <4> QED
          BY <3>1, <4>1, SubSeqProperties
      <3> HIDE DEF last
      <3>3. Len(last) = 1 /\ last[1] = history[Retention]
        BY <2>1, <3>2, HistoryIsTyped
      <3>4. Range(last) = {last[i] : i \in 1..Len(last)}
        BY <3>2, RangeEquality
      <3> QED
        BY <2>1, <3>3, <3>4
    <2>2. CASE Len(history) # Retention
      <3>1. last = <<>>
        BY <2>2, HistoryIsTyped, SubSeqEmpty
      <3> QED
        BY <3>1 DEF Range
    <2> QED
      BY <2>1, <2>2
  <1> HIDE DEF last
  <1>5. Range(last) \subseteq Checkpoints
    BY <1>4, HistoryIsTyped
  <1>6. CheckpointsTypeOK'
    BY <1>1, <1>2, <1>3, <1>5 DEF CheckpointInv, CheckpointsTypeOK
  <1>7. /\ \A i \in 1..Len(history') : history'[i] \in Nat /\ history'[i] <= begun
        /\ \A i, j \in 1..Len(history') : i < j => history'[j] < history'[i]
    <2>1. CASE history' = history
      BY <2>1, HistoryIsTyped DEF CheckpointInv, HistoryDescends
    <2>2. CASE /\ \A i \in 1..Len(history) : history[i] < begun
               /\ Len(history') = IF Len(history) < Retention THEN Len(history) + 1 ELSE Retention
               /\ \A i \in 2..Len(history') : history'[i] = history[i - 1]
      <3>1. \A i \in 2..Len(history') : i - 1 \in 1..Len(history)
        BY <2>2, HistoryIsTyped
      <3>2. \A i \in 2..Len(history') : history'[i] \in Nat /\ history'[i] < begun
        BY <2>2, <3>1, HistoryIsTyped
      <3>3. \A i, j \in 2..Len(history') : i < j => history'[j] < history'[i]
        <4> SUFFICES ASSUME NEW i \in 2..Len(history'), NEW j \in 2..Len(history'), i < j
                     PROVE  history'[j] < history'[i]
          OBVIOUS
        <4>1. /\ i - 1 \in 1..Len(history) /\ j - 1 \in 1..Len(history)
              /\ i - 1 < j - 1
          BY <3>1
        <4>2. history[j - 1] < history[i - 1]
          BY <4>1 DEF CheckpointInv, HistoryDescends
        <4> QED
          BY <2>2, <4>2
      <3>4. \A i \in 1..Len(history') : i = 1 \/ i \in 2..Len(history')
        OBVIOUS
      <3>5. \A i \in 1..Len(history') : history'[i] \in Nat /\ history'[i] <= begun
        BY <1>3, <3>2, <3>4, HistoryIsTyped
      <3>6. \A i, j \in 1..Len(history') : i < j => history'[j] < history'[i]
        BY <1>3, <3>2, <3>3, <3>4
      <3> QED
        BY <3>5, <3>6
    <2> QED
      BY <1>3, <2>1, <2>2
  <1>8. HistoryDescends'
    BY <1>1, <1>7 DEF HistoryDescends
  <1>9. WriterIsLatest'
    BY <1>1, <1>2 DEF CheckpointInv, WriterIsLatest
  <1>10. ArtifactsFirst'
    <2>1. begun \in bucket /\ active = begun
      BY <1>1 DEF CheckpointInv, ArtifactsFirst
    <2>2. \A i \in 1..Len(history) : i < Retention => history[i] \in bucket
      BY DEF CheckpointInv, ArtifactsFirst
    <2>3. \A i \in 1..Len(history') : i < Retention => history'[i] \in bucket
      <3> SUFFICES ASSUME NEW i \in 1..Len(history'), i < Retention PROVE history'[i] \in bucket
        OBVIOUS
      <3>1. CASE i = 1
        BY <1>3, <2>1, <3>1
      <3>2. CASE i # 1 /\ history' = history
        BY <2>2, <3>2
      <3>3. CASE i # 1 /\ history' # history
        <4>1. history'[i] = history[i - 1] /\ i - 1 \in 1..Len(history) /\ i - 1 < Retention
          <5>1. /\ Len(history') =
                       IF Len(history) < Retention THEN Len(history) + 1 ELSE Retention
                /\ \A j \in 2..Len(history') : history'[j] = history[j - 1]
            BY <1>3, <3>3
          <5>2. i \in 2..Len(history')
            BY <3>3
          <5> QED
            BY <5>1, <5>2, HistoryIsTyped
        <4> QED
          BY <2>2, <4>1
      <3> QED
        BY <3>1, <3>2, <3>3
    <2> QED
      BY <1>1, <2>1, <2>3 DEF ArtifactsFirst
  <1>11. ExpiredAreOutlived'
    <2> SUFFICES ASSUME NEW id \in Range(last)
                 PROVE  /\ Len(history') >= Retention - 1
                        /\ \A i \in 1..Retention - 1 : history'[i] > id
      BY <1>1, <1>3 DEF ExpiredAreOutlived
    <2>1. Len(history) = Retention /\ id = history[Retention] /\ id \in Nat
      BY <1>4, HistoryIsTyped
    <2>2. \A i \in 1..Retention - 1 : history[i] \in Nat /\ id < history[i]
      BY <2>1, HistoryIsTyped DEF CheckpointInv, HistoryDescends
    <2>3. CASE history' = history
      BY <2>1, <2>2, <2>3, HistoryIsTyped
    <2>4. CASE history' # history
      <3>1. /\ Len(history') = Retention
            /\ id < begun
            /\ \A i \in 2..Retention : history'[i] = history[i - 1]
        BY <1>3, <2>1, <2>4, HistoryIsTyped
      <3>2. \A i \in 1..Retention - 1 : i = 1 \/ (i \in 2..Retention /\ i - 1 \in 1..Retention - 1)
        BY HistoryIsTyped
      <3>3. \A i \in 1..Retention - 1 : id < history'[i]
        BY <1>3, <2>2, <3>1, <3>2
      <3> QED
        BY <3>1, <3>3, HistoryIsTyped
    <2> QED
      BY <2>3, <2>4
  <1> QED
    BY <1>6, <1>8, <1>9, <1>10, <1>11 DEF CheckpointInv

\* What is deleted is neither what the pointer names nor one of the newest.
LEMMA DeleteExpiredKeeps ==
    ASSUME CheckpointAssumption, CheckpointInv, DeleteExpired
    PROVE  CheckpointInv'
  <1>1. PICK id \in writer.expired :
            /\ bucket' = bucket \ {id}
            /\ writer' = [writer EXCEPT !.expired = @ \ {id}]
    BY DEF DeleteExpired
  <1>2. /\ writer.phase = "expire"
        /\ UNCHANGED <<begun, settled, active, history>>
    BY DEF DeleteExpired
  <1>3. /\ Len(history) >= Retention - 1
        /\ \A i \in 1..Retention - 1 : history[i] > id
        /\ history[1] = begun
        /\ id \in Nat
    <2>1. writer.expired \subseteq Checkpoints /\ ExpiredAreOutlived
      BY DEF CheckpointInv, CheckpointsTypeOK
    <2>2. id \in Nat
      BY <2>1, <1>1, HistoryIsTyped
    <2>3. /\ Len(history) >= Retention - 1
          /\ \A i \in 1..Retention - 1 : history[i] > id
          /\ history[1] = begun
      BY <1>1, <1>2, <2>1, Zenon DEF ExpiredAreOutlived
    <2> QED
      BY <2>2, <2>3
  <1>4. \A i \in 1..Len(history) : i < Retention => history[i] # id
    <2>1. /\ Len(history) \in Nat /\ Retention \in Nat
          /\ \A i \in 1..Len(history) : history[i] \in Nat
      BY HistoryIsTyped
    <2> SUFFICES ASSUME NEW i \in 1..Len(history), i < Retention PROVE history[i] # id
      OBVIOUS
    <2>2. i \in 1..Retention - 1
      BY <2>1
    <2>3. history[i] > id /\ history[i] \in Nat /\ id \in Nat
      BY <1>3, <2>1, <2>2
    <2> QED
      BY <2>3
  <1>5. begun # id
    <2>1. 1 \in 1..Retention - 1
      BY HistoryIsTyped
    <2>2. begun > id /\ begun \in Nat /\ id \in Nat
      BY <1>3, <2>1, HistoryIsTyped
    <2> QED
      BY <2>2
  <1>6. /\ writer'.phase = "expire" /\ writer'.id = writer.id
        /\ writer'.expired \subseteq writer.expired
    BY <1>1, <1>2 DEF CheckpointInv, CheckpointsTypeOK
  <1>7. CheckpointsTypeOK'
    BY <1>1, <1>2 DEF CheckpointInv, CheckpointsTypeOK
  <1>8. HistoryDescends' /\ WriterIsLatest' /\ ExpiredAreOutlived'
    BY <1>2, <1>6 DEF CheckpointInv, HistoryDescends, WriterIsLatest, ExpiredAreOutlived
  <1>9. ArtifactsFirst'
    BY <1>1, <1>2, <1>4, <1>5, <1>6 DEF CheckpointInv, ArtifactsFirst
  <1> QED
    BY <1>7, <1>8, <1>9 DEF CheckpointInv

LEMMA WriterStops ==
    ASSUME CheckpointAssumption, CheckpointInv, Finish \/ CrashExport
    PROVE  CheckpointInv'
  <1>1. /\ writer' = Writing("idle", None, {})
        /\ settled' \in {settled, settled \cup {begun}}
        /\ begun \in Checkpoints
        /\ UNCHANGED <<begun, bucket, active, history>>
    BY HistoryIsTyped DEF Finish, CrashExport, NoExport, CheckpointInv, WriterIsLatest,
                          Checkpoints
  <1>2. CheckpointsTypeOK'
    BY <1>1 DEF CheckpointInv, CheckpointsTypeOK, Writing
  <1>3. HistoryDescends' /\ WriterIsLatest' /\ ArtifactsFirst' /\ ExpiredAreOutlived'
    BY <1>1 DEF CheckpointInv, HistoryDescends, WriterIsLatest, ArtifactsFirst,
                ExpiredAreOutlived, Writing
  <1> QED
    BY <1>2, <1>3 DEF CheckpointInv

LEMMA NextKeeps ==
    ASSUME CheckpointAssumption, ~LateRetries, CheckpointInv, [CheckpointsNext]_checkpointVars
    PROVE  CheckpointInv'
  <1>1. CASE UNCHANGED checkpointVars
    BY <1>1 DEF checkpointVars, CheckpointInv, CheckpointsTypeOK, HistoryDescends,
                WriterIsLatest, ArtifactsFirst,
                ExpiredAreOutlived
  <1> QED
    BY <1>1, BeginKeeps, PutKeeps, PutHistoryKeeps, DeleteExpiredKeeps,
       WriterStops DEF CheckpointsNext

-----------------------------------------------------------------------------
\* As long as clients repeat an export only while it is the latest (~LateRetries), which
\* the code does not enforce: the invariant of the pointer, the history and the bucket
\* (persistCheckpoint).
THEOREM CheckpointInvariant ==
    ASSUME CheckpointAssumption, ~LateRetries
    PROVE  CheckpointsSpec => []CheckpointInv
  <1>1. CheckpointsInit => CheckpointInv
    BY NoCheckpointIsSound
  <1>2. CheckpointInv /\ [CheckpointsNext]_checkpointVars => CheckpointInv'
    BY NextKeeps
  <1> QED
    BY <1>1, <1>2, PTL DEF CheckpointsSpec

\* Under the same condition the checkpoint that the pointer names can be downloaded, and
\* the generations before the last retained one have their objects, after any crashes
\* and repetitions of the latest export (persistCheckpoint, checkpointArtifact).
THEOREM ReferencesAreKept ==
    ASSUME CheckpointAssumption, ~LateRetries
    PROVE  CheckpointsSpec => []ReferencedAreKept
  <1>1. ASSUME CheckpointInv PROVE ReferencedAreKept
    <2>1. ActiveIsServed
      BY <1>1 DEF CheckpointInv, ArtifactsFirst, ActiveIsServed, Served
    <2>2. \A i, j \in 1..Len(history) : history[i] = history[j] => i = j
      <3> SUFFICES ASSUME NEW i \in 1..Len(history), NEW j \in 1..Len(history),
                          history[i] = history[j], i # j
                   PROVE  FALSE
        OBVIOUS
      <3>1. i < j \/ j < i
        OBVIOUS
      <3>2. history[i] \in Nat /\ history[j] \in Nat
        BY <1>1, HistoryIsTyped
      <3> QED
        BY <1>1, <3>1, <3>2 DEF CheckpointInv, HistoryDescends
    <2>3. DOMAIN history = 1..Len(history)
      BY <1>1, HistoryIsTyped, LenProperties
    <2>4. NewestAreKept
      BY <1>1, <2>2, <2>3 DEF CheckpointInv, ArtifactsFirst, NewestAreKept, IsInjective
    <2> QED
      BY <2>1, <2>4 DEF ReferencedAreKept
  <1> QED
    BY <1>1, CheckpointInvariant, PTL

\* Under the same condition, without which it fails: an object is deleted only while
\* Retention - 1 newer checkpoints are retained (persistCheckpoint).
THEOREM DeletedAreOutlived ==
    ASSUME CheckpointAssumption, ~LateRetries
    PROVE  CheckpointsSpec => OutlivedBeforeDeleted
  <1>1. ASSUME CheckpointInv, [CheckpointsNext]_checkpointVars, NEW id \in bucket \ bucket'
        PROVE  Cardinality({kept \in Range(history) : kept > id}) >= Retention - 1
    <2> DEFINE newer == {kept \in Range(history) : kept > id}
               newest == [i \in 1..Retention - 1 |-> history[i]]
    <2>1. DeleteExpired
      BY <1>1 DEF CheckpointsNext, checkpointVars, BeginNew, BeginAgain, PutArtifact,
                  PutPointer, PutHistory, Finish,
                  CrashExport
    <2>2. writer.phase = "expire" /\ id \in writer.expired
      BY <1>1, <2>1 DEF DeleteExpired
    <2>3. /\ Len(history) >= Retention - 1
          /\ \A i \in 1..Retention - 1 : history[i] > id
      BY <1>1, <2>2 DEF CheckpointInv, ExpiredAreOutlived
    <2>4. /\ history \in Seq(Checkpoints)
          /\ Range(history) = {history[i] : i \in 1..Len(history)}
      BY <1>1, HistoryIsTyped, RangeEquality
    <2>5. /\ Retention \in Nat /\ Retention >= 2 /\ Len(history) \in Nat
          /\ 1..Retention - 1 \subseteq 1..Len(history)
      BY <1>1, <2>3, HistoryIsTyped
    <2>6. \A i \in 1..Retention - 1 : history[i] \in newer
      BY <2>3, <2>4, <2>5
    <2>7. \A i, j \in 1..Retention - 1 : history[i] = history[j] => i = j
      <3> SUFFICES ASSUME NEW i \in 1..Retention - 1, NEW j \in 1..Retention - 1,
                          history[i] = history[j], i # j
                   PROVE  FALSE
        OBVIOUS
      <3>1. i < j \/ j < i
        BY <2>5
      <3>2. history[i] \in Nat /\ history[j] \in Nat
        BY <1>1, <2>5, HistoryIsTyped
      <3> QED
        BY <1>1, <2>5, <3>1, <3>2 DEF CheckpointInv, HistoryDescends
    <2> HIDE DEF newer
    <2>8. newest \in Injection(1..Retention - 1, newer)
      BY <2>6, <2>7 DEF Injection, IsInjective
    <2>9. IsFiniteSet(Range(history))
      <3>1. IsFiniteSet(1..Len(history))
        BY <2>5, FS_Interval
      <3>2. history \in Surjection(1..Len(history), Range(history))
        BY <2>4, <2>5, LenProperties DEF Surjection
      <3> QED
        BY <3>1, <3>2, FS_Surjection
    <2>10. IsFiniteSet(newer)
      BY <2>9, FS_Subset DEF newer
    <2>11. Cardinality(1..Retention - 1) = Retention - 1
      BY <2>5, FS_Interval
    <2> HIDE DEF newest
    <2>12. Cardinality(1..Retention - 1) <= Cardinality(newer)
      BY <2>8, <2>10, FS_Injection
    <2>13. Cardinality(newer) \in Nat
      BY <2>10, FS_CardinalityType
    <2> QED
      BY <2>5, <2>11, <2>12, <2>13 DEF newer
  <1>2. CheckpointInv /\ [CheckpointsNext]_checkpointVars =>
            [\A id \in bucket \ bucket' :
                Cardinality({kept \in Range(history) : kept > id}) >= Retention - 1]_checkpointVars
    BY <1>1
  <1> QED
    BY <1>2, CheckpointInvariant, PTL DEF CheckpointsSpec, OutlivedBeforeDeleted
=============================================================================
