------------------------- MODULE StreamBufferProofs -------------------------
(***************************************************************************)
(* What TLAPS proves of StreamBuffer, for every buffer size and every set  *)
(* of line lengths.  The byte count of the queue stays unexpanded: no      *)
(* theorem here depends on when push finds the buffer full by bytes.       *)
(***************************************************************************)
EXTENDS StreamBuffer, SequenceTheorems, TLAPS

(* Every loss that may show in a reply is in the counter the reply carries, *)
(* or will be read into it.                                                 *)
LossCounted ==
  /\ Lost <= bytesDropped + blanks
  /\ reply.pc = "tailed" => reply.lost <= bytesDropped + reply.blanks
  /\ LossReported

(* The inductive invariant of the theorems that hold for all lengths. *)
BufferInv == TypeOK /\ LineBound /\ NewestKept /\ ReplyIsTail

-----------------------------------------------------------------------------

(* What StreamBuffer::tail returns: the last min(n, length) lines. *)
LEMMA TailOfLines ==
  ASSUME NEW S, NEW q \in Seq(S), NEW n \in Nat
  PROVE  /\ TailOf(q, n) \in Seq(S)
         /\ Len(TailOf(q, n)) <= Len(q)
         /\ \A i \in 1..Len(TailOf(q, n)) :
              TailOf(q, n)[i] = q[Len(q) - Len(TailOf(q, n)) + i]
<1>1. Len(q) \in Nat
  BY LenProperties
<1>2. PICK first \in 1..(Len(q) + 1) : TailOf(q, n) = SubSeq(q, first, Len(q))
  <2>1. CASE Len(q) > n
    <3>1. Len(q) - n + 1 \in 1..(Len(q) + 1) /\ TailOf(q, n) = SubSeq(q, Len(q) - n + 1, Len(q))
      BY <1>1, <2>1 DEF TailOf
    <3> QED
      BY <3>1
  <2>2. CASE ~(Len(q) > n)
    <3>1. 1 \in 1..(Len(q) + 1) /\ TailOf(q, n) = SubSeq(q, 1, Len(q))
      BY <1>1, <2>2 DEF TailOf
    <3> QED
      BY <3>1
  <2> QED
    BY <2>1, <2>2
<1>3. \A i \in first..Len(q) : q[i] \in S
  BY <1>1, ElementOfSeq
<1>4. /\ SubSeq(q, first, Len(q)) \in Seq(S)
      /\ Len(SubSeq(q, first, Len(q))) = IF first <= Len(q) THEN Len(q) - first + 1 ELSE 0
      /\ \A i \in 1..(Len(q) - first + 1) : SubSeq(q, first, Len(q))[i] = q[first + i - 1]
  BY <1>1, <1>3, SubSeqProperties
<1> DEFINE t == TailOf(q, n)
<1>5. t \in Seq(S) /\ Len(t) = Len(q) - first + 1 /\ \A i \in 1..Len(t) : t[i] = q[first + i - 1]
  BY <1>1, <1>2, <1>4
<1> HIDE DEF t
<1>6. /\ Len(t) <= Len(q)
      /\ \A i \in 1..Len(t) : t[i] = q[Len(q) - Len(t) + i]
  BY <1>1, <1>5
<1> QED
  BY <1>5, <1>6 DEF t

(* What a full push leaves: the lines without the oldest, if there is one. *)
LEMMA PopFrontLines ==
  ASSUME NEW S, NEW q \in Seq(S)
  PROVE  /\ PopFront(q) \in Seq(S)
         /\ Len(PopFront(q)) = IF Len(q) = 0 THEN 0 ELSE Len(q) - 1
         /\ \A i \in 1..Len(PopFront(q)) : PopFront(q)[i] = q[i + 1]
<1>1. CASE q = <<>>
  BY <1>1 DEF PopFront
<1>2. CASE q # <<>>
  BY <1>2, HeadTailProperties DEF PopFront
<1> QED
  BY <1>1, <1>2

-----------------------------------------------------------------------------

LEMMA InitInv == Init => BufferInv
  BY BufferAssumption DEF Init, BufferInv, TypeOK, LineBound, NewestKept, ReplyIsTail,
       Idle, Lost, Line

(* push, whether or not the buffer is full, keeps the queue bounded, gapless *)
(* and up to date.                                                           *)
LEMMA PushInv ==
  ASSUME BufferInv, NEW len \in Lengths, Push(len)
  PROVE  BufferInv'
<1> DEFINE line == [no |-> pushed + 1, len |-> len]
<1> USE BufferAssumption
<1>1. lines \in Seq(Line) /\ line \in Line /\ pushed \in Nat /\ len \in Nat /\ Len(lines) \in Nat
  BY DEF BufferInv, TypeOK, Line
<1>2. CASE Full(lines, len) /\ lines' = Append(PopFront(lines), line)
  <2> DEFINE kept == PopFront(lines)
  <2>1. /\ kept \in Seq(Line)
        /\ Len(kept) = IF Len(lines) = 0 THEN 0 ELSE Len(lines) - 1
        /\ \A i \in 1..Len(kept) : kept[i] = lines[i + 1]
    BY <1>1, PopFrontLines
  <2>2. /\ lines' \in Seq(Line)
        /\ Len(lines') = Len(kept) + 1
        /\ \A i \in 1..Len(kept) : lines'[i] = kept[i]
        /\ lines'[Len(kept) + 1] = line
    BY <1>1, <1>2, <2>1, AppendProperties
  <2> HIDE DEF kept
  <2>3. LineBound'
    BY <1>1, <2>1, <2>2 DEF LineBound, BufferInv
  <2>4. \A i \in 1..Len(kept) : lines[i + 1].no = pushed - Len(lines) + i + 1
    BY <1>1, <2>1 DEF BufferInv, NewestKept, Lost
  <2>5. NewestKept'
    <3>1. Len(lines') <= pushed' /\ pushed' = pushed + 1 /\ Len(lines') \in Nat
      BY <1>1, <2>1, <2>2 DEF BufferInv, NewestKept, Push
    <3>2. ASSUME NEW i \in 1..Len(lines') PROVE lines'[i].no = pushed' - Len(lines') + i
      <4>1. CASE i = Len(kept) + 1
        <5>1. lines'[i].no = pushed + 1
          BY <2>2, <4>1
        <5>2. i = Len(lines') /\ pushed' = pushed + 1
          BY <2>2, <3>1, <4>1
        <5>3. pushed' - Len(lines') + i = pushed + 1
          BY <1>1, <3>1, <5>2
        <5> QED
          BY <5>1, <5>3
      <4>2. CASE i \in 1..Len(kept)
        <5>1. lines'[i] = lines[i + 1]
          BY <2>1, <2>2, <4>2
        <5>2. lines'[i].no = pushed - Len(lines) + i + 1
          BY <2>4, <4>2, <5>1
        <5>3. Len(lines') = Len(lines)
          BY <1>1, <2>1, <2>2, <4>2
        <5> QED
          BY <1>1, <3>1, <4>2, <5>2, <5>3
      <4> QED
        BY <2>1, <2>2, <4>1, <4>2
    <3> QED
      BY <3>1, <3>2 DEF NewestKept, Lost
  <2> QED
    BY <1>1, <2>2, <2>3, <2>5 DEF BufferInv, TypeOK, ReplyIsTail, Push, CountBlank
<1>3. CASE ~Full(lines, len) /\ lines' = Append(lines, line)
  <2>1. /\ lines' \in Seq(Line)
        /\ Len(lines') = Len(lines) + 1
        /\ \A i \in 1..Len(lines) : lines'[i] = lines[i]
        /\ lines'[Len(lines) + 1] = line
    BY <1>1, <1>3, AppendProperties
  <2>2. LineBound'
    BY <1>1, <1>3, <2>1 DEF LineBound, BufferInv, Full
  <2>3. NewestKept'
    BY <1>1, <2>1 DEF BufferInv, NewestKept, Lost, Push
  <2> QED
    BY <1>1, <2>1, <2>2, <2>3 DEF BufferInv, TypeOK, ReplyIsTail, Push, CountBlank
<1> QED
  BY <1>2, <1>3 DEF Push

LEMMA ReadTailInv ==
  ASSUME BufferInv, NEW n \in TailSizes, ReadTail(n)
  PROVE  BufferInv'
<1> DEFINE tail == TailOf(lines, n)
<1> USE BufferAssumption
<1>1. /\ lines \in Seq(Line)
      /\ pushed \in Nat
      /\ Len(lines) \in Nat
      /\ n \in Nat
      /\ Len(lines) <= pushed
      /\ \A i \in 1..Len(lines) : lines[i].no = pushed - Len(lines) + i
  BY DEF BufferInv, TypeOK, NewestKept, Lost
<1>2. /\ tail \in Seq(Line)
      /\ Len(tail) \in Nat
      /\ Len(tail) <= Len(lines)
      /\ \A i \in 1..Len(tail) : tail[i] = lines[Len(lines) - Len(tail) + i]
  <2>1. lines \in Seq(Line) /\ n \in Nat
    BY <1>1
  <2>2. /\ tail \in Seq(Line)
        /\ Len(tail) <= Len(lines)
        /\ \A i \in 1..Len(tail) : tail[i] = lines[Len(lines) - Len(tail) + i]
    BY ONLY <2>1, TailOfLines
  <2> QED
    BY <2>2, LenProperties
<1>3. /\ reply'.lines = tail
      /\ reply'.seen = pushed
      /\ reply'.lost = pushed - Len(lines)
      /\ reply' = [pc |-> "tailed", lines |-> tail, seen |-> pushed,
                   lost |-> pushed - Len(lines), blanks |-> blanks, dropped |-> 0]
  BY DEF ReadTail, Lost
<1> HIDE DEF tail
<1>4. ASSUME NEW i \in 1..Len(tail)
      PROVE  tail[i].no = pushed - Len(tail) + i
  <2>1. Len(lines) - Len(tail) + i \in 1..Len(lines)
    BY <1>1, <1>2
  <2>2. lines[Len(lines) - Len(tail) + i].no = pushed - Len(lines) + (Len(lines) - Len(tail) + i)
    BY <1>1, <2>1
  <2> QED
    BY <1>1, <1>2, <2>1, <2>2
<1>5. ReplyIsTail'
  BY <1>1, <1>2, <1>3, <1>4 DEF ReplyIsTail
<1>6. TypeOK'
  BY <1>1, <1>2, <1>3 DEF BufferInv, TypeOK, ReadTail
<1> QED
  BY <1>5, <1>6 DEF BufferInv, LineBound, NewestKept, Lost, ReadTail

LEMMA ReadDroppedInv ==
  ASSUME BufferInv, ReadDropped
  PROVE  BufferInv'
  BY DEF BufferInv, TypeOK, LineBound, NewestKept, Lost, ReplyIsTail, ReadDropped

LEMMA NextInv == BufferInv /\ [Next]_vars => BufferInv'
<1> SUFFICES ASSUME BufferInv, [Next]_vars PROVE BufferInv'
  OBVIOUS
<1>1. CASE \E len \in Lengths : Push(len)
  BY <1>1, PushInv
<1>2. CASE \E n \in TailSizes : ReadTail(n)
  BY <1>2, ReadTailInv
<1>3. CASE ReadDropped
  BY <1>3, ReadDroppedInv
<1>4. CASE UNCHANGED vars
  BY <1>4 DEF vars, BufferInv, TypeOK, LineBound, NewestKept, Lost, ReplyIsTail
<1> QED
  BY <1>1, <1>2, <1>3, <1>4 DEF Next

(* The inductive invariant of the buffer holds in every state. *)
THEOREM BufferInvariant == Spec => []BufferInv
  BY InitInv, NextInv, PTL DEF Spec

(* StreamBuffer's variables keep their types. *)
THEOREM BufferTypes == Spec => []TypeOK
<1>1. BufferInv => TypeOK
  BY DEF BufferInv
<1> QED
  BY <1>1, BufferInvariant, PTL

(* For every MAX_LINES, every MAX_BUFFER_BYTES and every length of line, the *)
(* queue written by push holds at most MAX_LINES lines.                      *)
THEOREM LinesBounded == Spec => []LineBound
<1>1. BufferInv => LineBound
  BY DEF BufferInv
<1> QED
  BY <1>1, BufferInvariant, PTL

(* The buffer always holds the newest lines of the stream, gapless. *)
THEOREM KeepsNewest == Spec => []NewestKept
<1>1. BufferInv => NewestKept
  BY DEF BufferInv
<1> QED
  BY <1>1, BufferInvariant, PTL

(* Every log reply of get_job_logs is the end of the stream as it was when   *)
(* the tail was taken.                                                       *)
THEOREM RepliesAreTails == Spec => []ReplyIsTail
<1>1. BufferInv => ReplyIsTail
  BY DEF BufferInv
<1> QED
  BY <1>1, BufferInvariant, PTL

-----------------------------------------------------------------------------

LEMMA InitLoss == Init => LossCounted
<1> SUFFICES ASSUME Init PROVE LossCounted
  OBVIOUS
<1>1. Lost = 0 /\ bytesDropped = 0 /\ blanks = 0
  <2>1. pushed = 0 /\ Len(lines) = 0 /\ bytesDropped = 0 /\ blanks = 0
    BY DEF Init
  <2> QED
    BY <2>1 DEF Lost
<1>2. reply.pc = "idle"
  BY DEF Init, Idle
<1> QED
  BY <1>1, <1>2 DEF LossCounted, LossReported

(* Every step keeps losses counted: a push that drops a line adds a byte to  *)
(* the counter at least, or is blank.                                        *)
LEMMA NextLoss ==
  ASSUME BufferInv, LossCounted, [Next]_vars
  PROVE  LossCounted'
<1> USE BufferAssumption
<1>1. /\ lines \in Seq(Line) /\ pushed \in Nat /\ Len(lines) \in Nat
      /\ bytesDropped \in Nat /\ blanks \in Nat
      /\ reply.lost \in Nat /\ reply.blanks \in Nat /\ reply.dropped \in Nat
  BY DEF BufferInv, TypeOK
<1>2. ASSUME NEW len \in Lengths, Push(len) PROVE LossCounted'
  <2> DEFINE line == [no |-> pushed + 1, len |-> len]
  <2>1. line \in Line /\ len \in Nat /\ pushed' = pushed + 1 /\ reply' = reply
    BY <1>1, <1>2 DEF Line, Push
  <2>2. CASE Full(lines, len) /\ bytesDropped' = bytesDropped + len
              /\ lines' = Append(PopFront(lines), line)
    <3>1. PopFront(lines) \in Seq(Line)
          /\ Len(PopFront(lines)) = IF Len(lines) = 0 THEN 0 ELSE Len(lines) - 1
      BY <1>1, PopFrontLines
    <3>2. Len(lines') = Len(PopFront(lines)) + 1
      BY <2>1, <2>2, <3>1, AppendProperties
    <3>3. Len(lines') \in Nat /\ Len(lines') >= Len(lines)
      BY <1>1, <3>1, <3>2
    <3>4. blanks' = IF len = 0 THEN blanks + 1 ELSE blanks
      BY <1>2, <2>2 DEF Push, CountBlank
    <3>5. pushed' - Len(lines') <= bytesDropped' + blanks'
      BY <1>1, <2>1, <2>2, <3>3, <3>4 DEF LossCounted, Lost
    <3> QED
      BY <1>1, <2>1, <2>2, <3>5 DEF LossCounted, LossReported, Lost
  <2>3. CASE ~Full(lines, len) /\ lines' = Append(lines, line) /\ bytesDropped' = bytesDropped
    <3>1. Len(lines') = Len(lines) + 1
      BY <1>1, <2>1, <2>3, AppendProperties
    <3>2. blanks' = blanks
      BY <1>2, <2>3 DEF Push, CountBlank
    <3> QED
      BY <1>1, <2>1, <2>3, <3>1, <3>2 DEF LossCounted, LossReported, Lost
  <2> QED
    BY <1>2, <2>2, <2>3 DEF Push
<1>3. ASSUME NEW n \in TailSizes, ReadTail(n) PROVE LossCounted'
  BY <1>3 DEF LossCounted, LossReported, Lost, ReadTail
<1>4. CASE ReadDropped
  BY <1>4 DEF LossCounted, LossReported, Lost, ReadDropped, BufferInv, TypeOK
<1>5. CASE UNCHANGED vars
  BY <1>5 DEF vars, LossCounted, LossReported, Lost
<1> QED
  BY <1>2, <1>3, <1>4, <1>5 DEF Next

(* Whatever the lengths of the lines, blank ones among them, a log reply of  *)
(* get_job_logs is silent of a loss only by lines that a blank one pushed out. *)
THEOREM LossIsReported == Spec => []LossReported
<1>1. BufferInv /\ LossCounted /\ [Next]_vars => LossCounted'
  BY NextLoss
<1>2. LossCounted => LossReported
  BY DEF LossCounted
<1> QED
  BY <1>1, <1>2, InitLoss, BufferInvariant, PTL DEF Spec

=============================================================================
