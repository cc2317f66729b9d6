------------------------- MODULE SessionShellProofs -------------------------
(***************************************************************************)
(* What TLAPS proves of SessionShell, for any execs and exit codes,        *)
(* however the terminal echoes and however the output is cut into chunks.  *)
(***************************************************************************)
EXTENDS SessionShell, TLAPS

(***************************************************************************)
(* Sentinels in sequences of pieces                                        *)
(***************************************************************************)

LEMMA SentinelPieces ==
  ASSUME NEW e \in Execs
  PROVE  /\ Sentinel(e) \in Seq(Pieces) /\ Len(Sentinel(e)) = 2
         /\ Sentinel(e)[1].of = e /\ Sentinel(e)[2].of = e
  BY DEF Sentinel, Pieces

LEMMA EchoPieces ==
  ASSUME NEW e \in Execs, NEW echo \in {<<>>, Sentinel(e)}
  PROVE  echo \in Seq(Pieces)
<1>1. CASE echo = <<>>
  BY <1>1
<1>2. CASE echo = Sentinel(e)
  BY <1>2, SentinelPieces
<1> QED
  BY <1>1, <1>2

(* A sentinel is in a sequence where its two halves are side by side.       *)
LEMMA SentinelHalves ==
  ASSUME NEW s \in Seq(Pieces), NEW e \in Execs, NEW i \in 1..(Len(s) - 1)
  PROVE  SubSeq(s, i, i + 1) = Sentinel(e)
           <=> s[i] = Sentinel(e)[1] /\ s[i + 1] = Sentinel(e)[2]
<1> DEFINE u == SubSeq(s, i, i + 1)
<1>1. u \in Seq(Pieces) /\ Len(u) = 2
  BY \A j \in i..(i + 1) : s[j] \in Pieces
<1>2. u[1] = s[i] /\ u[2] = s[i + 1]
  BY i + 1 - 1 = i
<1> HIDE DEF u
<1>3. u = Sentinel(e) <=> u[1] = Sentinel(e)[1] /\ u[2] = Sentinel(e)[2]
  BY <1>1, SentinelPieces
<1> QED
  BY <1>2, <1>3 DEF u

LEMMA SentinelAt ==
  ASSUME NEW s, s \in Seq(Pieces), NEW e \in Execs,
         NEW i \in 1..(Len(s) - 1), s[i] = Sentinel(e)[1], s[i + 1] = Sentinel(e)[2]
  PROVE  HasSentinel(s, e)
  BY SentinelHalves DEF HasSentinel

(* Joining chunks is associative.                                           *)
LEMMA Pasted ==
  ASSUME NEW s \in Seq(Pieces), NEW t \in Seq(Pieces), NEW u \in Seq(Pieces)
  PROVE  (s \o t) \o u = s \o (t \o u)
  OBVIOUS

(* Output only grows: what holds a sentinel holds it with more behind.      *)
LEMMA SentinelStays ==
  ASSUME NEW s \in Seq(Pieces), NEW t \in Seq(Pieces), NEW e \in Execs, HasSentinel(s, e)
  PROVE  HasSentinel(s \o t, e)
<1>1. PICK i \in 1..(Len(s) - 1) : s[i] = Sentinel(e)[1] /\ s[i + 1] = Sentinel(e)[2]
  BY SentinelHalves DEF HasSentinel
<1>2. s \o t \in Seq(Pieces)
  OBVIOUS
<1>3. i \in 1..(Len(s \o t) - 1) /\ (s \o t)[i] = s[i] /\ (s \o t)[i + 1] = s[i + 1]
  OBVIOUS
<1> QED
  BY <1>1, <1>2, <1>3, SentinelAt

(* A whole sentinel that is put out is there.                               *)
LEMMA SentinelArrives ==
  ASSUME NEW s \in Seq(Pieces), NEW e \in Execs
  PROVE  HasSentinel(s \o Sentinel(e), e)
<1>1. s \o Sentinel(e) \in Seq(Pieces)
  BY SentinelPieces
<1>2. /\ Len(s) + 1 \in 1..(Len(s \o Sentinel(e)) - 1)
      /\ (s \o Sentinel(e))[Len(s) + 1] = Sentinel(e)[1]
      /\ (s \o Sentinel(e))[(Len(s) + 1) + 1] = Sentinel(e)[2]
  BY SentinelPieces
<1> QED
  BY <1>1, <1>2, SentinelAt

(* A chunk without a piece of e, taken from between what e has read and what *)
(* is still to come, breaks no sentinel of e.                               *)
LEMMA SentinelSurvives ==
  ASSUME NEW s \in Seq(Pieces), NEW t \in Seq(Pieces), NEW e \in Execs, NEW n \in 1..Len(t),
         HasSentinel(s \o t, e), \A i \in 1..n : t[i].of # e
  PROVE  HasSentinel(s \o SubSeq(t, n + 1, Len(t)), e)
<1> DEFINE u == SubSeq(t, n + 1, Len(t))
<1>1. /\ u \in Seq(Pieces) /\ Len(u) = Len(t) - n /\ \A i \in 1..Len(u) : u[i] = t[i + n]
      /\ s \o t \in Seq(Pieces) /\ s \o u \in Seq(Pieces)
  OBVIOUS
<1> SUFFICES HasSentinel(s \o u, e)
  OBVIOUS
<1> HIDE DEF u
<1>2. PICK i \in 1..(Len(s \o t) - 1) :
        (s \o t)[i] = Sentinel(e)[1] /\ (s \o t)[i + 1] = Sentinel(e)[2]
  BY <1>1, SentinelHalves DEF HasSentinel
<1>3. \A j \in (Len(s) + 1)..(Len(s) + n) : (s \o t)[j].of # e
  <2> TAKE j \in (Len(s) + 1)..(Len(s) + n)
  <2>1. j - Len(s) \in 1..n /\ (s \o t)[j] = t[j - Len(s)]
    OBVIOUS
  <2> QED
    BY <2>1
<1>4. i \notin (Len(s) + 1)..(Len(s) + n) /\ i + 1 \notin (Len(s) + 1)..(Len(s) + n)
  BY <1>2, <1>3, SentinelPieces
<1>5. CASE i + 1 <= Len(s)
  <2>1. /\ i \in 1..(Len(s \o u) - 1)
        /\ (s \o u)[i] = (s \o t)[i] /\ (s \o u)[i + 1] = (s \o t)[i + 1]
    BY <1>1, <1>5
  <2> QED
    BY <1>1, <1>2, <2>1, SentinelAt
<1>6. CASE i > Len(s) + n
  <2>1. /\ i - n \in 1..(Len(s \o u) - 1)
        /\ (s \o u)[i - n] = (s \o t)[i] /\ (s \o u)[(i - n) + 1] = (s \o t)[i + 1]
    <3>1. \A j \in 1..Len(u) : (s \o u)[Len(s) + j] = (s \o t)[Len(s) + n + j]
      BY <1>1
    <3>2. i - n - Len(s) \in 1..Len(u) /\ i - n - Len(s) + 1 \in 1..Len(u)
      BY <1>1, <1>6
    <3>3. /\ (s \o u)[Len(s) + (i - n - Len(s))] = (s \o t)[Len(s) + n + (i - n - Len(s))]
          /\ (s \o u)[Len(s) + (i - n - Len(s) + 1)] = (s \o t)[Len(s) + n + (i - n - Len(s) + 1)]
      BY <3>1, <3>2
    <3>4. /\ Len(s) + (i - n - Len(s)) = i - n /\ Len(s) + n + (i - n - Len(s)) = i
          /\ Len(s) + (i - n - Len(s) + 1) = (i - n) + 1
          /\ Len(s) + n + (i - n - Len(s) + 1) = i + 1
      BY <1>1
    <3>5. i - n \in 1..(Len(s \o u) - 1)
      BY <1>1, <3>2
    <3> QED
      BY <3>3, <3>4, <3>5
  <2> QED
    BY <1>1, <1>2, <2>1, SentinelAt
<1> QED
  BY <1>4, <1>5, <1>6

(***************************************************************************)
(* Type correctness                                                        *)
(***************************************************************************)

LEMMA InitTypes == Init => TypeOK
  BY ShellAssumption DEF Init, TypeOK

LEMMA NextTypes ==
  ASSUME TypeOK, [Next]_vars
  PROVE  TypeOK'
<1> USE ShellAssumption DEF TypeOK
<1>1. ASSUME NEW e \in Execs, Exec(e) PROVE TypeOK'
  <2>1. CASE WriteLine(e)
    <3>1. PICK echo \in {<<>>, Sentinel(e)} : stream' = stream \o echo
      BY <2>1 DEF WriteLine, Emit
    <3>2. stream' \in Seq(Pieces)
      <4>1. echo \in Seq(Pieces)
        BY EchoPieces
      <4> QED
        BY <3>1, <4>1
    <3>3. lines' \in Seq(Execs)
      BY <2>1 DEF WriteLine
    <3> QED
      BY <2>1, <3>2, <3>3 DEF WriteLine
  <2>2. CASE WriteFails(e) \/ TimesOut(e)
    BY <2>2 DEF WriteFails, TimesOut
  <2>3. CASE Answer(e)
    BY <2>3 DEF Answer, ParsedCode
  <2> QED
    BY <1>1, <2>1, <2>2, <2>3 DEF Exec
<1>2. ASSUME NEW e \in Execs, Reader(e) PROVE TypeOK'
  <2>1. CASE Lock(e) \/ ReadNothing(e)
    BY <2>1 DEF Lock, ReadNothing
  <2>2. CASE Read(e)
    <3>1. PICK n \in 1..Len(stream) :
            /\ output' = [output EXCEPT ![e] = output[e] \o SubSeq(stream, 1, n)]
            /\ stream' = SubSeq(stream, n + 1, Len(stream))
            /\ reader' = [reader EXCEPT ![e] =
                            IF HasSentinel(output[e] \o SubSeq(stream, 1, n), e)
                              THEN "ended" ELSE "reading"]
      BY <2>2 DEF Read
    <3>2. stream' \in Seq(Pieces) /\ output[e] \o SubSeq(stream, 1, n) \in Seq(Pieces)
      BY <3>1
    <3>3. output' \in [Execs -> Seq(Pieces)]
      BY <3>1, <3>2
    <3>4. reader' \in [Execs -> {"none", "reading", "ended"}]
      BY <3>1
    <3> QED
      BY <2>2, <3>2, <3>3, <3>4 DEF Read
  <2> QED
    BY <1>2, <2>1, <2>2 DEF Reader
<1>3. CASE Shell
  <2>1. CASE TakeLine
    <3>1. Head(lines) \in Execs /\ lines' \in Seq(Execs)
      BY <2>1 DEF TakeLine
    <3>2. PICK echo \in {<<>>, Sentinel(Head(lines))} : stream' = stream \o echo
      BY <2>1 DEF TakeLine, Emit
    <3>3. stream' \in Seq(Pieces)
      <4>1. echo \in Seq(Pieces)
        BY <3>1, EchoPieces
      <4> QED
        BY <3>2, <4>1
    <3> QED
      BY <2>1, <3>1, <3>3 DEF TakeLine
  <2>2. ASSUME NEW e \in Execs, CommandEnds(e) PROVE TypeOK'
    <3>1. stream' \in Seq(Pieces)
      BY <2>2, SentinelPieces DEF CommandEnds, Emit
    <3> QED
      BY <2>2, <3>1 DEF CommandEnds
  <2>3. CASE ShellExits
    BY <2>3 DEF ShellExits
  <2> QED
    BY <1>3, <2>1, <2>2, <2>3 DEF Shell
<1>4. CASE UNCHANGED vars
  BY <1>4 DEF vars
<1> QED
  BY <1>1, <1>2, <1>3, <1>4 DEF Next

(* Every variable keeps its type; the lock is held by a thread that reads.   *)
THEOREM ShellTypes == Spec => []TypeOK
  BY InitTypes, NextTypes, PTL DEF Spec

(***************************************************************************)
(* The inductive invariant: where the sentinel of a command is             *)
(***************************************************************************)

(* A thread that reads on has not seen its sentinel.                        *)
UnseenInv ==
  \A e \in Execs :
    /\ exec[e] = "idle" => reader[e] = "none" /\ output[e] = <<>>
    /\ reader[e] = "reading" => ~HasSentinel(output[e], e)

(* When a command has ended its sentinel is in what its thread has read or   *)
(* will read next, unless another thread has taken a half of it.            *)
AheadInv ==
  \A e \in Execs :
    code[e] # NULL /\ ~Robbed(e) => HasSentinel(output[e] \o stream, e)

ShellInv == TypeOK /\ UnseenInv /\ AheadInv

(* The terminal puts something out.                                         *)
LEMMA EmitAhead ==
  ASSUME ShellInv, NEW t \in Seq(Pieces), stream' = stream \o t, output' = output,
         NEW e \in Execs, code[e] # NULL \/ t = Sentinel(e), ~Robbed(e)
  PROVE  HasSentinel(output[e] \o stream', e)
<1> USE DEF ShellInv, TypeOK
<1>1. output[e] \o stream \in Seq(Pieces)
      /\ output[e] \o (stream \o t) = (output[e] \o stream) \o t
  OBVIOUS
<1>2. CASE code[e] # NULL
  BY <1>1, <1>2, SentinelStays DEF AheadInv
<1>3. CASE t = Sentinel(e)
  BY <1>1, <1>3, SentinelArrives
<1> QED
  BY <1>2, <1>3

LEMMA ReadAhead ==
  ASSUME ShellInv, NEW r \in Execs, NEW n \in 1..Len(stream),
         output' = [output EXCEPT ![r] = output[r] \o SubSeq(stream, 1, n)],
         stream' = SubSeq(stream, n + 1, Len(stream)),
         NEW e \in Execs, code[e] # NULL, ~Robbed(e)'
  PROVE  HasSentinel(output'[e] \o stream', e)
<1> USE DEF ShellInv, TypeOK
<1>1. /\ SubSeq(stream, 1, n) \in Seq(Pieces) /\ Len(SubSeq(stream, 1, n)) = n
      /\ \A i \in 1..n : SubSeq(stream, 1, n)[i] = stream[i]
  OBVIOUS
<1>2. /\ Len(output'[r]) = Len(output[r]) + n
      /\ \A i \in 1..Len(output[r]) : output'[r][i] = output[r][i]
      /\ \A i \in 1..n : output'[r][Len(output[r]) + i] = stream[i]
  BY <1>1
<1>3. \A q \in Execs \ {r} : output'[q] = output[q]
  OBVIOUS
<1>4. \A q \in Execs \ {e} : \A i \in 1..Len(output'[q]) : output'[q][i].of # e
  BY DEF Robbed
<1>5. ~Robbed(e)
  BY <1>2, <1>3, <1>4 DEF Robbed
<1>6. HasSentinel(output[e] \o stream, e)
  BY <1>5 DEF AheadInv
<1>7. CASE r = e
  <2> DEFINE c == SubSeq(stream, 1, n)
             d == SubSeq(stream, n + 1, Len(stream))
  <2>1. c \o d = stream
    OBVIOUS
  <2>2. c \in Seq(Pieces) /\ d \in Seq(Pieces) /\ output[e] \in Seq(Pieces)
    OBVIOUS
  <2>3. output'[e] \o stream' = (output[e] \o c) \o d
    BY <1>7
  <2> HIDE DEF c, d
  <2>4. (output[e] \o c) \o d = output[e] \o (c \o d)
    BY <2>2, Pasted
  <2> QED
    BY <1>6, <2>1, <2>3, <2>4
<1>8. CASE r # e
  <2>1. \A i \in 1..n : stream[i].of # e
    <3> TAKE i \in 1..n
    <3>1. Len(output[r]) + i \in 1..Len(output'[r])
      BY <1>2
    <3> QED
      <4>1. output'[r][Len(output[r]) + i].of # e
        BY <1>4, <1>8, <3>1
      <4> QED
        BY <1>2, <4>1
  <2>2. output[e] \in Seq(Pieces) /\ stream \in Seq(Pieces)
    OBVIOUS
  <2>3. HasSentinel(output[e] \o SubSeq(stream, n + 1, Len(stream)), e)
    BY <1>6, <2>1, <2>2, SentinelSurvives
  <2> QED
    BY <1>3, <1>8, <2>3
<1> QED
  BY <1>7, <1>8

(* What is only put out, and nothing read, keeps the invariant.             *)
LEMMA EmitShell ==
  ASSUME ShellInv, NEW t, t \in Seq(Pieces), stream' = stream \o t,
         UNCHANGED <<output, reader, exec>>,
         \A e \in Execs : code'[e] # NULL => code[e] # NULL \/ t = Sentinel(e)
  PROVE  UnseenInv' /\ AheadInv'
<1>1. UnseenInv'
  BY DEF ShellInv, UnseenInv
<1>2. ASSUME NEW e \in Execs, code'[e] # NULL, ~Robbed(e)'
      PROVE  HasSentinel(output'[e] \o stream', e)
  <2>1. ~Robbed(e)
    BY <1>2 DEF Robbed
  <2>2. code[e] # NULL \/ t = Sentinel(e)
    BY <1>2
  <2>3. HasSentinel(output[e] \o stream', e)
    BY <2>1, <2>2, EmitAhead
  <2> QED
    BY <2>3
<1> QED
  BY <1>1, <1>2 DEF AheadInv

LEMMA NextShell == ShellInv /\ [Next]_vars => ShellInv'
<1> SUFFICES ASSUME ShellInv, [Next]_vars PROVE UnseenInv' /\ AheadInv'
  BY NextTypes DEF ShellInv
<1>1. ASSUME NEW e \in Execs, WriteLine(e) PROVE UnseenInv' /\ AheadInv'
  <2>1. PICK echo \in {<<>>, Sentinel(e)} : stream' = stream \o echo
    BY <1>1 DEF WriteLine, Emit
  <2>2. echo \in Seq(Pieces)
    BY EchoPieces
  <2>3. UnseenInv'
    <3>1. ~HasSentinel(<<>>, e)
      BY DEF HasSentinel
    <3> QED
      BY <1>1, <3>1 DEF WriteLine, UnseenInv, ShellInv, TypeOK
  <2>4. ASSUME NEW q \in Execs, code'[q] # NULL, ~Robbed(q)'
        PROVE  HasSentinel(output'[q] \o stream', q)
    <3>1. output' = output /\ code' = code
      BY <1>1 DEF WriteLine
    <3>2. ~Robbed(q)
      BY <2>4, <3>1 DEF Robbed
    <3>3. HasSentinel(output[q] \o stream', q)
      BY <2>1, <2>2, <2>4, <3>1, <3>2, EmitAhead
    <3> QED
      BY <3>1, <3>3
  <2> QED
    BY <2>3, <2>4 DEF AheadInv
<1>2. ASSUME NEW e \in Execs,
             \/ WriteFails(e) \/ Answer(e) \/ TimesOut(e) \/ Lock(e) \/ ReadNothing(e)
      PROVE  UnseenInv' /\ AheadInv'
  <2>1. /\ UNCHANGED <<output, stream, code, reader>>
        /\ \A q \in Execs : exec'[q] = "idle" => exec[q] = "idle"
    BY <1>2 DEF WriteFails, Answer, TimesOut, Lock, ReadNothing, ShellInv, TypeOK
  <2> QED
    BY <2>1 DEF UnseenInv, AheadInv, Robbed, ShellInv
<1>3. ASSUME NEW r \in Execs, Read(r) PROVE UnseenInv' /\ AheadInv'
  <2>1. PICK n \in 1..Len(stream) :
          /\ output' = [output EXCEPT ![r] = output[r] \o SubSeq(stream, 1, n)]
          /\ stream' = SubSeq(stream, n + 1, Len(stream))
          /\ reader' = [reader EXCEPT ![r] =
                          IF HasSentinel(output[r] \o SubSeq(stream, 1, n), r)
                            THEN "ended" ELSE "reading"]
    BY <1>3 DEF Read
  <2>2. code' = code /\ exec' = exec
    BY <1>3 DEF Read
  <2>3. ASSUME NEW e \in Execs, code'[e] # NULL, ~Robbed(e)'
        PROVE  HasSentinel(output'[e] \o stream', e)
    BY <2>1, <2>2, <2>3, ReadAhead
  <2>4. exec[r] # "idle"
    BY <1>3, ShellAssumption DEF Read, UnseenInv, ShellInv, TypeOK
  <2>5. UnseenInv'
    BY <2>1, <2>2, <2>4 DEF UnseenInv, ShellInv, TypeOK
  <2> QED
    BY <2>3, <2>5 DEF AheadInv
<1>4. CASE TakeLine
  <2>1. PICK echo \in {<<>>, Sentinel(Head(lines))} : stream' = stream \o echo
    BY <1>4 DEF TakeLine, Emit
  <2>2. Head(lines) \in Execs
    BY <1>4 DEF TakeLine, ShellInv, TypeOK
  <2>3. echo \in Seq(Pieces)
    BY <2>2, EchoPieces
  <2>4. UNCHANGED <<output, reader, exec, code>>
    BY <1>4 DEF TakeLine
  <2> QED
    BY <2>1, <2>3, <2>4, EmitShell
<1>5. ASSUME NEW e \in Execs, CommandEnds(e) PROVE UnseenInv' /\ AheadInv'
  <2>1. stream' = stream \o Sentinel(e) /\ UNCHANGED <<output, reader, exec>>
    BY <1>5 DEF CommandEnds, Emit
  <2>2. Sentinel(e) \in Seq(Pieces)
    BY SentinelPieces
  <2>3. \A q \in Execs : code'[q] # NULL => code[q] # NULL \/ q = e
    BY <1>5 DEF CommandEnds, ShellInv, TypeOK
  <2> QED
    BY <2>1, <2>2, <2>3, EmitShell
<1>6. CASE ShellExits \/ UNCHANGED vars
  <2>1. UNCHANGED <<output, stream, code, reader, exec>>
    BY <1>6 DEF ShellExits, vars
  <2> QED
    BY <2>1 DEF UnseenInv, AheadInv, Robbed, ShellInv
<1> QED
  BY <1>1, <1>2, <1>3, <1>4, <1>5, <1>6 DEF Next, Exec, Reader, Shell

(* A reader thread misses the sentinel of its command only if another thread *)
(* of the session took a half of it: however often the terminal echoes it,   *)
(* however the output is cut into chunks, whoever times out meanwhile        *)
(* (read_until_sentinel).                                                   *)
THEOREM MissedSentinelsWereTaken == Spec => []MissedOnlyIfRobbed
<1>1. Init => ShellInv
  <2> SUFFICES ASSUME Init PROVE UnseenInv /\ AheadInv
    BY InitTypes DEF ShellInv
  <2> QED
    BY DEF Init, UnseenInv, AheadInv
<1>2. ShellInv => MissedOnlyIfRobbed
  <2> SUFFICES ASSUME ShellInv, NEW e \in Execs, reader[e] = "reading", code[e] # NULL,
                      stream = <<>>, ~Robbed(e)
               PROVE  FALSE
    BY DEF MissedOnlyIfRobbed
  <2>1. output[e] \o stream = output[e]
    BY DEF ShellInv, TypeOK
  <2> QED
    BY <2>1 DEF ShellInv, UnseenInv, AheadInv
<1> QED
  BY <1>1, <1>2, NextShell, PTL DEF Spec

=============================================================================
