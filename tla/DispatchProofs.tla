--------------------------- MODULE DispatchProofs ---------------------------
(***************************************************************************)
(* What TLAPS proves of Dispatch, for all machines, calls and constants.   *)
(***************************************************************************)
EXTENDS Dispatch, SequenceTheorems, FiniteSetTheorems, TLAPS

Breaker == [state : CircuitStates, openedAt : Ages, failures : Seq(Ages)]

-----------------------------------------------------------------------------
(* Lemmas about a single breaker.                                           *)

Assigned(b, f, s, a) == [b EXCEPT !.failures = f, !.state = s, !.openedAt = a]

(* Assigning the fields of a breaker values of their types keeps it one. *)
LEMMA BreakerFields ==
  ASSUME NEW b \in Breaker, NEW f \in Seq(Ages), NEW s \in CircuitStates, NEW a \in Ages
  PROVE  /\ Assigned(b, f, s, a) \in Breaker
         /\ Assigned(b, f, s, a).failures = f
         /\ Assigned(b, f, s, a).state = s
         /\ Assigned(b, f, s, a).openedAt = a
  BY DEF Breaker, Assigned

(* retain never adds a failure. *)
LEMMA RetainedType ==
  ASSUME NEW f \in Seq(Ages)
  PROVE  /\ Retained(f) \in Seq(Ages)
         /\ Len(Retained(f)) <= Len(f)
<1> DEFINE recent == {i \in DOMAIN f : f[i] < Window}
<1>1. Len(f) \in Nat /\ DOMAIN f = 1..Len(f) /\ \A i \in 1..Len(f) : f[i] \in Ages
  BY LenProperties
<1>2. IsFiniteSet(1..Len(f)) /\ Cardinality(1..Len(f)) = Len(f)
  <2>1. /\ IsFiniteSet(1..Len(f))
        /\ Cardinality(1..Len(f)) = IF 1 > Len(f) THEN 0 ELSE Len(f) - 1 + 1
    BY <1>1, FS_Interval
  <2> QED
    BY <1>1, <2>1
<1>3. recent \in SUBSET (1..Len(f))
  BY <1>1
<1>4. Cardinality(recent) \in Nat /\ Cardinality(recent) <= Len(f)
  BY <1>2, <1>3, FS_Subset, FS_CardinalityType
<1>5. \A i \in 1..Cardinality(recent) : f[i] \in Ages
  BY <1>1, <1>4
<1> HIDE DEF recent
<1>6. /\ SubSeq(f, 1, Cardinality(recent)) \in Seq(Ages)
      /\ Len(SubSeq(f, 1, Cardinality(recent))) <= Len(f)
  BY <1>1, <1>4, <1>5, SubSeqProperties
<1> QED
  BY <1>6 DEF Retained, recent

(* What record_failure keeps: one failure more at most, and no more than    *)
(* are represented.                                                         *)
LEMMA PushedType ==
  ASSUME NEW f \in Seq(Ages)
  PROVE  /\ Pushed(f) \in Seq(Ages)
         /\ Len(Pushed(f)) \in Nat
         /\ Len(Pushed(f)) <= Remembered
         /\ Len(Pushed(f)) <= Len(f) + 1
<1> DEFINE s == <<0>> \o Retained(f)
<1>1. 0 \in Ages /\ <<0>> \in Seq(Ages) /\ Len(<<0>>) = 1
  BY BreakerAssumption DEF Ages
<1>2. Retained(f) \in Seq(Ages) /\ Len(Retained(f)) <= Len(f) /\ Len(Retained(f)) \in Nat
      /\ Len(f) \in Nat
  BY RetainedType, LenProperties
<1>3. s \in Seq(Ages) /\ Len(s) = 1 + Len(Retained(f))
  BY <1>1, <1>2, ConcatProperties
<1>4. Pushed(f) = IF Len(s) <= Remembered THEN s ELSE SubSeq(s, 1, Remembered)
  BY DEF Pushed, AtMost
<1> HIDE DEF s
<1>5. CASE Len(s) <= Remembered
  BY <1>2, <1>3, <1>4, <1>5
<1>6. CASE ~(Len(s) <= Remembered)
  <2>1. \A i \in 1..Remembered : s[i] \in Ages
    BY <1>2, <1>3, <1>6, BreakerAssumption, ElementOfSeq
  <2>2. SubSeq(s, 1, Remembered) \in Seq(Ages) /\ Len(SubSeq(s, 1, Remembered)) = Remembered
    BY <2>1, BreakerAssumption, SubSeqProperties
  <2> QED
    BY <1>2, <1>3, <1>4, <1>6, <2>2, BreakerAssumption
<1> QED
  BY <1>5, <1>6

(* A new failure opens the breaker only if it is one of Threshold. *)
LEMMA RecordFailureFacts ==
  ASSUME NEW b \in Breaker
  PROVE  /\ RecordFailure(b) \in Breaker
         /\ Len(RecordFailure(b).failures) \in Nat
         /\ Len(RecordFailure(b).failures) <= Remembered
         /\ Len(RecordFailure(b).failures) <= Len(b.failures) + 1
         /\ RecordFailure(b).state = "Open" =>
              b.state = "Open" \/ Len(RecordFailure(b).failures) >= Threshold
<1>1. b.failures \in Seq(Ages) /\ b.state \in CircuitStates /\ b.openedAt \in Ages
  BY DEF Breaker
<1> DEFINE f == Pushed(b.failures)
           trips == Len(f) >= Threshold
<1>2. f \in Seq(Ages) /\ Len(f) \in Nat /\ Len(f) <= Remembered /\ Len(f) <= Len(b.failures) + 1
  BY <1>1, PushedType
<1> DEFINE s == IF trips THEN "Open" ELSE b.state
           a == IF trips THEN 0 ELSE b.openedAt
<1>3. RecordFailure(b) = Assigned(b, f, s, a)
  BY DEF RecordFailure, Breaker, Assigned
<1>4. s \in CircuitStates /\ a \in Ages
  BY <1>1, BreakerAssumption DEF CircuitStates, Ages
<1>5. s = "Open" => b.state = "Open" \/ Len(f) >= Threshold
  OBVIOUS
<1> HIDE DEF f, s, a
<1> QED
  BY <1>2, <1>3, <1>4, <1>5, BreakerFields

LEMMA RecordSuccessFacts ==
  ASSUME NEW b \in Breaker
  PROVE  /\ RecordSuccess(b) \in Breaker
         /\ RecordSuccess(b).failures = <<>>
         /\ RecordSuccess(b).state = "Closed"
<1>1. <<>> \in Seq(Ages) /\ "Closed" \in CircuitStates /\ 0 \in Ages
  BY BreakerAssumption DEF CircuitStates, Ages
<1>2. RecordSuccess(b) = Assigned(b, <<>>, "Closed", 0)
  BY DEF RecordSuccess, Assigned
<1> DEFINE none == <<>>
<1>3. none \in Seq(Ages)
  BY <1>1
<1> HIDE DEF none
<1>4. /\ Assigned(b, none, "Closed", 0) \in Breaker
      /\ Assigned(b, none, "Closed", 0).failures = none
      /\ Assigned(b, none, "Closed", 0).state = "Closed"
  BY <1>1, <1>3, BreakerFields
<1> QED
  BY <1>2, <1>4 DEF none

(* Time changes neither the state nor the number of failures. *)
LEMMA AgedFacts ==
  ASSUME NEW b \in Breaker
  PROVE  /\ Aged(b) \in Breaker
         /\ Len(Aged(b).failures) = Len(b.failures)
         /\ Aged(b).state = b.state
<1> DEFINE f == b.failures
           g == [i \in DOMAIN f |-> Older(f[i])]
<1>1. f \in Seq(Ages) /\ b.state \in CircuitStates /\ b.openedAt \in Ages
  BY DEF Breaker
<1>2. Len(f) \in Nat /\ DOMAIN f = 1..Len(f) /\ \A i \in 1..Len(f) : f[i] \in Ages
  BY <1>1, LenProperties
<1>3. \A a \in Ages : Older(a) \in Ages
  BY BreakerAssumption DEF Older, Ages
<1> DEFINE a == IF b.state = "Open" THEN Older(b.openedAt) ELSE b.openedAt
<1>4. Aged(b) = Assigned(b, g, b.state, a)
  BY DEF Aged, Breaker, Assigned
<1>8. a \in Ages
  BY <1>1, <1>3
<1> HIDE DEF f
<1>5. g \in [1..Len(f) -> Ages]
  BY <1>2, <1>3
<1>6. g \in Seq(Ages)
  BY <1>2, <1>5, IsASeq
<1>7. Len(g) = Len(f)
  <2>1. DOMAIN g = 1..Len(f) /\ DOMAIN g = 1..Len(g) /\ Len(g) \in Nat
    BY <1>5, <1>6, LenProperties
  <2> QED
    BY <1>2, <2>1
<1> HIDE DEF g, a
<1>9. /\ Assigned(b, g, b.state, a) \in Breaker
      /\ Assigned(b, g, b.state, a).failures = g
      /\ Assigned(b, g, b.state, a).state = b.state
  BY <1>1, <1>6, <1>8, BreakerFields
<1> QED
  BY <1>4, <1>7, <1>9 DEF f

-----------------------------------------------------------------------------
(* Lemmas about the shared state.                                           *)

Row == [status : Statuses, seen : (0..Horizon) \cup {NULL}]

Tasks == [Outcomes -> 0..(MaxPending + 1)]

(* Spawning a task that records. *)
LEMMA RecordFacts ==
  ASSUME TypeOK, NEW m \in Machines, NEW o \in Outcomes,
         Unapplied(m) <= MaxPending, Record(m, o)
  PROVE  /\ pending' \in [Machines -> Tasks]
         /\ \A n \in Machines \ {m} : pending'[n] = pending[n]
         /\ pending'[m][o] = pending[m][o] + 1
         /\ \A p \in Outcomes \ {o} : pending'[m][p] = pending[m][p]
<1>1. pending \in [Machines -> Tasks] /\ MaxPending \in Nat
  BY DispatchAssumption DEF TypeOK, Tasks
<1>2. pending[m]["success"] \in Nat /\ pending[m]["failure"] \in Nat
  BY <1>1 DEF Tasks, Outcomes
<1>3. pending[m][o] + 1 \in 0..(MaxPending + 1)
  BY <1>1, <1>2 DEF Unapplied, Outcomes
<1>4. [pending[m] EXCEPT ![o] = pending[m][o] + 1] \in Tasks
  BY <1>1, <1>3 DEF Tasks
<1>5. pending' = [pending EXCEPT ![m] = [pending[m] EXCEPT ![o] = pending[m][o] + 1]]
  BY DEF Record
<1> QED
  BY <1>1, <1>4, <1>5 DEF Tasks

(* Running one. *)
LEMMA ApplyFacts ==
  ASSUME TypeOK, NEW m \in Machines, NEW o \in Outcomes, pending[m][o] > 0,
         pending' = [pending EXCEPT ![m][o] = @ - 1]
  PROVE  /\ pending' \in [Machines -> Tasks]
         /\ \A n \in Machines \ {m} : pending'[n] = pending[n]
         /\ pending'[m][o] = pending[m][o] - 1
         /\ \A p \in Outcomes \ {o} : pending'[m][p] = pending[m][p]
<1>1. pending \in [Machines -> Tasks] /\ MaxPending \in Nat
  BY DispatchAssumption DEF TypeOK, Tasks
<1>2. pending[m][o] - 1 \in 0..(MaxPending + 1)
  BY <1>1 DEF Tasks
<1>3. [pending[m] EXCEPT ![o] = pending[m][o] - 1] \in Tasks
  BY <1>1, <1>2 DEF Tasks
<1>4. pending' = [pending EXCEPT ![m] = [pending[m] EXCEPT ![o] = pending[m][o] - 1]]
  OBVIOUS
<1> QED
  BY <1>1, <1>3, <1>4 DEF Tasks

(* Db::update_heartbeat writes a row of the right type, if any. *)
LEMMA UpdateFacts ==
  ASSUME TypeOK, NEW m \in Machines, NEW status \in Statuses, NEW age \in 0..Horizon,
         UpdateHeartbeat(m, status, age)
  PROVE  registry' \in [Machines -> Row]
<1>1. registry \in [Machines -> Row]
  BY DEF TypeOK, Row
<1>2. [status |-> status, seen |-> age] \in Row
  BY DEF Row
<1> QED
  BY <1>1, <1>2 DEF UpdateHeartbeat

(* Counting a failure, up to the threshold. *)
LEMMA StrikeFacts ==
  ASSUME TypeOK, NEW m \in Machines, Strike(m)
  PROVE  /\ strikes' \in [Machines -> 0..Threshold]
         /\ \A n \in Machines \ {m} : strikes'[n] = strikes[n]
         /\ strikes'[m] = strikes[m] + 1 \/ strikes'[m] = Threshold
         /\ strikes'[m] >= strikes[m]
  BY BreakerAssumption DEF TypeOK, Strike, UpToThreshold

-----------------------------------------------------------------------------
(* Types.                                                                   *)

BreakersOK ==
  /\ breaker \in [Machines -> Breaker]
  /\ \A m \in Machines : Len(breaker[m].failures) <= Remembered

HistoryOK ==
  /\ answered \in [Machines -> 0..Horizon]
  /\ strikes \in [Machines -> 0..Threshold]
  /\ hint \in [Machines -> (0..(OpenFor + Second)) \cup {NULL}]
  /\ lag \in [Machines -> 0..MaxLag]

Call == [step : Steps \ {"none"}, tool : Tools, machine : Machines, age : 0..MaxLag]

CallOK == call \in [Calls -> Call \cup {NoCall}]

Beat == [wait : 1..Period, due : 0..MaxDue, todo : SUBSET Machines,
         pinging : Machines \cup {NULL}, readAge : 0..PingTimeout]

LEMMA TypeParts ==
  ASSUME TypeOK
  PROVE  /\ BreakersOK
         /\ pending \in [Machines -> Tasks]
         /\ registry \in [Machines -> Row]
         /\ routed \subseteq Machines
         /\ well \subseteq Machines
         /\ CallOK
         /\ beat \in Beat
         /\ HistoryOK
  BY DEF TypeOK, BreakersOK, Breaker, Tasks, Row, CallOK, Call, Beat, HistoryOK

LEMMA TypeFromParts ==
  /\ BreakersOK
  /\ pending \in [Machines -> Tasks]
  /\ registry \in [Machines -> Row]
  /\ routed \subseteq Machines
  /\ well \subseteq Machines
  /\ CallOK
  /\ beat \in Beat
  /\ HistoryOK
  => TypeOK
  BY DEF TypeOK, BreakersOK, Breaker, Tasks, Row, CallOK, Call, Beat, HistoryOK

LEMMA NextTypeFromParts ==
  ASSUME BreakersOK', pending' \in [Machines -> Tasks], registry' \in [Machines -> Row],
         routed' \subseteq Machines, well' \subseteq Machines, CallOK', beat' \in Beat, HistoryOK'
  PROVE  TypeOK'
  BY DEF TypeOK, BreakersOK, Breaker, Tasks, Row, CallOK, Call, Beat, HistoryOK

LEMMA InitTypes == Init => TypeOK
<1> SUFFICES ASSUME Init PROVE TypeOK
  OBVIOUS
<1> USE BreakerAssumption, DispatchAssumption
<1>1. NewBreaker \in Breaker /\ Len(NewBreaker.failures) = 0
  BY DEF NewBreaker, Breaker, CircuitStates, Ages
<1>2. BreakersOK
  BY <1>1 DEF Init, BreakersOK
<1>3. pending \in [Machines -> Tasks]
  BY DEF Init, Tasks
<1>4. registry \in [Machines -> Row]
  BY DEF Init, Row, Statuses
<1>5. CallOK
  BY DEF Init, CallOK
<1>6. beat \in Beat
  BY DEF Init, Beat
<1>7. HistoryOK
  BY DEF Init, HistoryOK
<1> QED
  BY <1>2, <1>3, <1>4, <1>5, <1>6, <1>7, TypeFromParts DEF Init

LEMMA RegistryTypes ==
  ASSUME TypeOK, NEW m \in Machines, MachineAdd(m) \/ MachineRemove(m)
  PROVE  TypeOK'
<1> USE BreakerAssumption, DispatchAssumption
<1>1. \A r \in Row : [r EXCEPT !.status = "unknown"] \in Row
  BY DEF Row, Statuses
<1>2. [status |-> "removed", seen |-> NULL] \in Row
  BY DEF Row, Statuses
<1>3. registry' \in [Machines -> Row]
  BY <1>1, <1>2, TypeParts DEF MachineAdd, MachineRemove
<1>4. HistoryOK'
  BY TypeParts DEF MachineAdd, MachineRemove, HistoryOK
<1>5. BreakersOK' /\ CallOK' /\ routed' \subseteq Machines
  BY TypeParts DEF MachineAdd, MachineRemove, BreakersOK, CallOK
<1> QED
  BY <1>3, <1>4, <1>5, TypeParts, NextTypeFromParts DEF MachineAdd, MachineRemove

LEMMA BreakersTypes ==
  ASSUME TypeOK, NEW m \in Machines, ApplySuccess(m) \/ ApplyFailure(m)
  PROVE  TypeOK'
<1> USE BreakerAssumption, DispatchAssumption
<1>1. breaker[m] \in Breaker
  BY TypeParts DEF BreakersOK
<1>2. CASE ApplySuccess(m)
  <2> DEFINE b == RecordSuccess(breaker[m])
  <2>1. b \in Breaker /\ Len(b.failures) <= Remembered
    BY <1>1, RecordSuccessFacts
  <2>2. breaker' = [breaker EXCEPT ![m] = b]
    BY <1>2 DEF ApplySuccess
  <2> HIDE DEF b
  <2>3. BreakersOK'
    BY <2>1, <2>2, TypeParts DEF BreakersOK
  <2>4. pending' \in [Machines -> Tasks]
    BY <1>2, ApplyFacts DEF ApplySuccess, Outcomes
  <2>5. UpToThreshold(pending[m]["failure"]) \in 0..Threshold
    BY TypeParts DEF Tasks, UpToThreshold, Outcomes
  <2>6. HistoryOK'
    BY <1>2, <2>5, TypeParts DEF ApplySuccess, HistoryOK
  <2> QED
    BY <1>2, <2>3, <2>4, <2>6, TypeParts, NextTypeFromParts DEF ApplySuccess, CallOK
<1>3. CASE ApplyFailure(m)
  <2> DEFINE b == RecordFailure(breaker[m])
  <2>1. b \in Breaker /\ Len(b.failures) <= Remembered
    BY <1>1, RecordFailureFacts
  <2>2. breaker' = [breaker EXCEPT ![m] = b]
    BY <1>3 DEF ApplyFailure
  <2> HIDE DEF b
  <2>3. BreakersOK'
    BY <2>1, <2>2, TypeParts DEF BreakersOK
  <2>4. pending' \in [Machines -> Tasks]
    BY <1>3, ApplyFacts DEF ApplyFailure, Outcomes
  <2>5. HistoryOK'
    BY <1>3, TypeParts DEF ApplyFailure, HistoryOK
  <2> QED
    BY <1>3, <2>3, <2>4, <2>5, TypeParts, NextTypeFromParts DEF ApplyFailure, CallOK
<1> QED
  BY <1>2, <1>3

(* A call that returns is over, or has a row to write. *)
LEMMA ReturnTypes ==
  ASSUME TypeOK, NEW c \in Calls, NEW m \in Machines, NEW tool \in Tools,
         NEW step \in {"ok", "failed"}, Return(c, m, tool, step)
  PROVE  CallOK'
<1> DEFINE k == [step |-> step, tool |-> tool, machine |-> m, age |-> 0]
<1>1. k \in Call
  BY DispatchAssumption DEF Call, Steps
<1>2. call' = [call EXCEPT ![c] = IF tool = "machine_test" THEN k ELSE NoCall]
  BY DEF Return
<1> HIDE DEF k
<1> QED
  BY <1>1, <1>2, TypeParts DEF CallOK

LEMMA CallFacts ==
  ASSUME TypeOK, NEW c \in Calls, call[c].step # "none"
  PROVE  /\ call[c] \in Call /\ call[c].machine \in Machines /\ call[c].tool \in Tools
         /\ call[c].age \in 0..MaxLag
<1>1. call[c] \in Call
  BY TypeParts DEF CallOK, NoCall
<1> QED
  BY <1>1 DEF Call

LEMMA CallTypes ==
  ASSUME TypeOK, NEW c \in Calls, ToolCall(c)
  PROVE  TypeOK'
<1> USE BreakerAssumption, DispatchAssumption
<1>1. ASSUME NEW m \in Machines, NEW tool \in Tools, Refuse(c, m, tool)
      PROVE  TypeOK'
  <2>1. CallOK'
    BY <1>1, ReturnTypes DEF Refuse
  <2>2. breaker[m].openedAt \in Nat /\ breaker[m].openedAt < OpenFor
    BY <1>1, TypeParts DEF Refuse, IsOpen, BreakersOK, Breaker, Ages
  <2>3. Second * RetryAfter(m) + Second \in 0..(OpenFor + Second)
    <3> DEFINE left == Remaining(breaker[m])
    <3>1. left \in Nat /\ left <= OpenFor
      BY <2>2 DEF Remaining
    <3> HIDE DEF left
    <3>2. left \div Second \in Nat /\ Second * (left \div Second) <= left
      BY <3>1, Z3
    <3>3. Second * (left \div Second) \in Nat
      BY <3>2
    <3> QED
      BY <3>1, <3>2, <3>3 DEF RetryAfter, left
  <2>4. HistoryOK'
    BY <1>1, <2>3, TypeParts DEF Refuse, HistoryOK
  <2> QED
    BY <1>1, <2>1, <2>4, TypeParts, NextTypeFromParts DEF Refuse, BreakersOK
<1>2. ASSUME NEW m \in Machines, NEW tool \in Tools, Contact(c, m, tool)
      PROVE  TypeOK'
  <2>1. CallOK'
    BY <1>2, TypeParts DEF Contact, CallOK, Call, Steps
  <2> QED
    BY <1>2, <2>1, TypeParts, NextTypeFromParts DEF Contact, BreakersOK, HistoryOK
<1>3. ASSUME NEW m \in Machines, NEW tool \in Tools, NoTransport(c, m, tool)
      PROVE  TypeOK'
  <2>1. CallOK'
    BY <1>3, ReturnTypes DEF NoTransport
  <2> QED
    BY <1>3, <2>1, TypeParts, NextTypeFromParts DEF NoTransport, BreakersOK, HistoryOK
<1> DEFINE m == call[c].machine
<1>4. CASE AnswerOk(c)
  <2>1. m \in Machines /\ call[c].tool \in Tools
    BY <1>4, CallFacts DEF AnswerOk
  <2>2. pending' \in [Machines -> Tasks]
    BY <1>4, <2>1, RecordFacts, TypeParts DEF AnswerOk, Outcomes, Unapplied, Tasks
  <2>3. CallOK'
    BY <1>4, <2>1, ReturnTypes DEF AnswerOk
  <2>4. HistoryOK'
    BY <1>4, <2>1, TypeParts DEF AnswerOk, HistoryOK
  <2> QED
    BY <1>4, <2>2, <2>3, <2>4, TypeParts, NextTypeFromParts DEF AnswerOk, BreakersOK
<1>5. CASE AnswerErr(c)
  <2>1. m \in Machines /\ call[c].tool \in Tools
    BY <1>5, CallFacts DEF AnswerErr
  <2>2. pending' \in [Machines -> Tasks]
    BY <1>5, <2>1, RecordFacts, TypeParts DEF AnswerErr, Outcomes, Unapplied, Tasks
  <2>3. CallOK'
    BY <1>5, <2>1, ReturnTypes DEF AnswerErr
  <2>4. strikes' \in [Machines -> 0..Threshold]
    BY <1>5, <2>1, StrikeFacts, TypeParts DEF AnswerErr, HistoryOK
  <2>5. HistoryOK'
    BY <1>5, <2>4, TypeParts DEF AnswerErr, HistoryOK
  <2> QED
    BY <1>5, <2>2, <2>3, <2>5, TypeParts, NextTypeFromParts DEF AnswerErr, BreakersOK
<1>6. CASE WriteTest(c)
  <2>1. m \in Machines /\ call[c].age \in 0..MaxLag
    BY <1>6, CallFacts DEF WriteTest
  <2> DEFINE status == IF call[c].step = "ok" THEN "online" ELSE "unreachable"
  <2>2. UpdateHeartbeat(m, status, 0) /\ status \in Statuses
    BY <1>6 DEF WriteTest, Statuses
  <2> HIDE DEF status
  <2>3. registry' \in [Machines -> Row]
    BY <2>1, <2>2, UpdateFacts
  <2>4. CallOK' /\ HistoryOK'
    BY <1>6, <2>1, TypeParts DEF WriteTest, CallOK, HistoryOK
  <2> QED
    BY <1>6, <2>3, <2>4, TypeParts, NextTypeFromParts DEF WriteTest, BreakersOK
<1> QED
  BY <1>1, <1>2, <1>3, <1>4, <1>5, <1>6 DEF ToolCall

(* Assigning the fields of the heartbeat task. *)
LEMMA BeatFields ==
  ASSUME NEW b \in Beat
  PROVE  /\ \A d \in 0..MaxDue, t \in SUBSET Machines : [b EXCEPT !.due = d, !.todo = t] \in Beat
         /\ \A p \in Machines \cup {NULL} : [b EXCEPT !.pinging = p, !.readAge = 0] \in Beat
         /\ \A t \in SUBSET Machines, p \in Machines \cup {NULL} :
              [b EXCEPT !.todo = t, !.pinging = p, !.readAge = 0] \in Beat
<1>1. 0 \in 0..PingTimeout
  BY DispatchAssumption
<1> QED
  BY <1>1 DEF Beat

LEMMA HeartbeatTypes ==
  ASSUME TypeOK, Heartbeat
  PROVE  TypeOK'
<1> USE BreakerAssumption, DispatchAssumption
<1> DEFINE m == beat.pinging
<1>1. /\ beat \in Beat /\ beat.readAge \in 0..Horizon
      /\ m # NULL => m \in Machines
  BY TypeParts DEF Beat
<1>2. CASE HeartbeatList
  <2> DEFINE d == beat.due - 1
             t == {n \in Pinged : Registered(n)}
  <2>1. d \in 0..MaxDue /\ t \in SUBSET Machines
    BY <1>1, <1>2 DEF HeartbeatList, Beat
  <2>2. beat' = [beat EXCEPT !.due = d, !.todo = t]
    BY <1>2 DEF HeartbeatList
  <2> HIDE DEF d, t
  <2>3. beat' \in Beat
    BY <1>1, <2>1, <2>2, BeatFields
  <2> QED
    BY <1>2, <2>3, TypeParts, NextTypeFromParts DEF HeartbeatList, BreakersOK, CallOK, HistoryOK
<1>3. ASSUME NEW n \in Machines, HeartbeatSend(n)
      PROVE  TypeOK'
  <2> DEFINE t == beat.todo \ {n}
  <2>1. t \in SUBSET Machines
    BY <1>1 DEF Beat
  <2>2. beat' = [beat EXCEPT !.todo = t, !.pinging = n, !.readAge = 0]
    BY <1>3 DEF HeartbeatSend
  <2> HIDE DEF t
  <2>3. beat' \in Beat
    BY <1>1, <2>1, <2>2, BeatFields
  <2> QED
    BY <1>3, <2>3, TypeParts, NextTypeFromParts DEF HeartbeatSend, BreakersOK, CallOK, HistoryOK
<1>4. CASE HeartbeatOk
  <2>1. m \in Machines
    BY <1>1, <1>4 DEF HeartbeatOk
  <2>2. pending' \in [Machines -> Tasks]
    BY <1>4, <2>1, RecordFacts DEF HeartbeatOk, Outcomes
  <2>3. registry' \in [Machines -> Row]
    BY <1>1, <1>4, <2>1, UpdateFacts DEF HeartbeatOk, Statuses
  <2>4. beat' \in Beat
    <3>1. beat' = [beat EXCEPT !.pinging = NULL, !.readAge = 0]
      BY <1>4 DEF HeartbeatOk
    <3> QED
      BY <1>1, <3>1, BeatFields
  <2>5. HistoryOK'
    BY <1>4, <2>1, TypeParts DEF HeartbeatOk, HistoryOK
  <2> QED
    BY <1>4, <2>2, <2>3, <2>4, <2>5, TypeParts, NextTypeFromParts DEF HeartbeatOk, BreakersOK, CallOK
<1>5. CASE HeartbeatFails
  <2>1. m \in Machines
    BY <1>1, <1>5 DEF HeartbeatFails
  <2>2. pending' \in [Machines -> Tasks]
    BY <1>5, <2>1, RecordFacts DEF HeartbeatFails, Outcomes
  <2>3. registry' \in [Machines -> Row]
    BY <1>1, <1>5, <2>1, UpdateFacts DEF HeartbeatFails, Statuses
  <2>4. beat' \in Beat
    <3>1. beat' = [beat EXCEPT !.pinging = NULL, !.readAge = 0]
      BY <1>5 DEF HeartbeatFails
    <3> QED
      BY <1>1, <3>1, BeatFields
  <2>5. HistoryOK'
    BY <1>5, <2>1, StrikeFacts, TypeParts DEF HeartbeatFails, HistoryOK
  <2> QED
    BY <1>5, <2>2, <2>3, <2>4, <2>5, TypeParts, NextTypeFromParts DEF HeartbeatFails, BreakersOK, CallOK
<1> QED
  BY <1>2, <1>3, <1>4, <1>5 DEF Heartbeat

LEMMA TickTypes ==
  ASSUME TypeOK, Tick
  PROVE  TypeOK'
<1> USE BreakerAssumption, DispatchAssumption
<1>1. BreakersOK'
  <2>1. \A m \in Machines : /\ Aged(breaker[m]) \in Breaker
                            /\ Len(Aged(breaker[m]).failures) <= Remembered
    BY AgedFacts, TypeParts DEF BreakersOK
  <2>2. breaker' = [m \in Machines |-> Aged(breaker[m])]
    BY DEF Tick
  <2> QED
    BY <2>1, <2>2 DEF BreakersOK
<1>2. \A a \in 0..Horizon : Later(a) \in 0..Horizon
  BY DEF Later
<1>3. Later(NULL) = NULL /\ Sooner(NULL) = NULL
  BY DEF Later, Sooner
<1>4. registry' \in [Machines -> Row]
  <2>1. \A r \in Row : [r EXCEPT !.seen = Later(r.seen)] \in Row
    BY <1>2, <1>3 DEF Row
  <2>2. registry' = [m \in Machines |-> [registry[m] EXCEPT !.seen = Later(registry[m].seen)]]
    BY DEF Tick
  <2> QED
    BY <2>1, <2>2, TypeParts
<1>5. HistoryOK'
  <2>1. \A w \in (0..(OpenFor + Second)) \cup {NULL} :
           Sooner(w) \in (0..(OpenFor + Second)) \cup {NULL}
    BY <1>3 DEF Sooner
  <2>2. /\ answered' = [m \in Machines |-> Later(answered[m])]
        /\ hint' = [m \in Machines |-> Sooner(hint[m])]
        /\ strikes' = strikes /\ lag' = lag
    BY DEF Tick
  <2> QED
    BY <1>2, <2>1, <2>2, TypeParts DEF HistoryOK
<1>6. beat' \in Beat
  <2> DEFINE w == IF beat.wait > 1 THEN beat.wait - 1 ELSE Period
             d == IF beat.wait = 1 /\ beat.due < MaxDue THEN beat.due + 1 ELSE beat.due
             r == IF beat.pinging # NULL THEN beat.readAge + 1 ELSE beat.readAge
  <2>1. beat \in Beat
    BY TypeParts
  <2>2. w \in 1..Period /\ d \in 0..MaxDue /\ r \in 0..PingTimeout
    BY <2>1 DEF Tick, Beat
  <2>3. beat' = [beat EXCEPT !.wait = w, !.due = d, !.readAge = r]
    BY <2>1 DEF Tick, Beat
  <2> HIDE DEF w, d, r
  <2> QED
    BY <2>1, <2>2, <2>3 DEF Beat
<1>7. CallOK'
  <2>1. \A c \in Calls : Waited(call[c]) \in Call \cup {NoCall}
    <3> SUFFICES ASSUME NEW c \in Calls PROVE Waited(call[c]) \in Call \cup {NoCall}
      OBVIOUS
    <3>1. CASE call[c].step = "ok"
      <4>1. call[c] \in Call /\ call[c].age < MaxLag /\ call[c].age \in 0..MaxLag
        BY <3>1, CallFacts DEF Tick
      <4>2. call[c].age + 1 \in 0..MaxLag
        BY <4>1
      <4> QED
        BY <3>1, <4>1, <4>2 DEF Waited, Call
    <3>2. CASE call[c].step # "ok"
      BY <3>2, TypeParts DEF Waited, CallOK
    <3> QED
      BY <3>1, <3>2
  <2>2. call' = [c \in Calls |-> Waited(call[c])]
    BY DEF Tick
  <2> QED
    BY <2>1, <2>2 DEF CallOK
<1> QED
  BY <1>1, <1>4, <1>5, <1>6, <1>7, TypeParts, NextTypeFromParts DEF Tick

LEMMA NextTypes == TypeOK /\ [Next]_vars => TypeOK'
<1> SUFFICES ASSUME TypeOK, [Next]_vars PROVE TypeOK'
  OBVIOUS
<1>1. CASE Registry
  BY <1>1, RegistryTypes DEF Registry
<1>2. CASE Breakers
  BY <1>2, BreakersTypes DEF Breakers
<1>3. CASE \E c \in Calls : ToolCall(c)
  BY <1>3, CallTypes
<1>4. CASE Heartbeat
  BY <1>4, HeartbeatTypes
<1>5. CASE World
  <2>1. /\ well' \subseteq Machines
        /\ UNCHANGED <<breaker, pending, registry, routed, call, beat, answered, strikes, hint, lag>>
    BY <1>5, TypeParts DEF World, Sickens, Heals
  <2> QED
    BY <2>1, TypeParts, NextTypeFromParts DEF BreakersOK, CallOK, HistoryOK
<1>6. CASE Tick
  BY <1>6, TickTypes
<1>7. CASE UNCHANGED vars
  BY <1>7, TypeParts, NextTypeFromParts DEF vars, BreakersOK, CallOK, HistoryOK
<1> QED
  BY <1>1, <1>2, <1>3, <1>4, <1>5, <1>6, <1>7 DEF Next

(* Every variable of the dispatch model keeps its type: the breaker of a    *)
(* machine stays well formed and its failures within the bound, whatever    *)
(* calls, pings and recording tasks do.                                     *)
THEOREM DispatchTypes == Spec => []TypeOK
<1>1. Init => TypeOK
  BY InitTypes
<1>2. TypeOK /\ [Next]_vars => TypeOK'
  BY NextTypes
<1> QED
  BY <1>1, <1>2, PTL DEF Spec

-----------------------------------------------------------------------------
(* An open circuit is earned.  Alone this is not inductive: a failure may   *)
(* have been observed and not yet recorded, and recorded and not yet        *)
(* followed by the ones that open the circuit.  Both are covered by the     *)
(* strikes counted so far.                                                  *)

EarnedBy(m) ==
  /\ strikes[m] = Threshold \/ strikes[m] >= Len(breaker[m].failures) + pending[m]["failure"]
  /\ breaker[m].state = "Open" => strikes[m] >= Threshold

Earned == \A m \in Machines : EarnedBy(m)

LEMMA MachineTypes ==
  ASSUME TypeOK, NEW m \in Machines
  PROVE  /\ breaker[m] \in Breaker /\ breaker[m].failures \in Seq(Ages)
         /\ Len(breaker[m].failures) \in Nat /\ Len(breaker[m].failures) <= Remembered
         /\ pending[m]["success"] \in Nat /\ pending[m]["failure"] \in 0..(MaxPending + 1)
         /\ strikes[m] \in 0..Threshold
<1>1. breaker[m] \in Breaker /\ Len(breaker[m].failures) <= Remembered
  BY TypeParts DEF BreakersOK
<1>2. breaker[m].failures \in Seq(Ages)
  BY <1>1 DEF Breaker
<1>3. Len(breaker[m].failures) \in Nat
  BY <1>2, LenProperties
<1>4. pending[m]["success"] \in Nat /\ pending[m]["failure"] \in 0..(MaxPending + 1)
  BY TypeParts, DispatchAssumption DEF Tasks, Outcomes
<1>5. strikes[m] \in 0..Threshold
  BY TypeParts DEF HistoryOK
<1> QED
  BY <1>1, <1>2, <1>3, <1>4, <1>5

LEMMA InitEarned == Init => Earned
<1> SUFFICES ASSUME Init, NEW m \in Machines PROVE EarnedBy(m)
  BY DEF Earned
<1>1. breaker[m] = NewBreaker /\ strikes[m] = 0 /\ pending[m]["failure"] = 0
  BY DEF Init, Outcomes
<1>2. Len(NewBreaker.failures) = 0 /\ NewBreaker.state = "Closed"
  BY DEF NewBreaker
<1> QED
  BY <1>1, <1>2 DEF EarnedBy

(* Observing an outcome: a failure adds a strike with its task. *)
LEMMA ObserveEarned ==
  ASSUME TypeOK, Earned, UNCHANGED breaker, NEW m \in Machines, Unapplied(m) <= MaxPending,
         \/ Record(m, "success") /\ UNCHANGED strikes
         \/ Record(m, "failure") /\ Strike(m)
  PROVE  Earned'
<1> USE BreakerAssumption, DispatchAssumption
<1> SUFFICES ASSUME NEW n \in Machines PROVE EarnedBy(n)'
  BY DEF Earned
<1>1. EarnedBy(n) /\ EarnedBy(m)
  BY DEF Earned
<1>2. CASE Record(m, "success") /\ UNCHANGED strikes
  <2>1. pending'[n]["failure"] = pending[n]["failure"]
    BY <1>2, RecordFacts DEF Outcomes
  <2> QED
    BY <1>1, <1>2, <2>1 DEF EarnedBy
<1>3. CASE Record(m, "failure") /\ Strike(m)
  <2>1. CASE n # m
    <3>1. pending'[n] = pending[n] /\ strikes'[n] = strikes[n]
      BY <1>3, <2>1, RecordFacts, StrikeFacts DEF Outcomes
    <3> QED
      BY <1>1, <3>1 DEF EarnedBy
  <2>2. CASE n = m
    <3> DEFINE k == Len(breaker[m].failures)
               p == pending[m]["failure"]
               s == strikes[m]
    <3>1. k \in Nat /\ p \in Nat /\ s \in 0..Threshold
      BY MachineTypes
    <3>2. s = Threshold \/ s >= k + p
      BY <1>1 DEF EarnedBy
    <3>3. pending'[m]["failure"] = p + 1
      BY <1>3, RecordFacts DEF Outcomes
    <3>4. /\ strikes'[m] = s + 1 \/ strikes'[m] = Threshold
          /\ strikes'[m] >= s /\ strikes'[m] \in 0..Threshold
      BY <1>3, StrikeFacts
    <3>5. breaker[m].state = "Open" => s >= Threshold
      BY <1>1 DEF EarnedBy
    <3> HIDE DEF k, p, s
    <3>6. strikes'[m] = Threshold \/ strikes'[m] >= k + pending'[m]["failure"]
      BY <3>1, <3>2, <3>3, <3>4
    <3>7. breaker[m].state = "Open" => strikes'[m] >= Threshold
      BY <3>1, <3>4, <3>5
    <3> QED
      BY <2>2, <3>6, <3>7 DEF EarnedBy, k
  <2> QED
    BY <2>1, <2>2
<1> QED
  BY <1>2, <1>3

LEMMA ApplyEarned ==
  ASSUME TypeOK, Earned, NEW m \in Machines, ApplySuccess(m) \/ ApplyFailure(m)
  PROVE  Earned'
<1> USE BreakerAssumption, DispatchAssumption
<1> SUFFICES ASSUME NEW n \in Machines PROVE EarnedBy(n)'
  BY DEF Earned
<1>1. EarnedBy(n) /\ EarnedBy(m)
  BY DEF Earned
<1>2. CASE n # m
  <2>1. pending'[n] = pending[n]
    BY <1>2, ApplyFacts DEF ApplySuccess, ApplyFailure, Outcomes
  <2>2. strikes'[n] = strikes[n] /\ breaker'[n] = breaker[n]
    BY <1>2, TypeParts DEF ApplySuccess, ApplyFailure, BreakersOK, HistoryOK
  <2> QED
    BY <1>1, <2>1, <2>2 DEF EarnedBy
<1>3. CASE n = m /\ ApplySuccess(m)
  <2>1. breaker'[m] = RecordSuccess(breaker[m]) /\ strikes'[m] = UpToThreshold(pending[m]["failure"])
    BY <1>3, TypeParts DEF ApplySuccess, BreakersOK, HistoryOK
  <2>2. breaker'[m].failures = <<>> /\ breaker'[m].state = "Closed"
    BY <2>1, MachineTypes, RecordSuccessFacts
  <2>3. pending'[m]["failure"] = pending[m]["failure"]
    BY <1>3, ApplyFacts DEF ApplySuccess, Outcomes
  <2>4. Len(breaker'[m].failures) = 0
    BY <2>2
  <2> QED
    BY <1>3, <2>1, <2>2, <2>3, <2>4, MachineTypes DEF EarnedBy, UpToThreshold
<1>4. CASE n = m /\ ApplyFailure(m)
  <2> DEFINE k == Len(breaker'[m].failures)
             l == Len(breaker[m].failures)
             p == pending[m]["failure"]
             s == strikes[m]
  <2>1. breaker'[m] = RecordFailure(breaker[m]) /\ strikes'[m] = s
    BY <1>4, TypeParts DEF ApplyFailure, BreakersOK
  <2>2. /\ k \in Nat /\ k <= l + 1
        /\ breaker'[m].state = "Open" => breaker[m].state = "Open" \/ k >= Threshold
    BY <2>1, MachineTypes, RecordFailureFacts
  <2>3. pending'[m]["failure"] = p - 1 /\ p > 0
    BY <1>4, ApplyFacts DEF ApplyFailure, Outcomes
  <2>4. l \in Nat /\ p \in Nat /\ s \in 0..Threshold
    BY MachineTypes
  <2>5. /\ s = Threshold \/ s >= l + p
        /\ breaker[m].state = "Open" => s >= Threshold
    BY <1>1 DEF EarnedBy
  <2> HIDE DEF k, l, p, s
  <2>6. s = Threshold \/ s >= k + pending'[m]["failure"]
    BY <2>2, <2>3, <2>4, <2>5
  <2>7. breaker'[m].state = "Open" => s >= Threshold
    BY <2>2, <2>3, <2>4, <2>5
  <2> QED
    BY <1>4, <2>1, <2>6, <2>7 DEF EarnedBy, k
<1> QED
  BY <1>2, <1>3, <1>4

LEMMA NextEarned == TypeOK /\ Earned /\ [Next]_vars => Earned'
<1> SUFFICES ASSUME TypeOK, Earned, [Next]_vars PROVE Earned'
  OBVIOUS
<1>1. CASE UNCHANGED <<breaker, pending, strikes>>
  BY <1>1 DEF Earned, EarnedBy
<1>2. CASE Registry \/ World \/ UNCHANGED vars
  BY <1>1, <1>2 DEF Registry, World, MachineAdd, MachineRemove, Sickens, Heals, vars
<1>3. CASE Breakers
  BY <1>3, ApplyEarned DEF Breakers
<1>4. ASSUME NEW c \in Calls, ToolCall(c) PROVE Earned'
  <2>1. CASE UNCHANGED <<breaker, pending, strikes>>
    BY <1>1, <2>1
  <2>2. CASE ~UNCHANGED <<breaker, pending, strikes>>
    <3> DEFINE m == call[c].machine
    <3>1. AnswerOk(c) \/ AnswerErr(c)
      BY <1>4, <2>2 DEF ToolCall, Refuse, Contact, NoTransport, WriteTest
    <3>2. m \in Machines /\ UNCHANGED breaker
      BY <3>1, CallFacts DEF AnswerOk, AnswerErr
    <3>3. /\ Unapplied(m) < MaxPending
          /\ \/ Record(m, "success") /\ UNCHANGED strikes
             \/ Record(m, "failure") /\ Strike(m)
      BY <2>2, <3>1 DEF AnswerOk, AnswerErr
    <3>4. Unapplied(m) <= MaxPending
      BY <3>2, <3>3, MachineTypes, DispatchAssumption DEF Unapplied
    <3> HIDE DEF m
    <3> QED
      BY <3>2, <3>3, <3>4, ObserveEarned
  <2> QED
    BY <2>1, <2>2
<1>5. CASE Heartbeat
  <2>1. CASE HeartbeatList \/ \E m \in Machines : HeartbeatSend(m)
    BY <1>1, <2>1 DEF HeartbeatList, HeartbeatSend
  <2>2. CASE HeartbeatOk \/ HeartbeatFails
    <3> DEFINE m == beat.pinging
    <3>1. m \in Machines /\ UNCHANGED breaker
      BY <2>2, TypeParts DEF HeartbeatOk, HeartbeatFails, Beat
    <3>2. /\ Unapplied(m) <= MaxPending
          /\ \/ Record(m, "success") /\ UNCHANGED strikes
             \/ Record(m, "failure") /\ Strike(m)
      BY <2>2 DEF HeartbeatOk, HeartbeatFails
    <3> HIDE DEF m
    <3> QED
      BY <3>1, <3>2, ObserveEarned
  <2> QED
    BY <1>5, <2>1, <2>2 DEF Heartbeat
<1>6. CASE Tick
  <2> SUFFICES ASSUME NEW m \in Machines PROVE EarnedBy(m)'
    BY DEF Earned
  <2>1. /\ breaker'[m] = Aged(breaker[m])
        /\ UNCHANGED <<pending, strikes>>
    BY <1>6 DEF Tick
  <2>2. Len(breaker'[m].failures) = Len(breaker[m].failures) /\ breaker'[m].state = breaker[m].state
    BY <2>1, MachineTypes, AgedFacts
  <2> QED
    BY <2>1, <2>2 DEF Earned, EarnedBy
<1> QED
  BY <1>2, <1>3, <1>4, <1>5, <1>6 DEF Next

(* Whatever the order in which the recording tasks run, a circuit is open   *)
(* only if at least Threshold calls or pings of its own machine failed      *)
(* since the last success recorded for it.                                  *)
THEOREM OpenMustBeEarned == Spec => []OpenIsEarned
<1>1. Init => TypeOK /\ Earned
  BY InitTypes, InitEarned
<1>2. TypeOK /\ Earned /\ [Next]_vars => (TypeOK /\ Earned)'
  BY NextTypes, NextEarned
<1>3. TypeOK /\ Earned => OpenIsEarned
  BY DEF Earned, EarnedBy, OpenIsEarned
<1> QED
  BY <1>1, <1>2, <1>3, PTL DEF Spec

-----------------------------------------------------------------------------
(* What the registry shows of a machine.                                    *)

Seen(m) == registry[m].status = "online" =>
             registry[m].seen \in 0..Horizon /\ answered[m] <= registry[m].seen + lag[m]

(* What machine_test has learnt and not written yet. *)
Learnt(c) == call[c].step = "ok" => answered[call[c].machine] <= call[c].age

AllSeen == (\A m \in Machines : Seen(m)) /\ (\A c \in Calls : Learnt(c))

(* A write of an answer that is not older than the time written with it. *)
LEMMA UpdateSeen ==
  ASSUME TypeOK, AllSeen, NEW m \in Machines, NEW status \in Statuses, NEW age \in 0..Horizon,
         UpdateHeartbeat(m, status, age),
         NEW l \in 0..MaxLag, lag' = [lag EXCEPT ![m] = IF Registered(m) THEN l ELSE 0],
         \/ UNCHANGED answered /\ (status = "online" => answered[m] <= age + l)
         \/ answered' = [answered EXCEPT ![m] = 0]
  PROVE  \A n \in Machines : Seen(n)'
<1> USE DispatchAssumption
<1> SUFFICES ASSUME NEW n \in Machines PROVE Seen(n)'
  OBVIOUS
<1>1. /\ Seen(n) /\ registry \in [Machines -> Row] /\ answered \in [Machines -> 0..Horizon]
      /\ lag \in [Machines -> 0..MaxLag]
  BY TypeParts DEF AllSeen, HistoryOK
<1>2. CASE n # m
  <2>1. registry'[n] = registry[n] /\ answered'[n] = answered[n] /\ lag'[n] = lag[n]
    BY <1>1, <1>2 DEF UpdateHeartbeat
  <2> QED
    BY <1>1, <2>1 DEF Seen
<1>3. CASE n = m /\ Registered(m)
  <2>1. registry'[m] = [status |-> status, seen |-> age] /\ lag'[m] = l
    BY <1>1, <1>3 DEF UpdateHeartbeat
  <2>2. status = "online" => answered'[m] <= age + l
    BY <1>1
  <2> QED
    BY <1>3, <2>1, <2>2 DEF Seen
<1>4. CASE n = m /\ ~Registered(m)
  <2>1. registry' = registry /\ registry[m].status # "online"
    BY <1>4 DEF UpdateHeartbeat, Registered
  <2> QED
    BY <1>4, <2>1 DEF Seen
<1> QED
  BY <1>2, <1>3, <1>4

(* A new answer leaves every row true that is not written. *)
LEMMA AnswerSeen ==
  ASSUME TypeOK, AllSeen, UNCHANGED <<registry, lag>>, NEW m \in Machines,
         UNCHANGED answered \/ answered' = [answered EXCEPT ![m] = 0]
  PROVE  \A n \in Machines : Seen(n)'
<1> USE DispatchAssumption
<1>1. answered \in [Machines -> 0..Horizon] /\ lag \in [Machines -> 0..MaxLag]
  BY TypeParts DEF HistoryOK
<1>2. \A n \in Machines : answered'[n] = answered[n] \/ answered'[n] = 0
  BY <1>1
<1> QED
  BY <1>1, <1>2 DEF AllSeen, Seen

(* What calls have learnt stays true while a machine answers again; a call  *)
(* that begins, fails or is over has learnt nothing.                        *)
LEMMA LearntStays ==
  ASSUME TypeOK, AllSeen, NEW m \in Machines,
         UNCHANGED answered \/ answered' = [answered EXCEPT ![m] = 0],
         NEW d, \A c \in Calls \ {d} : call'[c] = call[c],
         \/ call'[d] = call[d]
         \/ call'[d].step # "ok"
         \/ call'[d].machine = m /\ answered' = [answered EXCEPT ![m] = 0] /\ call'[d].age = 0
  PROVE  \A c \in Calls : Learnt(c)'
<1> SUFFICES ASSUME NEW c \in Calls, call'[c].step = "ok"
             PROVE  answered'[call'[c].machine] <= call'[c].age
  BY DEF Learnt
<1>1. answered \in [Machines -> 0..Horizon] /\ \A n \in Machines : answered'[n] = answered[n] \/ answered'[n] = 0
  BY TypeParts, DispatchAssumption DEF HistoryOK
<1>2. CASE call'[c] = call[c]
  <2>1. call[c].machine \in Machines /\ call[c].age \in 0..MaxLag /\ answered[call[c].machine] <= call[c].age
    BY <1>2, CallFacts DEF AllSeen, Learnt
  <2> QED
    BY <1>1, <1>2, <2>1, DispatchAssumption
<1>3. CASE call'[c] # call[c]
  BY <1>1, <1>3
<1> QED
  BY <1>2, <1>3

LEMMA NextSeen == TypeOK /\ AllSeen /\ [Next]_vars => AllSeen'
<1> SUFFICES ASSUME TypeOK, AllSeen, [Next]_vars PROVE AllSeen'
  OBVIOUS
<1> USE DispatchAssumption
<1>1. CASE UNCHANGED <<registry, answered, lag, call>>
  BY <1>1 DEF AllSeen, Seen, Learnt
<1>2. CASE Breakers \/ World \/ UNCHANGED vars
  BY <1>1, <1>2 DEF Breakers, World, ApplySuccess, ApplyFailure, Sickens, Heals, vars
<1>3. CASE Registry
  <2> PICK m \in Machines : MachineAdd(m) \/ MachineRemove(m)
    BY <1>3 DEF Registry
  <2>1. \A n \in Machines \ {m} : registry'[n] = registry[n] /\ answered'[n] = answered[n] /\ lag'[n] = lag[n]
    BY TypeParts DEF MachineAdd, MachineRemove, HistoryOK
  <2>2. registry'[m].status # "online"
    BY TypeParts DEF MachineAdd, MachineRemove, Row
  <2>3. \A n \in Machines : Seen(n)'
    BY <2>1, <2>2 DEF AllSeen, Seen
  <2>4. UNCHANGED call /\ answered' = [answered EXCEPT ![m] = 0]
    BY DEF MachineAdd, MachineRemove
  <2>5. \A c \in Calls : Learnt(c)'
    <3>1. \A c \in Calls \ {NULL} : call'[c] = call[c]
      BY <2>4
    <3>2. call'[NULL] = call[NULL]
      BY <2>4
    <3> QED
      BY <2>4, <3>1, <3>2, LearntStays
  <2> QED
    BY <2>3, <2>5 DEF AllSeen
<1>4. ASSUME NEW c \in Calls, NEW m \in Machines, NEW tool \in Tools,
             Refuse(c, m, tool) \/ Contact(c, m, tool) \/ NoTransport(c, m, tool)
      PROVE  AllSeen'
  <2>1. UNCHANGED <<registry, answered, lag>>
    BY <1>4 DEF Refuse, Contact, NoTransport
  <2>2. /\ \A d \in Calls \ {c} : call'[d] = call[d]
        /\ call'[c].step # "ok"
    BY <1>4, TypeParts DEF Refuse, Contact, NoTransport, Return, CallOK, NoCall
  <2>3. \A d \in Calls : Learnt(d)'
    BY <2>1, <2>2, LearntStays
  <2> QED
    BY <2>1, <2>3 DEF AllSeen, Seen
<1>5. ASSUME NEW c \in Calls, AnswerOk(c) \/ AnswerErr(c)
      PROVE  AllSeen'
  <2> DEFINE m == call[c].machine
  <2>1. m \in Machines
    BY <1>5, CallFacts DEF AnswerOk, AnswerErr
  <2>2. UNCHANGED <<registry, lag>> /\ (UNCHANGED answered \/ answered' = [answered EXCEPT ![m] = 0])
    BY <1>5 DEF AnswerOk, AnswerErr
  <2>3. \A d \in Calls \ {c} : call'[d] = call[d]
    BY <1>5, TypeParts DEF AnswerOk, AnswerErr, Return, CallOK
  <2>4. \/ call'[c].step # "ok"
        \/ call'[c].machine = m /\ answered' = [answered EXCEPT ![m] = 0] /\ call'[c].age = 0
    BY <1>5, TypeParts DEF AnswerOk, AnswerErr, Return, CallOK, NoCall
  <2> HIDE DEF m
  <2>5. \A d \in Calls : Learnt(d)'
    BY <2>1, <2>2, <2>3, <2>4, LearntStays
  <2>6. \A n \in Machines : Seen(n)'
    BY <2>1, <2>2, AnswerSeen
  <2> QED
    BY <2>5, <2>6 DEF AllSeen
<1>6. ASSUME NEW c \in Calls, WriteTest(c)
      PROVE  AllSeen'
  <2> DEFINE m == call[c].machine
             status == IF call[c].step = "ok" THEN "online" ELSE "unreachable"
             l == call[c].age
  <2>1. m \in Machines /\ l \in 0..MaxLag
    BY <1>6, CallFacts DEF WriteTest
  <2>2. /\ UpdateHeartbeat(m, status, 0) /\ status \in Statuses
        /\ lag' = [lag EXCEPT ![m] = IF Registered(m) THEN l ELSE 0]
        /\ UNCHANGED answered /\ call' = [call EXCEPT ![c] = NoCall]
    BY <1>6 DEF WriteTest, Statuses
  <2>3. status = "online" => answered[m] <= 0 + l
    BY <2>1 DEF AllSeen, Learnt
  <2>4. \A d \in Calls \ {c} : call'[d] = call[d]
    BY <2>2, TypeParts DEF CallOK
  <2>5. call'[c].step # "ok"
    BY <2>2, TypeParts DEF CallOK, NoCall
  <2> HIDE DEF m, status, l
  <2>6. 0 \in 0..Horizon
    OBVIOUS
  <2>7. \A n \in Machines : Seen(n)'
    BY <2>1, <2>2, <2>3, <2>6, UpdateSeen
  <2>8. \A d \in Calls : Learnt(d)'
    BY <2>1, <2>2, <2>4, <2>5, LearntStays
  <2> QED
    BY <2>7, <2>8 DEF AllSeen
<1>7. CASE Heartbeat
  <2>1. CASE HeartbeatList \/ \E m \in Machines : HeartbeatSend(m)
    BY <1>1, <2>1 DEF HeartbeatList, HeartbeatSend
  <2>2. CASE HeartbeatOk \/ HeartbeatFails
    <3> DEFINE m == beat.pinging
               status == IF HeartbeatOk THEN "online" ELSE "unreachable"
               age == beat.readAge
    <3>1. m \in Machines /\ age \in 0..Horizon /\ status \in Statuses
      BY <2>2, TypeParts DEF HeartbeatOk, HeartbeatFails, Beat, Statuses
    <3>2. /\ UpdateHeartbeat(m, status, age)
          /\ lag' = [lag EXCEPT ![m] = 0] /\ UNCHANGED call
          /\ \/ UNCHANGED answered /\ status # "online"
             \/ answered' = [answered EXCEPT ![m] = 0]
      BY <2>2 DEF HeartbeatOk, HeartbeatFails
    <3> HIDE DEF m, status, age
    <3>3. lag' = [lag EXCEPT ![m] = IF Registered(m) THEN 0 ELSE 0]
      BY <3>2
    <3>4. 0 \in 0..MaxLag
      OBVIOUS
    <3>5. \A n \in Machines : Seen(n)'
      BY <3>1, <3>2, <3>3, <3>4, UpdateSeen
    <3>6. \A d \in Calls : Learnt(d)'
      <4>1. (\A c \in Calls \ {NULL} : call'[c] = call[c]) /\ call'[NULL] = call[NULL]
        BY <3>2
      <4>2. UNCHANGED answered \/ answered' = [answered EXCEPT ![m] = 0]
        BY <3>2
      <4> QED
        BY <3>1, <4>1, <4>2, LearntStays
    <3> QED
      BY <3>5, <3>6 DEF AllSeen
  <2> QED
    BY <1>7, <2>1, <2>2 DEF Heartbeat
<1>8. CASE Tick
  <2>1. \A a, s \in 0..Horizon, l \in 0..MaxLag :
          a <= s + l => Later(a) <= Later(s) + l /\ Later(s) \in 0..Horizon
    BY DEF Later
  <2>2. ASSUME NEW m \in Machines PROVE Seen(m)'
    <3>1. /\ registry'[m] = [registry[m] EXCEPT !.seen = Later(registry[m].seen)]
          /\ answered'[m] = Later(answered[m]) /\ lag' = lag
      BY <1>8 DEF Tick
    <3>2. registry[m] \in Row /\ answered[m] \in 0..Horizon /\ Seen(m) /\ lag[m] \in 0..MaxLag
      BY TypeParts DEF HistoryOK, AllSeen
    <3>3. registry'[m].status = registry[m].status /\ registry'[m].seen = Later(registry[m].seen)
      BY <3>1, <3>2 DEF Row
    <3> QED
      BY <2>1, <3>1, <3>2, <3>3 DEF Seen
  <2>3. ASSUME NEW c \in Calls PROVE Learnt(c)'
    <3>1. call'[c] = Waited(call[c])
      BY <1>8 DEF Tick
    <3>2. CASE call[c].step = "ok"
      <4> DEFINE k == call[c]
      <4>1. k \in Call /\ k.machine \in Machines /\ k.age \in 0..MaxLag
        BY <3>2, CallFacts
      <4>2. answered[k.machine] \in 0..Horizon /\ answered[k.machine] <= k.age
        BY <3>2, <4>1, TypeParts DEF HistoryOK, AllSeen, Learnt
      <4>3. answered'[k.machine] = Later(answered[k.machine])
        BY <1>8, <4>1 DEF Tick
      <4>4. call'[c].machine = k.machine /\ call'[c].age = k.age + 1
        BY <3>1, <3>2, <4>1 DEF Waited, Call
      <4>5. answered'[k.machine] <= k.age + 1
        BY <4>1, <4>2, <4>3 DEF Later
      <4> QED
        BY <4>4, <4>5 DEF Learnt
    <3>3. CASE call[c].step # "ok"
      BY <3>1, <3>3 DEF Waited, Learnt
    <3> QED
      BY <3>2, <3>3
  <2> QED
    BY <2>2, <2>3 DEF AllSeen
<1> QED
  BY <1>2, <1>3, <1>4, <1>5, <1>6, <1>7, <1>8 DEF Next, ToolCall

(* The registry never shows a machine online with a last_seen later than    *)
(* its last answer, but for the time machine_test waited before it read the *)
(* clock; for any number of pings and tests under way.                      *)
THEOREM OnlineMachinesAnswered == Spec => []OnlineWasSeen
<1>1. Init => TypeOK /\ AllSeen
  <2>1. Init => AllSeen
    BY DEF Init, AllSeen, Seen, Learnt, NoCall
  <2> QED
    BY <2>1, InitTypes
<1>2. TypeOK /\ AllSeen /\ [Next]_vars => (TypeOK /\ AllSeen)'
  BY NextTypes, NextSeen
<1>3. AllSeen => OnlineWasSeen
  BY DEF AllSeen, Seen, OnlineWasSeen
<1> QED
  BY <1>1, <1>2, <1>3, PTL DEF Spec

-----------------------------------------------------------------------------
(* What a refused caller is told.                                           *)

(* As long as a circuit refuses, the wait it told, and a second more, is at *)
(* least what is left of its open duration.                                 *)
Covered(m) ==
  hint[m] # NULL /\ IsOpen(breaker[m]) => hint[m] \in Nat /\ hint[m] >= Remaining(breaker[m])

AllCovered == \A m \in Machines : Covered(m)

(* A tick takes as much from what is left as from the wait. *)
LEMMA AgedRemaining ==
  ASSUME NEW b \in Breaker, IsOpen(Aged(b))
  PROVE  IsOpen(b) /\ Remaining(Aged(b)) = Remaining(b) - 1 /\ Remaining(b) \in Nat \ {0}
<1>1. b.state \in CircuitStates /\ b.openedAt \in Ages
  BY DEF Breaker
<1>2. Aged(b).state = b.state
  BY AgedFacts
<1>3. Aged(b).openedAt = IF b.state = "Open" THEN Older(b.openedAt) ELSE b.openedAt
  BY DEF Aged, Breaker
<1>4. b.state = "Open" /\ Older(b.openedAt) < OpenFor
  BY <1>2, <1>3 DEF IsOpen
<1>5. Older(b.openedAt) = b.openedAt + 1 /\ b.openedAt \in Nat
  BY <1>1, <1>4, BreakerAssumption DEF Older, Ages
<1> QED
  BY <1>3, <1>4, <1>5, BreakerAssumption DEF IsOpen, Remaining

(* Rounding down and adding a second covers what is left. *)
LEMMA RoundedCovers ==
  ASSUME NEW r \in Nat PROVE Second * (r \div Second) + Second \in Nat
                             /\ Second * (r \div Second) + Second >= r
<1>1. Second \in Nat /\ Second > 0
  BY DispatchAssumption
<1>2. r \div Second \in Nat /\ Second * (r \div Second) \in Nat
      /\ Second * (r \div Second) + Second > r
  BY <1>1, Z3
<1> QED
  BY <1>1, <1>2

(* Every step keeps the waits long enough. *)
LEMMA NextCovered == TypeOK /\ AllCovered /\ [Next]_vars => AllCovered'
<1> SUFFICES ASSUME TypeOK, AllCovered, [Next]_vars, NEW m \in Machines PROVE Covered(m)'
  BY DEF AllCovered
<1>1. Covered(m) /\ breaker[m] \in Breaker /\ hint \in [Machines -> (0..(OpenFor + Second)) \cup {NULL}]
  BY MachineTypes, TypeParts DEF AllCovered, HistoryOK
<1>2. CASE breaker'[m] = breaker[m] /\ hint'[m] = hint[m]
  BY <1>1, <1>2 DEF Covered
<1>9. ASSUME NEW n \in Machines, MachineRemove(n) PROVE Covered(m)'
  BY <1>1, <1>9 DEF MachineRemove, Covered
<1>3. CASE \/ World \/ Heartbeat \/ UNCHANGED vars \/ \E n \in Machines : MachineAdd(n)
  <2>1. UNCHANGED <<breaker, hint>>
    BY <1>3 DEF World, Heartbeat, MachineAdd, Sickens, Heals,
       HeartbeatList, HeartbeatSend, HeartbeatOk, HeartbeatFails, vars
  <2> QED
    BY <1>2, <2>1
<1>4. ASSUME NEW n \in Machines, ApplySuccess(n) PROVE Covered(m)'
  <2>1. CASE n = m
    <3>1. breaker'[m] = RecordSuccess(breaker[m])
      BY <1>4, <2>1, TypeParts DEF ApplySuccess, BreakersOK
    <3>2. breaker'[m].state = "Closed"
      BY <1>1, <3>1, RecordSuccessFacts
    <3> QED
      BY <3>2 DEF Covered, IsOpen
  <2>2. CASE n # m
    BY <1>2, <1>4, <2>2, TypeParts DEF ApplySuccess, BreakersOK
  <2> QED
    BY <2>1, <2>2
<1>5. ASSUME NEW n \in Machines, ApplyFailure(n) PROVE Covered(m)'
  <2>1. CASE n = m
    BY <1>1, <1>5, <2>1 DEF ApplyFailure, Covered
  <2>2. CASE n # m
    BY <1>1, <1>2, <1>5, <2>2, TypeParts DEF ApplyFailure, BreakersOK
  <2> QED
    BY <2>1, <2>2
<1>6. ASSUME NEW c \in Calls, NEW n \in Machines, NEW tool \in Tools, Refuse(c, n, tool)
      PROVE  Covered(m)'
  <2>1. CASE n = m
    <3> DEFINE r == Remaining(breaker[m])
    <3>1. r \in Nat
      BY <1>1, <1>6, <2>1, BreakerAssumption DEF Refuse, IsOpen, Remaining, Breaker, Ages
    <3>2. hint'[m] = Second * (r \div Second) + Second /\ breaker' = breaker
      BY <1>1, <1>6, <2>1 DEF Refuse, RetryAfter
    <3> HIDE DEF r
    <3>3. hint'[m] \in Nat /\ hint'[m] >= r
      BY <3>1, <3>2, RoundedCovers
    <3> QED
      BY <3>2, <3>3 DEF Covered, r
  <2>2. CASE n # m
    BY <1>1, <1>2, <1>6, <2>2 DEF Refuse
  <2> QED
    BY <2>1, <2>2
<1>7. ASSUME NEW c \in Calls,
             \/ AnswerOk(c) \/ AnswerErr(c) \/ WriteTest(c)
             \/ \E n \in Machines, tool \in Tools : Contact(c, n, tool) \/ NoTransport(c, n, tool)
      PROVE  Covered(m)'
  BY <1>2, <1>7 DEF AnswerOk, AnswerErr, WriteTest, Contact, NoTransport
<1>8. CASE Tick
  <2>1. breaker'[m] = Aged(breaker[m]) /\ hint'[m] = Sooner(hint[m])
    BY <1>8 DEF Tick
  <2> SUFFICES ASSUME hint'[m] # NULL, IsOpen(breaker'[m])
               PROVE  hint'[m] \in Nat /\ hint'[m] >= Remaining(breaker'[m])
    BY DEF Covered
  <2>2. hint[m] # NULL
    BY <2>1, DispatchAssumption DEF Sooner
  <2>3. /\ IsOpen(breaker[m]) /\ Remaining(breaker'[m]) = Remaining(breaker[m]) - 1
        /\ Remaining(breaker[m]) \in Nat \ {0}
    BY <1>1, <2>1, AgedRemaining
  <2>4. hint[m] \in Nat /\ hint[m] >= Remaining(breaker[m])
    BY <1>1, <2>2, <2>3 DEF Covered
  <2> QED
    BY <2>1, <2>3, <2>4 DEF Sooner
<1> QED
  BY <1>3, <1>4, <1>5, <1>6, <1>7, <1>8, <1>9 DEF Next, Registry, Breakers, ToolCall

(* A refused caller that waits a second longer than it was told is let      *)
(* through, for every open duration and however the second lies in it.      *)
THEOREM HintIsEnough == Spec => []HintSuffices
<1>1. Init => TypeOK /\ AllCovered
  <2>1. Init => AllCovered
    BY DEF Init, AllCovered, Covered
  <2> QED
    BY <2>1, InitTypes
<1>2. TypeOK /\ AllCovered /\ [Next]_vars => (TypeOK /\ AllCovered)'
  BY NextTypes, NextCovered
<1>3. TypeOK /\ AllCovered => HintSuffices
  <2> SUFFICES ASSUME TypeOK, AllCovered, NEW m \in Machines, hint[m] = 0, IsOpen(breaker[m])
               PROVE  FALSE
    BY DEF HintSuffices
  <2>1. hint[m] # NULL => 0 >= Remaining(breaker[m])
    BY DEF AllCovered, Covered
  <2>2. breaker[m] \in Breaker
    BY MachineTypes
  <2>3. Remaining(breaker[m]) > 0
    BY <2>2, BreakerAssumption DEF IsOpen, Remaining, Breaker, Ages
  <2> QED
    BY <2>1, <2>2, <2>3, DispatchAssumption, BreakerAssumption DEF IsOpen, Remaining, Breaker, Ages
<1> QED
  BY <1>1, <1>2, <1>3, PTL DEF Spec

-----------------------------------------------------------------------------
(* Circuits trip on failures in the window.                                 *)

(* Failures are listed newest first. *)
Ordered(f) == \A i, j \in 1..Len(f) : i <= j => f[i] <= f[j]

AllRecent(f) == \A i \in 1..Len(f) : f[i] < Window

(* What retain leaves is in the window, since the older failures are last.  *)
LEMMA RetainedFacts ==
  ASSUME NEW f \in Seq(Ages), Ordered(f)
  PROVE  /\ Retained(f) \in Seq(Ages) /\ Len(Retained(f)) \in 0..Len(f)
         /\ \A i \in 1..Len(Retained(f)) : Retained(f)[i] = f[i] /\ f[i] < Window
         /\ AllRecent(f) => Len(Retained(f)) = Len(f)
<1> DEFINE recent == {i \in DOMAIN f : f[i] < Window}
           k == Cardinality(recent)
<1>1. Len(f) \in Nat /\ DOMAIN f = 1..Len(f) /\ \A i \in 1..Len(f) : f[i] \in Nat /\ f[i] \in Ages
  BY LenProperties, BreakerAssumption DEF Ages
<1>2. \A n \in Nat : IsFiniteSet(1..n) /\ Cardinality(1..n) = n
  <2> SUFFICES ASSUME NEW n \in Nat PROVE IsFiniteSet(1..n) /\ Cardinality(1..n) = n
    OBVIOUS
  <2>1. IsFiniteSet(1..n) /\ Cardinality(1..n) = IF 1 > n THEN 0 ELSE n - 1 + 1
    BY FS_Interval
  <2> QED
    BY <2>1
<1>3. recent \in SUBSET (1..Len(f))
  BY <1>1
<1>4. k \in Nat /\ k <= Len(f)
  BY <1>1, <1>2, <1>3, FS_Subset, FS_CardinalityType
<1>5. \A i \in 1..k : f[i] < Window
  <2> SUFFICES ASSUME NEW i \in 1..k, ~(f[i] < Window) PROVE FALSE
    OBVIOUS
  <2>1. \A j \in recent : j \in 1..Len(f) /\ f[j] < Window
    BY <1>1
  <2> HIDE DEF k, recent
  <2>2. \A j \in recent : j < i
    BY <1>1, <1>4, <2>1, BreakerAssumption DEF Ordered
  <2>3. recent \in SUBSET (1..(i - 1)) /\ i - 1 \in Nat
    BY <1>4, <2>1, <2>2, <1>1
  <2>4. Cardinality(recent) <= i - 1
    <3>1. IsFiniteSet(1..(i - 1)) /\ Cardinality(1..(i - 1)) = i - 1
      BY <1>2, <2>3
    <3>2. Cardinality(recent) <= Cardinality(1..(i - 1))
      BY <2>3, <3>1, FS_Subset
    <3> QED
      BY <3>1, <3>2
  <2> QED
    BY <1>4, <2>3, <2>4 DEF k
<1>6. AllRecent(f) => k = Len(f)
  <2>1. AllRecent(f) => recent = 1..Len(f)
    BY <1>1 DEF AllRecent
  <2> QED
    BY <1>1, <1>2, <2>1
<1>7. Retained(f) = SubSeq(f, 1, k)
  BY DEF Retained
<1> HIDE DEF recent, k
<1>8. \A i \in 1..k : f[i] \in Ages
  BY <1>1, <1>4
<1>9. /\ SubSeq(f, 1, k) \in Seq(Ages) /\ Len(SubSeq(f, 1, k)) = k
      /\ \A i \in 1..k : SubSeq(f, 1, k)[i] = f[i]
  <2>1. /\ SubSeq(f, 1, k) \in Seq(Ages)
        /\ Len(SubSeq(f, 1, k)) = IF 1 <= k THEN k - 1 + 1 ELSE 0
        /\ \A i \in 1..(k - 1 + 1) : SubSeq(f, 1, k)[i] = f[1 + i - 1]
    BY <1>1, <1>4, <1>8, SubSeqProperties
  <2> QED
    BY <1>4, <2>1
<1> QED
  BY <1>4, <1>5, <1>6, <1>7, <1>9

(* What record_failure keeps is in the window, newest first; nothing is     *)
(* dropped of it below the threshold.                                       *)
LEMMA PushedFacts ==
  ASSUME NEW f \in Seq(Ages), Ordered(f)
  PROVE  /\ Ordered(Pushed(f)) /\ AllRecent(Pushed(f))
         /\ AllRecent(f) /\ Len(f) >= Threshold => Len(Pushed(f)) >= Threshold
<1> USE BreakerAssumption
<1> DEFINE r == Retained(f)
           s == <<0>> \o r
<1>1. r \in Seq(Ages) /\ Len(r) \in Nat /\ Len(f) \in Nat
      /\ \A i \in 1..Len(r) : i \in 1..Len(f) /\ r[i] = f[i] /\ r[i] < Window /\ r[i] \in Nat
  <2>1. r \in Seq(Ages) /\ Len(r) \in 0..Len(f) /\ Len(f) \in Nat
    BY RetainedFacts, LenProperties
  <2>2. \A i \in 1..Len(r) : i \in 1..Len(f) /\ r[i] = f[i] /\ r[i] < Window
    BY <2>1, RetainedFacts
  <2>3. \A i \in 1..Len(f) : f[i] \in Nat
    BY ElementOfSeq DEF Ages
  <2> QED
    BY <2>1, <2>2, <2>3
<1>2. AllRecent(f) => Len(r) = Len(f)
  BY RetainedFacts
<1>3. <<0>> \in Seq(Ages) /\ Len(<<0>>) = 1 /\ <<0>>[1] = 0
  BY DEF Ages
<1>4. /\ s \in Seq(Ages) /\ Len(s) = 1 + Len(r)
      /\ \A i \in 1..Len(s) : s[i] = IF i = 1 THEN 0 ELSE r[i - 1]
  <2> HIDE DEF r
  <2>1. /\ s \in Seq(Ages) /\ Len(s) = Len(<<0>>) + Len(r)
        /\ \A i \in 1..(Len(<<0>>) + Len(r)) :
             s[i] = IF i <= Len(<<0>>) THEN <<0>>[i] ELSE r[i - Len(<<0>>)]
    BY <1>1, <1>3, ConcatProperties
  <2> HIDE DEF s
  <2> QED
    BY <1>1, <1>3, <2>1
<1> HIDE DEF r, s
<1>5. \A i \in 1..Len(s) : s[i] < Window /\ s[i] \in Nat
  <2> SUFFICES ASSUME NEW i \in 1..Len(s) PROVE s[i] < Window /\ s[i] \in Nat
    OBVIOUS
  <2>1. CASE i = 1
    BY <1>4, <2>1
  <2>2. CASE i # 1
    <3>1. i - 1 \in 1..Len(r) /\ s[i] = r[i - 1]
      BY <1>1, <1>4, <2>2
    <3> QED
      BY <1>1, <3>1
  <2> QED
    BY <2>1, <2>2
<1>6. \A i, j \in 1..Len(s) : i <= j => s[i] <= s[j]
  <2> SUFFICES ASSUME NEW i \in 1..Len(s), NEW j \in 1..Len(s), i <= j PROVE s[i] <= s[j]
    OBVIOUS
  <2>1. CASE i = 1
    BY <1>4, <1>5, <2>1
  <2>2. CASE i # 1
    <3>1. i - 1 \in 1..Len(r) /\ j - 1 \in 1..Len(r) /\ i - 1 <= j - 1 /\ j # 1
      BY <1>1, <1>4, <2>2
    <3>2. s[i] = f[i - 1] /\ s[j] = f[j - 1]
      BY <1>1, <1>4, <2>2, <3>1
    <3> QED
      BY <1>1, <3>1, <3>2 DEF Ordered
  <2> QED
    BY <2>1, <2>2
<1>7. Pushed(f) = IF Len(s) <= Remembered THEN s ELSE SubSeq(s, 1, Remembered)
  BY DEF Pushed, AtMost, s, r
<1>8. /\ Len(Pushed(f)) \in Nat /\ Len(Pushed(f)) <= Len(s)
      /\ Len(Pushed(f)) = Len(s) \/ Len(Pushed(f)) = Remembered
      /\ \A i \in 1..Len(Pushed(f)) : Pushed(f)[i] = s[i]
  <2>1. CASE Len(s) <= Remembered
    BY <1>1, <1>4, <1>7, <2>1
  <2>2. CASE ~(Len(s) <= Remembered)
    <3>1. \A i \in 1..Remembered : s[i] \in Ages
      BY <1>1, <1>4, <2>2, ElementOfSeq
    <3>2. /\ Len(SubSeq(s, 1, Remembered)) = IF 1 <= Remembered THEN Remembered - 1 + 1 ELSE 0
          /\ \A i \in 1..(Remembered - 1 + 1) : SubSeq(s, 1, Remembered)[i] = s[1 + i - 1]
      BY <3>1, SubSeqProperties
    <3> QED
      BY <1>1, <1>4, <1>7, <2>2, <3>2
  <2> QED
    BY <2>1, <2>2
<1>9. Ordered(Pushed(f)) /\ AllRecent(Pushed(f))
  BY <1>1, <1>4, <1>5, <1>6, <1>8 DEF Ordered, AllRecent
<1>10. AllRecent(f) /\ Len(f) >= Threshold => Len(Pushed(f)) >= Threshold
  BY <1>1, <1>2, <1>4, <1>8
<1> QED
  BY <1>9, <1>10

(* An open circuit whose open duration has just begun has its failures in   *)
(* the window, and enough of them.                                          *)
FreshlyOpen(b) ==
  /\ Ordered(b.failures)
  /\ b.state = "Open" /\ b.openedAt = 0 => AllRecent(b.failures) /\ Len(b.failures) >= Threshold

(* The three operations on a breaker keep it so.                            *)
LEMMA FreshlyOpenStays ==
  ASSUME NEW b \in Breaker, FreshlyOpen(b)
  PROVE  FreshlyOpen(RecordSuccess(b)) /\ FreshlyOpen(RecordFailure(b)) /\ FreshlyOpen(Aged(b))
<1> USE BreakerAssumption
<1>1. /\ b.failures \in Seq(Ages) /\ b.state \in CircuitStates /\ b.openedAt \in Ages
      /\ Len(b.failures) \in Nat
  BY LenProperties DEF Breaker
<1>2. FreshlyOpen(RecordSuccess(b))
  BY RecordSuccessFacts DEF FreshlyOpen, Ordered
<1>3. FreshlyOpen(RecordFailure(b))
  <2> DEFINE f == Pushed(b.failures)
             trips == Len(f) >= Threshold
  <2>1. /\ RecordFailure(b).failures = f
        /\ RecordFailure(b).state = IF trips THEN "Open" ELSE b.state
        /\ RecordFailure(b).openedAt = IF trips THEN 0 ELSE b.openedAt
    BY DEF RecordFailure, Breaker
  <2>2. Ordered(f) /\ AllRecent(f)
    BY <1>1, PushedFacts DEF FreshlyOpen
  <2>3. b.state = "Open" /\ b.openedAt = 0 => trips
    BY <1>1, PushedFacts DEF FreshlyOpen
  <2> HIDE DEF f
  <2> QED
    BY <2>1, <2>2, <2>3 DEF FreshlyOpen
<1>4. FreshlyOpen(Aged(b))
  <2> DEFINE f == b.failures
             g == [i \in DOMAIN f |-> Older(f[i])]
  <2>1. /\ Aged(b).failures = g /\ Aged(b).state = b.state
        /\ Aged(b).openedAt = IF b.state = "Open" THEN Older(b.openedAt) ELSE b.openedAt
    BY DEF Aged, Breaker
  <2>2. Len(Aged(b).failures) = Len(f)
    BY AgedFacts
  <2>3. DOMAIN f = 1..Len(f) /\ \A i \in 1..Len(f) : f[i] \in 0..Window
    BY <1>1, LenProperties DEF Ages
  <2>4. Ordered(f)
    BY DEF FreshlyOpen
  <2>5. ~(Aged(b).state = "Open" /\ Aged(b).openedAt = 0)
    BY <1>1, <2>1 DEF Older, Ages
  <2> HIDE DEF f
  <2>6. \A i \in 1..Len(f) : g[i] = Older(f[i])
    BY <2>3
  <2> HIDE DEF g
  <2>7. Len(g) = Len(f)
    BY <2>1, <2>2
  <2>8. Ordered(g)
    BY <2>3, <2>4, <2>6, <2>7 DEF Ordered, Older
  <2> QED
    BY <2>1, <2>5, <2>8 DEF FreshlyOpen
<1> QED
  BY <1>2, <1>3, <1>4

AllFreshlyOpen == \A m \in Machines : FreshlyOpen(breaker[m])

(* Every step is one of the three operations on each breaker, or none.       *)
LEMMA NextFreshlyOpen == TypeOK /\ AllFreshlyOpen /\ [Next]_vars => AllFreshlyOpen'
<1> SUFFICES ASSUME TypeOK, AllFreshlyOpen, [Next]_vars, NEW m \in Machines
             PROVE  FreshlyOpen(breaker'[m])
  BY DEF AllFreshlyOpen
<1>1. FreshlyOpen(breaker[m]) /\ breaker[m] \in Breaker /\ breaker \in [Machines -> Breaker]
  BY MachineTypes, TypeParts DEF AllFreshlyOpen, BreakersOK
<1>2. breaker'[m] \in {breaker[m], RecordSuccess(breaker[m]), RecordFailure(breaker[m]),
                       Aged(breaker[m])}
  <2>1. CASE Registry \/ World \/ Heartbeat \/ UNCHANGED vars
    BY <2>1 DEF Registry, World, Heartbeat, MachineAdd, MachineRemove, Sickens, Heals,
       HeartbeatList, HeartbeatSend, HeartbeatOk, HeartbeatFails, vars
  <2>2. CASE Breakers
    BY <1>1, <2>2 DEF Breakers, ApplySuccess, ApplyFailure
  <2>3. ASSUME NEW c \in Calls, ToolCall(c) PROVE breaker' = breaker
    BY <2>3 DEF ToolCall, Refuse, Contact, NoTransport, AnswerOk, AnswerErr, WriteTest
  <2>4. CASE Tick
    BY <2>4 DEF Tick
  <2> QED
    BY <2>1, <2>2, <2>3, <2>4 DEF Next
<1> QED
  BY <1>1, <1>2, FreshlyOpenStays

(* A circuit opens, or opens again, on Threshold failures in the window,    *)
(* for every threshold, window and open duration.                           *)
THEOREM TripsAreInWindow == Spec => []TripsInWindow
<1>1. Init => TypeOK /\ AllFreshlyOpen
  <2>1. Init => AllFreshlyOpen
    BY DEF Init, AllFreshlyOpen, FreshlyOpen, NewBreaker, Ordered
  <2> QED
    BY <2>1, InitTypes
<1>2. TypeOK /\ AllFreshlyOpen /\ [Next]_vars => (TypeOK /\ AllFreshlyOpen)'
  BY NextTypes, NextFreshlyOpen
<1>3. TypeOK /\ AllFreshlyOpen => TripsInWindow
  <2> SUFFICES ASSUME TypeOK, AllFreshlyOpen, NEW m \in Machines,
                      breaker[m].state = "Open", breaker[m].openedAt = 0
               PROVE  Cardinality({i \in DOMAIN breaker[m].failures :
                                     breaker[m].failures[i] < Window}) >= Threshold
    BY DEF TripsInWindow
  <2> DEFINE f == breaker[m].failures
  <2>1. f \in Seq(Ages) /\ Len(f) \in Nat /\ DOMAIN f = 1..Len(f)
    BY MachineTypes, LenProperties
  <2>2. AllRecent(f) /\ Len(f) >= Threshold
    BY DEF AllFreshlyOpen, FreshlyOpen
  <2>3. {i \in DOMAIN f : f[i] < Window} = 1..Len(f)
    BY <2>1, <2>2 DEF AllRecent
  <2>4. Cardinality(1..Len(f)) = IF 1 > Len(f) THEN 0 ELSE Len(f) - 1 + 1
    BY <2>1, FS_Interval
  <2>5. Cardinality(1..Len(f)) >= Threshold
    BY <2>1, <2>2, <2>4, BreakerAssumption
  <2> QED
    BY <2>3, <2>5
<1> QED
  BY <1>1, <1>2, <1>3, PTL DEF Spec

-----------------------------------------------------------------------------
(* A removed machine stays removed.                                         *)

(* The row of a removed machine is updated by nothing. *)
LEMMA UpdateSparesRemoved ==
  ASSUME TypeOK, NEW n \in Machines, NEW status, NEW age, UpdateHeartbeat(n, status, age),
         NEW m \in Machines, registry[m].status = "removed"
  PROVE  registry'[m].status = "removed"
<1>1. CASE n = m
  BY <1>1 DEF UpdateHeartbeat, Registered
<1>2. CASE n # m
  <2>1. registry \in [Machines -> [status : Statuses, seen : (0..Horizon) \cup {NULL}]]
    BY DEF TypeOK
  <2>2. \/ registry' = [registry EXCEPT ![n] = [status |-> status, seen |-> age]]
        \/ registry' = registry
    BY DEF UpdateHeartbeat
  <2> QED
    BY <1>2, <2>1, <2>2
<1> QED
  BY <1>1, <1>2

(* Whatever the heartbeat or a call still has in hand when the machine is   *)
(* removed, for any number of machines and calls.                           *)
THEOREM RemovedMachinesStayRemoved == Spec => RemovedStaysRemoved
<1>1. TypeOK /\ [Next]_vars =>
        [\A m \in Machines : registry[m].status = "removed" => registry'[m].status = "removed"]_vars
  <2> SUFFICES ASSUME TypeOK, [Next]_vars, NEW m \in Machines, registry[m].status = "removed"
               PROVE  registry'[m].status = "removed"
    OBVIOUS
  <2> DEFINE Kept == registry'[m].status = "removed"
  <2>1. registry \in [Machines -> [status : Statuses, seen : (0..Horizon) \cup {NULL}]]
    BY DEF TypeOK
  <2>2. CASE Registry
    <3>1. ASSUME NEW n \in Machines, MachineAdd(n) \/ MachineRemove(n) PROVE Kept
      <4>1. n # m
        BY <3>1 DEF MachineAdd, MachineRemove, Registered
      <4> QED
        BY <2>1, <3>1, <4>1 DEF MachineAdd, MachineRemove
    <3> QED
      BY <2>2, <3>1 DEF Registry
  <2>3. ASSUME NEW c \in Calls, ToolCall(c) PROVE Kept
    <3>1. CASE registry' = registry
      BY <3>1
    <3>2. CASE WriteTest(c)
      <4> DEFINE n == call[c].machine
                 status == IF call[c].step = "ok" THEN "online" ELSE "unreachable"
      <4>1. n \in Machines /\ UpdateHeartbeat(n, status, 0)
        BY <3>2, CallFacts DEF WriteTest
      <4> HIDE DEF n, status
      <4> QED
        BY <4>1, UpdateSparesRemoved
    <3> QED
      BY <2>3, <3>1, <3>2 DEF ToolCall, Refuse, Contact, NoTransport, AnswerOk, AnswerErr
  <2>4. CASE HeartbeatOk \/ HeartbeatFails
    <3> DEFINE n == beat.pinging
    <3>1. n \in Machines
      BY <2>4 DEF TypeOK, HeartbeatOk, HeartbeatFails
    <3>2. UpdateHeartbeat(n, "online", beat.readAge) \/ UpdateHeartbeat(n, "unreachable", beat.readAge)
      BY <2>4 DEF HeartbeatOk, HeartbeatFails
    <3> HIDE DEF n
    <3> QED
      BY <3>1, <3>2, UpdateSparesRemoved
  <2>5. CASE Tick
    <3>1. registry' = [n \in Machines |-> [registry[n] EXCEPT !.seen = Later(@)]]
      BY <2>5 DEF Tick
    <3> QED
      BY <2>1, <3>1
  <2>6. CASE \/ Breakers \/ World \/ HeartbeatList \/ UNCHANGED vars
             \/ \E n \in Machines : HeartbeatSend(n)
    <3>1. registry' = registry
      BY <2>6 DEF Breakers, ApplySuccess, ApplyFailure, World, Sickens, Heals, HeartbeatList,
         HeartbeatSend, vars
    <3> QED
      BY <3>1
  <2> QED
    BY <2>2, <2>3, <2>4, <2>5, <2>6 DEF Next, Heartbeat
<1> QED
  BY <1>1, DispatchTypes, PTL DEF Spec, RemovedStaysRemoved

=============================================================================
