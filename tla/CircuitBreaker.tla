--------------------------- MODULE CircuitBreaker ---------------------------
(***************************************************************************)
(* The circuit breaker of one machine, as data: CircuitBreaker in          *)
(* crates/mcp-server/src/transport/mod.rs.                                 *)
(*                                                                         *)
(* An Instant is represented by its age, in ticks.  Ages stop at Window:   *)
(* the code tells no two older instants apart, for neither the window nor  *)
(* the open duration reaches further back.  The failures are listed newest *)
(* first, and only the newest Remembered of them.                          *)
(***************************************************************************)
EXTENDS Integers, Sequences, FiniteSets

CONSTANTS
  Threshold,  \* failure_threshold (3 in the code)
  Window,     \* window (60 s)
  OpenFor,    \* open_duration (30 s)
  Remembered  \* bound of the model: failures represented

ASSUME BreakerAssumption ==
  /\ Threshold \in Nat \ {0}
  /\ Window \in Nat \ {0}
  /\ OpenFor \in 1..Window
  /\ Remembered \in Nat
  /\ Remembered >= Threshold

Ages == 0..Window

(* The age of an instant one tick later. *)
Older(age) == IF age < Window THEN age + 1 ELSE age

(* CircuitState: Closed, or Open with the age of opened_at.  HalfOpen is    *)
(* declared in the source and never constructed.                            *)
CircuitStates == {"Closed", "Open"}

NewBreaker == [state |-> "Closed", openedAt |-> 0, failures |-> <<>>]

(* Failures are pushed as they happen, so the ones retained are the newest. *)
Retained(failures) ==
  SubSeq(failures, 1, Cardinality({i \in DOMAIN failures : failures[i] < Window}))

AtMost(n, s) == IF Len(s) <= n THEN s ELSE SubSeq(s, 1, n)

Pushed(failures) == AtMost(Remembered, <<0>> \o Retained(failures))

(* Mutant of RecordFailure: failures are not limited to the window. *)
RecordFailure_NoRetain(b) ==
  LET failures == AtMost(Remembered, <<0>> \o b.failures)
  IN  [b EXCEPT !.failures = failures,
                !.state    = IF Len(failures) >= Threshold THEN "Open" ELSE @,
                !.openedAt = IF Len(failures) >= Threshold THEN 0 ELSE @]

(* CircuitBreaker::record_failure.  A failure of an open breaker starts its *)
(* open duration again.                                                     *)
RecordFailure(b) ==
  LET failures == Pushed(b.failures)
      trips    == Len(failures) >= Threshold
  IN  [b EXCEPT !.failures = failures,
                !.state    = IF trips THEN "Open" ELSE @,
                !.openedAt = IF trips THEN 0 ELSE @]

(* Mutant of RecordSuccess: the history is left as it was. *)
RecordSuccess_KeepsHistory(b) == [b EXCEPT !.state = "Closed", !.openedAt = 0]

(* CircuitBreaker::record_success *)
RecordSuccess(b) == [b EXCEPT !.failures = <<>>, !.state = "Closed", !.openedAt = 0]

(* Mutant of IsOpen: the time is compared with the window. *)
IsOpen_Window(b) == b.state = "Open" /\ b.openedAt < Window

(* CircuitBreaker::is_open, and the ticks it has left to refuse. *)
IsOpen(b) == b.state = "Open" /\ b.openedAt < OpenFor

Remaining(b) == OpenFor - b.openedAt

(* The breaker one tick later. *)
Aged(b) ==
  [b EXCEPT !.failures = [i \in DOMAIN @ |-> Older(@[i])],
            !.openedAt = IF b.state = "Open" THEN Older(@) ELSE @]

=============================================================================
