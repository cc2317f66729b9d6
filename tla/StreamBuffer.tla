---------------------------- MODULE StreamBuffer ----------------------------
(***************************************************************************)
(* The in-memory output buffer of one stream of a background job           *)
(* (crates/agent/src/jobs.rs), written by the one task that reads the      *)
(* stream and read by GET /job/:id/logs (crates/agent/src/routes/job.rs).  *)
(*                                                                         *)
(* A line is its number in the stream and its length: nothing the buffer   *)
(* does depends on the text.  The handler's two accesses, the tail and the *)
(* drop counter, take no common lock, so they are separate steps.          *)
(***************************************************************************)
EXTENDS Naturals, Sequences, SequencesExt

CONSTANTS
  MaxLines,    \* MAX_LINES: lines kept per stream (10 000 in the code)
  MaxBytes,    \* MAX_BUFFER_BYTES: bytes kept per stream (50 MB in the code)
  Lengths,     \* the lengths of the lines the process writes
  TailSizes,   \* the values of the "tail" query parameter
  MaxPushes    \* bound of the model: lines written in one behaviour

ASSUME BufferAssumption ==
  /\ MaxLines \in Nat \ {0}
  /\ MaxBytes \in Nat
  /\ Lengths \subseteq Nat
  /\ TailSizes \subseteq Nat
  /\ MaxPushes \in Nat

VARIABLES
  lines,         \* lines: the queue, oldest line first
  bytesDropped,  \* bytes_dropped: the counter clients are shown
  pushed,        \* number of lines pushed so far
  blanks,        \* history: blank lines pushed into a full buffer
  reply          \* the log request in flight or last answered

vars == <<lines, bytesDropped, pushed, blanks, reply>>

Line == [no : Nat, len : Lengths]

Idle == [pc |-> "idle", lines |-> <<>>, seen |-> 0, lost |-> 0, blanks |-> 0,
         dropped |-> 0]

Bytes(q) == FoldSeq(LAMBDA line, sum : line.len + sum, 0, q)

(* How many lines the stream has written that the buffer no longer holds. *)
Lost == pushed - Len(lines)

(* Mutant of TailOf: iter().rev().take(n), not put back in order. *)
TailOf_Reversed(q, n) ==
  Reverse(SubSeq(q, IF Len(q) > n THEN Len(q) - n + 1 ELSE 1, Len(q)))

(* StreamBuffer::tail: the last n lines. *)
TailOf(q, n) == SubSeq(q, IF Len(q) > n THEN Len(q) - n + 1 ELSE 1, Len(q))

-----------------------------------------------------------------------------

Init ==
  /\ lines = <<>>
  /\ bytesDropped = 0
  /\ pushed = 0
  /\ blanks = 0
  /\ reply = Idle

(* The condition under which push makes room. *)
Full(q, len) == Len(q) >= MaxLines \/ Bytes(q) + len > MaxBytes

(* Mutant of PopFront: pop_back, which removes the newest line. *)
PopFront_Newest(q) == IF q = <<>> THEN q ELSE Front(q)

(* One more of the lines that push a line out and add nothing to bytes_dropped. *)
CountBlank(len) ==
  blanks' = IF Full(lines, len) /\ len = 0 THEN blanks + 1 ELSE blanks

(* pop_front takes one line at most: the queue may be empty. *)
PopFront(q) == IF q = <<>> THEN q ELSE Tail(q)

(* Mutant of Push: counts what it drops only when the byte limit is hit. *)
Push_CountsBytesOnly(len) ==
  LET line == [no |-> pushed + 1, len |-> len] IN
  /\ pushed < MaxPushes
  /\ pushed' = pushed + 1
  /\ IF Bytes(lines) + len > MaxBytes
       THEN bytesDropped' = bytesDropped + len
       ELSE UNCHANGED bytesDropped
  /\ lines' = Append(IF Full(lines, len) THEN PopFront(lines) ELSE lines, line)
  /\ CountBlank(len)
  /\ UNCHANGED reply

(***************************************************************************)
(* StreamBuffer::push.  When the buffer is full the length of the NEW line *)
(* is added to bytes_dropped, one OLD line is removed, and the new line is *)
(* stored whatever its length.                                             *)
(***************************************************************************)
Push(len) ==
  LET line == [no |-> pushed + 1, len |-> len] IN
  /\ pushed < MaxPushes
  /\ pushed' = pushed + 1
  /\ \/ /\ Full(lines, len)
        /\ bytesDropped' = bytesDropped + len
        /\ lines' = Append(PopFront(lines), line)
     \/ /\ ~Full(lines, len)
        /\ lines' = Append(lines, line)
        /\ UNCHANGED bytesDropped
  /\ CountBlank(len)
  /\ UNCHANGED reply

(* get_job_logs, first access: the tail, under the queue's lock.           *)
(* reply.seen, reply.lost and reply.blanks remember how much had been       *)
(* written, how much was already gone, and how many blank lines had pushed  *)
(* another out, at that moment.                                             *)
ReadTail(n) ==
  /\ reply.pc # "tailed"
  /\ reply' = [pc |-> "tailed", lines |-> TailOf(lines, n),
               seen |-> pushed, lost |-> Lost, blanks |-> blanks, dropped |-> 0]
  /\ UNCHANGED <<lines, bytesDropped, pushed, blanks>>

(* get_job_logs, second access: the drop counter, and the reply is sent. *)
ReadDropped ==
  /\ reply.pc = "tailed"
  /\ reply' = [reply EXCEPT !.pc = "answered", !.dropped = bytesDropped]
  /\ UNCHANGED <<lines, bytesDropped, pushed, blanks>>

Next ==
  \/ \E len \in Lengths : Push(len)
  \/ \E n \in TailSizes : ReadTail(n)
  \/ ReadDropped

Spec == Init /\ [][Next]_vars

-----------------------------------------------------------------------------

(* The type invariant: every variable of the buffer and of a log request. *)
TypeOK ==
  /\ lines \in Seq(Line)
  /\ bytesDropped \in Nat
  /\ pushed \in Nat
  /\ blanks \in Nat
  /\ reply \in [pc : {"idle", "tailed", "answered"}, lines : Seq(Line),
                seen : Nat, lost : Nat, blanks : Nat, dropped : Nat]

(* Whatever the lengths of the lines, the queue of StreamBuffer::push never *)
(* holds more than MAX_LINES: one line leaves for each that enters.         *)
LineBound == Len(lines) <= MaxLines

(* The lines kept by push are the most recent ones the stream wrote, with   *)
(* none missing between them and in the order in which they were written.   *)
NewestKept ==
  /\ Len(lines) <= pushed
  /\ \A i \in 1..Len(lines) : lines[i].no = Lost + i

(* The lines in a log reply of get_job_logs are the last ones the stream    *)
(* had written when the tail was taken, in order and with no gap: neither   *)
(* an older line that was already lost, nor one pushed while the reply was  *)
(* being put together, shows in it.                                         *)
ReplyIsTail ==
  LET n == Len(reply.lines) IN
  /\ n <= reply.seen - reply.lost
  /\ \A i \in 1..n : reply.lines[i].no = reply.seen - n + i

(* The only loss a log reply can keep from its client is that of the lines  *)
(* which blank lines pushed out, for push adds the length of the new line to *)
(* the counter: at least one byte for every other line that is gone from the *)
(* tail is in the counter, though get_job_logs reads the two under different *)
(* locks while the reader of the stream pushes on.                           *)
LossReported ==
  reply.pc = "answered" => reply.lost <= reply.dropped + reply.blanks

=============================================================================
