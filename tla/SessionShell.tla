---------------------------- MODULE SessionShell ----------------------------
(***************************************************************************)
(* One PTY session of the agent: Session::exec and read_until_sentinel of  *)
(* crates/agent/src/sessions.rs, with the shell and the terminal between   *)
(* them as the environment.                                                *)
(*                                                                         *)
(* An exec writes one line, "command; echo 'EXIT:$?'; echo 'sentinel'", to *)
(* the terminal and waits for a thread of its own that reads until it has  *)
(* seen the sentinel.  The thread outlives the exec when that times out.   *)
(* The terminal echoes what is written to it, in whole or broken over      *)
(* lines, so the sentinel may come back before the command has run.        *)
(*                                                                         *)
(* Of the terminal output only the sentinels are kept.  A sentinel has two *)
(* halves, since a read may end within it.  Other text, the output of the  *)
(* commands and the lines EXIT:$? among it, is passed over by the readers; *)
(* the quotes keep $? from being expanded.                                 *)
(***************************************************************************)
EXTENDS Integers, Sequences, SequencesExt, FiniteSetsExt

CONSTANTS
  Execs,       \* POST /session/:id/exec requests for this session
  ExitCodes,   \* what a command may exit with
  NULL         \* no exec

ASSUME ShellAssumption ==
  /\ IsFiniteSet(Execs)
  /\ 0 \in ExitCodes
  /\ ExitCodes \subseteq Int
  /\ NULL \notin Execs

VARIABLES
  exec,     \* where each exec is
  reply,    \* the exit code each exec was answered with; NULL before
  reader,   \* the reader threads: not started, reading or ended
  output,   \* output of each read_until_sentinel: what its thread has read
  holder,   \* the thread that holds the lock of the session's reader
  stream,   \* terminal output that nobody has read
  lines,    \* lines the shell has still to take
  shell,    \* the exec whose command runs; "exited" after an exit
  code      \* exit code of each command that has ended; NULL before

vars == <<exec, reply, reader, output, holder, stream, lines, shell, code>>

Init ==
  /\ exec = [e \in Execs |-> "idle"]
  /\ reply = [e \in Execs |-> NULL]
  /\ reader = [e \in Execs |-> "none"]
  /\ output = [e \in Execs |-> <<>>]
  /\ holder = NULL
  /\ stream = <<>>
  /\ lines = <<>>
  /\ shell = NULL
  /\ code = [e \in Execs |-> NULL]

-----------------------------------------------------------------------------
(* Terminal output.                                                         *)

Sentinel(e) == <<[of |-> e, piece |-> "head"], [of |-> e, piece |-> "tail"]>>

(* The terminal puts out the pieces. *)
Emit(pieces) == stream' = stream \o pieces

(* Mutant of HasSentinel: output.ends_with(sentinel). *)
HasSentinel_AtEnd(out, e) == IsSuffix(Sentinel(e), out)

(* output.contains(sentinel). *)
HasSentinel(out, e) == \E i \in 1..(Len(out) - 1) : SubSeq(out, i, i + 1) = Sentinel(e)

(* The code in the first line that starts with EXIT:, 0 if it is no number. *)
(* The line printed is EXIT:$?, which is none.                              *)
ParsedCode(out) == 0

-----------------------------------------------------------------------------
(* Session::exec                                                            *)

(* The line is written and the reader thread started.  The terminal may     *)
(* echo the line at once, in whole.                                         *)
WriteLine(e) ==
  /\ exec[e] = "idle"
  /\ exec' = [exec EXCEPT ![e] = "waiting"]
  /\ reader' = [reader EXCEPT ![e] = "reading"]
  /\ lines' = IF shell = "exited" THEN lines ELSE Append(lines, e)
  /\ \E echo \in {<<>>, Sentinel(e)} : Emit(echo)
  /\ UNCHANGED <<reply, output, holder, shell, code>>

(* The line cannot be written. *)
WriteFails(e) ==
  /\ exec[e] = "idle"
  /\ shell = "exited"
  /\ exec' = [exec EXCEPT ![e] = "failed"]
  /\ UNCHANGED <<reply, reader, output, holder, stream, lines, shell, code>>

(* The thread has ended: what it has read is the reply, less the lines    *)
(* with the sentinel and those that start with EXIT:.                      *)
Answer(e) ==
  /\ exec[e] = "waiting"
  /\ reader[e] = "ended"
  /\ exec' = [exec EXCEPT ![e] = "answered"]
  /\ reply' = [reply EXCEPT ![e] = ParsedCode(output[e])]
  /\ UNCHANGED <<reader, output, holder, stream, lines, shell, code>>

(* timeout_secs have passed.  The thread goes on. *)
TimesOut(e) ==
  /\ exec[e] = "waiting"
  /\ exec' = [exec EXCEPT ![e] = "timed_out"]
  /\ UNCHANGED <<reply, reader, output, holder, stream, lines, shell, code>>

-----------------------------------------------------------------------------
(* read_until_sentinel                                                      *)

Lock(e) ==
  /\ reader[e] = "reading"
  /\ holder = NULL
  /\ holder' = e
  /\ UNCHANGED <<exec, reply, reader, output, stream, lines, shell, code>>

(* Mutant of Read: the lock is kept by the thread that has its sentinel. *)
Read_KeepsLock(e) ==
  /\ holder = e
  /\ reader[e] = "reading"
  /\ \E n \in 1..Len(stream) :
       LET out == output[e] \o SubSeq(stream, 1, n)
       IN  /\ output' = [output EXCEPT ![e] = out]
           /\ stream' = SubSeq(stream, n + 1, Len(stream))
           /\ reader' = [reader EXCEPT ![e] = IF HasSentinel(out, e) THEN "ended" ELSE "reading"]
           /\ holder' = IF HasSentinel(out, e) THEN e ELSE NULL
  /\ UNCHANGED <<exec, reply, lines, shell, code>>

(* The read under the lock returns some of what there is; the thread ends   *)
(* when the sentinel is in what it has read so far.                         *)
Read(e) ==
  /\ holder = e
  /\ holder' = NULL
  /\ \E n \in 1..Len(stream) :
       LET out == output[e] \o SubSeq(stream, 1, n)
       IN  /\ output' = [output EXCEPT ![e] = out]
           /\ stream' = SubSeq(stream, n + 1, Len(stream))
           /\ reader' = [reader EXCEPT ![e] = IF HasSentinel(out, e) THEN "ended" ELSE "reading"]
  /\ UNCHANGED <<exec, reply, lines, shell, code>>

(* n == 0: the shell is gone and all its output read.  The thread lets go   *)
(* of the lock, sleeps and tries again.                                     *)
ReadNothing(e) ==
  /\ holder = e
  /\ shell = "exited"
  /\ stream = <<>>
  /\ holder' = NULL
  /\ UNCHANGED <<exec, reply, reader, output, stream, lines, shell, code>>

-----------------------------------------------------------------------------
(* The shell.                                                               *)

(* The shell takes a line, which it may echo itself.  An echo broken over  *)
(* two lines holds no sentinel: it is other text.                           *)
TakeLine ==
  /\ shell = NULL
  /\ lines # <<>>
  /\ shell' = Head(lines)
  /\ lines' = Tail(lines)
  /\ \E echo \in {<<>>, Sentinel(Head(lines))} : Emit(echo)
  /\ UNCHANGED <<exec, reply, reader, output, holder, code>>

(* The command ends, and the sentinel follows. *)
CommandEnds(e) ==
  /\ shell = e
  /\ shell' = NULL
  /\ \E c \in ExitCodes : code' = [code EXCEPT ![e] = c]
  /\ Emit(Sentinel(e))
  /\ UNCHANGED <<exec, reply, reader, output, holder, lines>>

(* The command is an exit, or the shell is killed. *)
ShellExits ==
  /\ shell # "exited"
  /\ shell' = "exited"
  /\ lines' = <<>>
  /\ UNCHANGED <<exec, reply, reader, output, holder, stream, code>>

-----------------------------------------------------------------------------

Exec(e) == WriteLine(e) \/ WriteFails(e) \/ Answer(e) \/ TimesOut(e)
Reader(e) == Lock(e) \/ Read(e) \/ ReadNothing(e)
Shell == TakeLine \/ (\E e \in Execs : CommandEnds(e)) \/ ShellExits

Next ==
  \/ \E e \in Execs : Exec(e) \/ Reader(e)
  \/ Shell

Spec == Init /\ [][Next]_vars

(* The reader threads run; who of them gets the lock is open.               *)
Fairness ==
  /\ WF_vars(\E e \in Execs : Lock(e))
  /\ \A e \in Execs : WF_vars(Read(e) \/ ReadNothing(e))

FairSpec == Spec /\ Fairness

-----------------------------------------------------------------------------
(* Properties of the code.                                                  *)

Pieces == [of : Execs, piece : {"head", "tail"}]

(* The type invariant. *)
TypeOK ==
  /\ exec \in [Execs -> {"idle", "waiting", "answered", "timed_out", "failed"}]
  /\ reply \in [Execs -> Int \cup {NULL}]
  /\ reader \in [Execs -> {"none", "reading", "ended"}]
  /\ output \in [Execs -> Seq(Pieces)]
  /\ holder # NULL => holder \in Execs /\ reader[holder] = "reading"
  /\ stream \in Seq(Pieces)
  /\ lines \in Seq(Execs)
  /\ shell \in Execs \cup {NULL, "exited"}
  /\ code \in [Execs -> ExitCodes \cup {NULL}]

(* Another thread has read a half of the sentinel of e. *)
Robbed(e) ==
  \E r \in Execs \ {e} : \E i \in 1..Len(output[r]) : output[r][i].of = e

(* A thread misses its sentinel for one reason only: another thread of the  *)
(* session, of an exec that overlaps with this one or has timed out, took   *)
(* part of it.  However the output is cut into chunks, a thread that has    *)
(* the lock of the reader to itself finds it (read_until_sentinel).         *)
MissedOnlyIfRobbed ==
  \A e \in Execs :
    reader[e] = "reading" /\ code[e] # NULL /\ stream = <<>> => Robbed(e)

(* The thread of a command that has ended finds the sentinel, unless        *)
(* another thread of the session takes part of it.                          *)
SentinelFound ==
  \A e \in Execs :
    reader[e] = "reading" /\ code[e] # NULL ~> reader[e] = "ended" \/ Robbed(e)

=============================================================================
