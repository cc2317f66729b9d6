----------------------------- MODULE AgentFiles -----------------------------
(***************************************************************************)
(* The routes of the agent that work on files (agent/src/routes/file.rs,     *)
(* agent/src/routes/fs.rs), run by several requests at once on one            *)
(* directory.  There is no lock: a handler reads a file, changes the text     *)
(* and writes all of it back.  A name leads to an inode and the inode holds   *)
(* the bytes, so a handler that has opened a file writes to it wherever its   *)
(* name has gone.                                                             *)
(***************************************************************************)
EXTENDS Integers, SequencesExt

CONSTANTS
  Reqs,       (* requests *)
  Inputs,     (* what they may ask for *)
  Texts,      (* the files there are at first: a function from names to texts *)
  Chars,      (* the characters of texts, names and patterns *)
  NULL

Names == DOMAIN Texts
Inodes == Names \union Reqs     (* a request makes at most one new file *)

ASSUME FilesAssumption ==
  /\ NULL \notin Inodes /\ Names \intersect Reqs = {}
  /\ \A in \in Inputs : in.name \in Names /\ in.to \in Names

VARIABLES
  dir,        (* the inode of each name, or NULL *)
  data,       (* the text of each inode *)
  input,      (* what each request asks for *)
  pc,         (* where its handler is, and then its answer *)
  text,       (* what an edit has read, and others are to write *)
  fd,         (* the inode a handler has opened for writing *)
  src,        (* the inode a copy has opened for reading *)
  found,      (* the names a walk has found *)
  ahead,      (* the names a walk has not come to *)
  alone,      (* history: since an edit read its file, no other request changed it *)
  meant,      (* history: the text each inode was last meant to hold *)
  spoilt,     (* history: the inodes that need not hold it, see FilesAreWhole *)
  partial,    (* history: the requests that have read a text not known to be whole *)
  stayed      (* history: the names that were there all through a walk *)

vars == <<dir, data, input, pc, text, fd, src, found, ahead, alone, meant, spoilt, partial,
          stayed>>
walkVars == <<found, ahead, stayed>>

Init ==
  /\ dir = [n \in Names |-> n]
  /\ data = [i \in Inodes |-> IF i \in Names THEN Texts[i] ELSE <<>>]
  /\ input \in [Reqs -> Inputs]
  /\ pc = [q \in Reqs |-> "asked"] /\ text = [q \in Reqs |-> <<>>]
  /\ fd = [q \in Reqs |-> NULL] /\ src = [q \in Reqs |-> NULL]
  /\ found = [q \in Reqs |-> {}] /\ ahead = [q \in Reqs |-> Names]
  /\ stayed = [q \in Reqs |-> {}]
  /\ alone = [q \in Reqs |-> FALSE]
  /\ meant = data /\ spoilt = {} /\ partial = {}

----------------------------------------------------------------------------
(* Texts: sequences of letters and line ends.                                *)

NL == "nl"
Star == "*"

Text == Seq(Chars)

ASSUME TextsAssumption ==
  /\ {NL, Star} \subseteq Chars
  /\ Names \subseteq Text /\ \A n \in Names : Texts[n] \in Text
  /\ \A in \in Inputs : /\ in.old \in Text /\ in.new \in Text /\ in.pattern \in Text
                       /\ in.first \in Nat /\ in.last \in Nat

(* str::split: the parts of s between the separators. *)
Split(s, sep) ==
  LET add(parts, c) == IF c = sep THEN Append(parts, <<>>)
                       ELSE Front(parts) \o <<Append(Last(parts), c)>>
  IN FoldLeft(add, << <<>> >>, s)

(* str::lines: a line end at the end of the text starts no line. *)
Lines(s) == LET parts == Split(s, NL)
            IN IF Last(parts) = <<>> THEN Front(parts) ELSE parts

(* join("\n"): no line end after the last line. *)
Join(ls) == FlattenSeq([i \in DOMAIN ls |-> IF i = 1 THEN ls[i] ELSE <<NL>> \o ls[i]])

(* The places where t occurs in s. *)
Occurs(t, s) == {i \in 1..(Len(s) + 1 - Len(t)) : SubSeq(s, i, i + Len(t) - 1) = t}

(* post_file_str_replace: the first occurrence only. *)
Replaced(s, old, new) == ReplaceSubSeqAt(Min(Occurs(old, s)), new, old, s)

(* post_file_insert: a line number past the end is the end. *)
Inserted(s, line, new) ==
  LET ls == Lines(s)
      at == IF line < Len(ls) THEN line ELSE Len(ls)
  IN Join(InsertAt(ls, at + 1, new))

(* Mutant of Deleted: the first line is not made an index. *)
X_Deleted(s, first, last) ==
  LET ls == Lines(s)
  IN Join(FlattenSeq([i \in DOMAIN ls |->
            IF i - 1 < first \/ i - 1 >= last THEN <<ls[i]>> ELSE <<>>]))

(* post_file_delete_lines: lines from first to last, counted from 1. *)
Deleted(s, first, last) ==
  LET ls == Lines(s)
      start == IF first = 0 THEN 0 ELSE first - 1
  IN Join(FlattenSeq([i \in DOMAIN ls |->
            IF i - 1 < start \/ i - 1 >= last THEN <<ls[i]>> ELSE <<>>]))

EditOps == {"replace", "insert", "delete", "patch"}

(* What an edit makes of the text it has read. *)
Edited(in, s) ==
  CASE in.op \in {"replace", "patch"} -> Replaced(s, in.old, in.new)
    [] in.op = "insert" -> Inserted(s, in.first, in.new)
    [] in.op = "delete" -> Deleted(s, in.first, in.last)

(* What a request leaves in the file: the text, edited if it is an edit.          *)
Output(q) ==
  IF input[q].op \in {"write", "copy"} THEN text[q] ELSE Edited(input[q], text[q])

(* Mutant of GlobMatch: a part in the middle must follow at once. *)
X_GlobMatch(p, name) ==
  LET parts == Split(p, Star)
      step(pos, i) ==
        LET part == parts[i]
        IN IF pos < 0 \/ part = <<>> THEN pos
           ELSE IF i = Len(parts) /\ i > 1 THEN IF IsSuffix(part, name) THEN pos ELSE -1
           ELSE IF pos + 1 \in Occurs(part, name) THEN pos + Len(part) ELSE -1
  IN IF Len(parts) = 1 THEN name = p ELSE FoldLeftDomain(step, 0, parts) >= 0

(* glob_match: pos is the end of what has matched, or -1.  The last part is only  *)
(* compared with the end of the name, also if that lies before pos.              *)
GlobMatch(p, name) ==
  LET parts == Split(p, Star)
      step(pos, i) ==
        LET part == parts[i]
            next == {k \in Occurs(part, name) : k > pos}
        IN IF pos < 0 \/ part = <<>> THEN pos
           ELSE IF i = 1 THEN IF IsPrefix(part, name) THEN Len(part) ELSE -1
           ELSE IF i = Len(parts) THEN IF IsSuffix(part, name) THEN pos ELSE -1
           ELSE IF next = {} THEN -1 ELSE Min(next) - 1 + Len(part)
  IN IF Len(parts) = 1 THEN name = p ELSE FoldLeftDomain(step, 0, parts) >= 0

----------------------------------------------------------------------------
(* What each step does to the histories. *)

Name(q) == input[q].name

(* The handlers that write an inode or are about to. *)
Writing(q) == pc[q] \in {"copying", "open"}
Writers(i) == {q \in Reqs : Writing(q) /\ fd[q] = i}

Is(q, ops) == pc[q] = "asked" /\ input[q].op \in ops

(* The file of a request is not touched by this step. *)
Untouched(q) ==
  /\ dir'[Name(q)] = dir[Name(q)]
  /\ dir[Name(q)] # NULL => data'[dir[Name(q)]] = data[dir[Name(q)]]

(* A step of p: another edit whose file it changes is not alone any more, and a   *)
(* name that is gone has not stayed.                                              *)
Noted(p) ==
  /\ alone' = [q \in Reqs |-> IF q = p THEN alone[q] ELSE alone[q] /\ Untouched(q)]
  /\ stayed' = [q \in Reqs |-> {n \in stayed[q] : dir'[n] # NULL}]

Goes(q, to) == pc' = [pc EXCEPT ![q] = to]

(* A step that changes no file. *)
Harmless == UNCHANGED <<dir, data, input, fd, src, meant, spoilt>>

(* The handlers. *)

(* A request reads an inode.  Its text is whole if the file is at rest and sound. *)
Reads(q, i) ==
  /\ text' = [text EXCEPT ![q] = data[i]]
  /\ partial' = IF Writers(i) = {} /\ i \notin spoilt THEN partial ELSE partial \union {q}

(* An edit reads a file that has the text to replace. *)
ReadsFor(q, to) ==
  LET i == dir[Name(q)]
  IN /\ i # NULL
     /\ input[q].op \in {"replace", "patch"} => Occurs(input[q].old, data[i]) # {}
     /\ Reads(q, i)
     /\ alone' = [alone EXCEPT ![q] = Writers(i) = {}]
     /\ Goes(q, to)

Refuses(q, code) == Goes(q, code) /\ UNCHANGED <<text, partial, alone>>

(* An edit reads the file: 404 if it is not there, cannot be read or is not UTF-8, *)
(* 422 if it lacks the text to replace.                                            *)
ReadToEdit(q) ==
  /\ Is(q, EditOps \ {"patch"})
  /\ \/ ReadsFor(q, "edit")
     \/ Refuses(q, "404")
     \/ LET i == dir[Name(q)]
        IN /\ input[q].op = "replace" /\ i # NULL /\ Occurs(input[q].old, data[i]) = {}
           /\ Refuses(q, "422")
  /\ Harmless /\ UNCHANGED walkVars

(* The patch program reads the file, in which the diff, here one replacement, must *)
(* fit: 500 if there is no place for the diff or no patch program, 422 if that    *)
(* program fails, for whatever reason.                                            *)
StartPatch(q) ==
  /\ Is(q, {"patch"})
  /\ ReadsFor(q, "patching") \/ Refuses(q, "500") \/ Refuses(q, "422")
  /\ Harmless /\ UNCHANGED walkVars

(* The inode a handler opens under a name: the one that is there or a new one.  *)
Opened(q, n) == IF dir[n] = NULL THEN q ELSE dir[n]

(* A request that is alone with a file starts it anew; two spoil it. *)
Overlaps(i) == spoilt' = IF Writers(i) = {} THEN spoilt \ {i} ELSE spoilt \union {i}

(* Mutant of OpenForWriting: the file is opened and not emptied. *)
X_OpenForWriting(q, n) ==
  /\ fd' = [fd EXCEPT ![q] = Opened(q, n)]
  /\ dir' = [dir EXCEPT ![n] = Opened(q, n)]
  /\ Overlaps(Opened(q, n))
  /\ UNCHANGED data

(* The first half of fs::write and of fs::copy: the file is created or emptied. *)
OpenForWriting(q, n) ==
  LET i == Opened(q, n)
  IN /\ fd' = [fd EXCEPT ![q] = i]
     /\ dir' = [dir EXCEPT ![n] = i] /\ data' = [data EXCEPT ![i] = <<>>]
     /\ Overlaps(i)

(* An edit or post_file_write opens its file. *)
OpenToWrite(q) ==
  /\ \/ Is(q, {"write"}) /\ text' = [text EXCEPT ![q] = input[q].new]
     \/ pc[q] = "edit" /\ UNCHANGED text
  /\ OpenForWriting(q, Name(q))
  /\ Goes(q, "open")
  /\ Noted(q) /\ UNCHANGED <<input, src, found, ahead, meant, partial>>

(* post_cp opens the source, then the target, which it empties before it reads.  *)
OpenToCopy(q) ==
  /\ Is(q, {"copy"}) /\ dir[Name(q)] # NULL
  /\ src' = [src EXCEPT ![q] = dir[Name(q)]]
  /\ OpenForWriting(q, input[q].to)
  /\ Goes(q, "copying")
  /\ Noted(q) /\ UNCHANGED <<input, text, found, ahead, meant, partial>>

(* It reads the source, wherever its name has gone.  The source may be the target, *)
(* which is empty by now.                                                          *)
ReadToCopy(q) ==
  /\ pc[q] = "copying"
  /\ Reads(q, src[q])
  /\ Goes(q, "open")
  /\ Harmless /\ UNCHANGED <<alone, walkVars>>

(* What a file holds after s is written over its beginning. *)
Overlay(s, old) == IF old = <<>> THEN s ELSE s \o SubSeq(old, Len(s) + 1, Len(old))

(* The text of q is what inode i is meant to hold; a part of a text spoils it. *)
Leaves(q, i) ==
  /\ meant' = [meant EXCEPT ![i] = Output(q)]
  /\ spoilt' = IF q \in partial THEN spoilt \union {i} ELSE spoilt

(* The second half: the text goes over what the file now holds. *)
WriteOut(q) ==
  /\ pc[q] = "open"
  /\ data' = [data EXCEPT ![fd[q]] = Overlay(Output(q), @)]
  /\ Leaves(q, fd[q])
  /\ Goes(q, "200")
  /\ UNCHANGED <<dir, input, text, fd, src, partial, found, ahead>> /\ Noted(q)

(* Only a part of the text is written, and the answer is an error. *)
WriteFails(q) ==
  /\ pc[q] = "open"
  /\ \E k \in 0..Len(Output(q)) :
       data' = [data EXCEPT ![fd[q]] = Overlay(SubSeq(Output(q), 1, k), @)]
  /\ Goes(q, "500") /\ spoilt' = spoilt \union {fd[q]}
  /\ UNCHANGED <<dir, input, text, fd, src, meant, partial, found, ahead>> /\ Noted(q)

(* The patch program puts a new file in the place of the old one. *)
PatchRenames(q) ==
  /\ pc[q] = "patching"
  /\ dir' = [dir EXCEPT ![Name(q)] = q] /\ data' = [data EXCEPT ![q] = Output(q)]
  /\ Leaves(q, q)
  /\ Goes(q, "200")
  /\ UNCHANGED <<input, text, fd, src, partial, found, ahead>> /\ Noted(q)

(* post_mv: one rename. *)
Move(q) ==
  /\ Is(q, {"mv"}) /\ dir[Name(q)] # NULL
  /\ dir' = IF Name(q) = input[q].to THEN dir
            ELSE [dir EXCEPT ![input[q].to] = dir[Name(q)], ![Name(q)] = NULL]
  /\ Goes(q, "200")
  /\ UNCHANGED <<data, input, text, fd, src, meant, spoilt, partial, found, ahead>> /\ Noted(q)

(* delete_rm *)
Rm(q) ==
  /\ Is(q, {"rm"}) /\ dir[Name(q)] # NULL
  /\ dir' = [dir EXCEPT ![Name(q)] = NULL]
  /\ Goes(q, "200")
  /\ UNCHANGED <<data, input, text, fd, src, meant, spoilt, partial, found, ahead>> /\ Noted(q)

(* cp, mv and rm of a file that is not there. *)
NoSuchFile(q) ==
  /\ Is(q, {"copy", "mv", "rm"}) /\ dir[Name(q)] = NULL
  /\ Goes(q, "500")
  /\ Harmless /\ UNCHANGED <<text, partial, alone, walkVars>>

(* post_find opens the directory. *)
StartWalk(q) ==
  /\ Is(q, {"find"})
  /\ Goes(q, "walking")
  /\ stayed' = [stayed EXCEPT ![q] = {n \in Names : dir[n] # NULL}]
  /\ Harmless /\ UNCHANGED <<text, partial, alone, found, ahead>>

(* It comes to the next entry, in whatever order.  A pattern without a star may  *)
(* also be any part of the name.                                                  *)
Visit(q) ==
  /\ pc[q] = "walking"
  /\ \E n \in ahead[q] :
       /\ ahead' = [ahead EXCEPT ![q] = @ \ {n}]
       /\ LET p == input[q].pattern
              is == dir[n] # NULL /\ (Occurs(p, n) # {} \/ GlobMatch(p, n))
          IN found' = IF is THEN [found EXCEPT ![q] = @ \union {n}] ELSE found
  /\ Goes(q, IF ahead'[q] = {} THEN "200" ELSE "walking")
  /\ Harmless /\ UNCHANGED <<text, partial, alone, stayed>>

(* The client goes away: the handler is dropped where it waits.  A write that has *)
(* begun runs on in its own thread, and so does the patch program.                *)
Drop(q) ==
  /\ pc[q] \in {"edit", "walking"}
  /\ Goes(q, "dropped")
  /\ Harmless /\ UNCHANGED <<text, partial, alone, walkVars>>

(* The places of a handler that has not answered. *)
Steps == {"asked", "edit", "copying", "open", "patching", "walking"}

(* The agent dies with all its handlers. *)
Crash ==
  /\ \E q \in Reqs : Writing(q)
  /\ pc' = [q \in Reqs |-> IF pc[q] \in Steps THEN "lost" ELSE pc[q]]
  /\ spoilt' = spoilt \union {fd[q] : q \in {r \in Reqs : Writing(r)}}
  /\ UNCHANGED <<dir, data, input, text, fd, src, alone, meant, partial, walkVars>>

Next ==
  \/ \E q \in Reqs :
       \/ ReadToEdit(q) \/ StartPatch(q) \/ OpenToWrite(q) \/ OpenToCopy(q) \/ ReadToCopy(q)
       \/ WriteOut(q) \/ WriteFails(q) \/ PatchRenames(q) \/ Move(q) \/ Rm(q) \/ NoSuchFile(q)
       \/ StartWalk(q) \/ Visit(q) \/ Drop(q)
  \/ Crash

Spec == Init /\ [][Next]_vars

----------------------------------------------------------------------------
(* Whether b is what an edit should make of the text a, told by its effect.      *)
Means(in, a, b) ==
  LET ls == Lines(a) IN
  CASE in.op = "insert" ->
         \E k \in 0..Len(ls) :
           /\ k = in.first \/ (k = Len(ls) /\ in.first > k)
           /\ Split(b, NL) = SubSeq(ls, 1, k) \o Split(in.new, NL) \o SubSeq(ls, k + 1, Len(ls))
    [] in.op = "delete" ->
         \E k \in 0..Len(ls) : \E m \in k..Len(ls) :
           /\ b = Join(SubSeq(ls, 1, k) \o SubSeq(ls, m + 1, Len(ls)))
           /\ \A i \in DOMAIN ls : k < i /\ i <= m <=> in.first <= i /\ i <= in.last
    [] OTHER ->
         (\A i, k \in Occurs(in.old, a) : i = k) =>
           \E x \in Prefixes(a), y \in Suffixes(a) : a = x \o in.old \o y /\ b = x \o in.new \o y

(* An edit that is answered with 200 leaves in the file what it means, applied to *)
(* the text that was there when it came, if no other request changed the file in    *)
(* between: no line number is off by one, and nothing but an overlap loses an edit *)
(* (post_file_str_replace, _insert, _delete_lines and _patch).  A replacement has a *)
(* meaning only if there is one place for it: the tool promises an error for two   *)
(* places (README.md:227), and the code takes the first (file.rs:175-179).         *)
EditsHaveTheirEffect ==
  [][\A q \in Reqs :
       /\ input[q].op \in EditOps
       /\ pc[q] # "200" /\ pc'[q] = "200" /\ alone[q]
       => Means(input[q], text[q], data'[dir'[Name(q)]])]_vars

(* A file that nobody is writing and that is not spoilt holds the text that was    *)
(* last meant for it: all of it, and nothing else.  So these are all the ways in   *)
(* which fs::write and fs::copy, which empty a file and then fill it, spoil it: a   *)
(* write that failed or was cut by a crash, two that met, and an edit or a copy     *)
(* of a text that was read from a spoilt file or while it was written, a copy of a  *)
(* file onto itself among them.  And the next write that meets no other makes the   *)
(* file sound again.                                                               *)
FilesAreWhole ==
  \A n \in Names :
    LET i == dir[n]
    IN i # NULL /\ Writers(i) = {} /\ i \notin spoilt => data[i] = meant[i]

(* Whether a name fits a pattern: its parts occur in order, the first at the start *)
(* and the last at the end; without a star it is a part of the name.                *)
Fits(p, n) ==
  LET parts == Split(p, Star)
      k == Len(parts)
  IN IF k = 1 THEN Occurs(p, n) # {}
     ELSE \E at \in [1..k -> 1..(Len(n) + 1)] :
            /\ \A i \in 1..k : /\ at[i] + Len(parts[i]) <= Len(n) + 1
                              /\ SubSeq(n, at[i], at[i] + Len(parts[i]) - 1) = parts[i]
            /\ at[1] = 1 /\ at[k] + Len(parts[k]) = Len(n) + 1
            /\ \A i \in 2..k : at[i] >= at[i - 1] + Len(parts[i - 1])

(* A walk of post_find misses no name that fits and was there from its start to    *)
(* its end, whatever is moved, removed or created meanwhile.  It may find too much: *)
(* GlobMatch lets the last part of a pattern overlap those before it.               *)
FindMissesNothing ==
  \A q \in Reqs :
    input[q].op = "find" /\ pc[q] = "200" =>
      \A n \in stayed[q] : Fits(input[q].pattern, n) => n \in found[q]

=============================================================================
