-------------------------- MODULE AgentFilesProofs --------------------------
(***************************************************************************)
(* What TLAPS proves of AgentFiles, for any number of requests, any names    *)
(* and texts and whatever the requests ask for.  In this order:              *)
(*   files are whole (FilesInv, FilesStayWhole);                             *)
(*   induction over numbers and sequences, and with it what the folds and    *)
(*   recursive functions behind Split, Join and GlobMatch compute;           *)
(*   what the edits make of any text, and that they do so in the file        *)
(*   (EditInv, EditsDoWhatTheyMean);                                         *)
(*   that a pattern matches what fits it, and that walks find it             *)
(*   (WalkInv, WalksMissNothing).                                            *)
(***************************************************************************)
EXTENDS AgentFiles, SequenceTheorems, WellFoundedInduction, TLAPS

(***************************************************************************)
(* The inductive invariant                                                  *)
(***************************************************************************)

(* Where a handler can be. *)
Places == Steps \union {"200", "404", "422", "500", "dropped", "lost"}

(* Requests that have not opened a file for writing, or never do.           *)
Unopened == {"asked", "edit", "patching"}

FileTypes ==
  /\ dir \in [Names -> Inodes \union {NULL}]
  /\ data = [i \in Inodes |-> data[i]] /\ meant = [i \in Inodes |-> meant[i]]
  /\ input \in [Reqs -> Inputs]
  /\ pc \in [Reqs -> Places]
  /\ text = [q \in Reqs |-> text[q]]
  /\ fd \in [Reqs -> Inodes \union {NULL}]

(* Only a request that leaves a text somewhere gets as far as writing.      *)
WritersWrite ==
  \A q \in Reqs :
    /\ Writing(q) => fd[q] \in Inodes
    /\ pc[q] \in {"edit", "patching", "copying", "open"} =>
         input[q].op \in EditOps \union {"write", "copy"}

(* Before a request opens a file, the inode it may make is not in use.       *)
Fresh ==
  \A q \in Reqs :
    pc[q] \in Unopened =>
      /\ fd[q] = NULL
      /\ \A n \in Names : dir[n] # q
      /\ \A p \in Reqs : fd[p] # q

(* A handler whose file is not spoilt is alone with it, and the file is still  *)
(* as empty as it made it.                                                     *)
Emptied ==
  \A q \in Reqs :
    Writing(q) /\ fd[q] \notin spoilt =>
      /\ \A p \in Reqs : Writing(p) /\ fd[p] = fd[q] => p = q
      /\ data[fd[q]] = <<>>

FilesInv == FileTypes /\ WritersWrite /\ Fresh /\ Emptied /\ FilesAreWhole

(***************************************************************************)
(* Lemmas                                                                   *)
(***************************************************************************)

(* Names and requests are inodes, and NULL is none.                         *)
LEMMA InodeFacts ==
  /\ Names \subseteq Inodes /\ Reqs \subseteq Inodes /\ NULL \notin Inodes
  /\ Names \intersect Reqs = {}
  BY FilesAssumption DEF Inodes

(* The invariant holds at first.                                             *)
LEMMA InitFiles == Init => FilesInv
<1> SUFFICES ASSUME Init PROVE FilesInv
  OBVIOUS
<1>1. FileTypes
  BY InodeFacts DEF Init, FileTypes, Places, Steps
<1>2. WritersWrite /\ Emptied
  BY DEF Init, WritersWrite, Emptied, Writing
<1>3. Fresh
  BY InodeFacts DEF Init, Fresh, Unopened
<1>4. FilesAreWhole
  BY DEF Init, FilesAreWhole
<1> QED
  BY <1>1, <1>2, <1>3, <1>4 DEF FilesInv

(* A step that changes no file and moves one handler, not from or to writing. *)
LEMMA QuietStep ==
  ASSUME FilesInv, Harmless, NEW r \in Reqs, NEW to \in Places, Goes(r, to),
         text' = [q \in Reqs |-> text'[q]],
         Writing(r) <=> to \in {"copying", "open"},
         to \in Unopened => pc[r] \in Unopened,
         to \in {"edit", "patching"} => input[r].op \in EditOps
  PROVE  FilesInv'
<1> USE DEF FilesInv, Harmless, Goes
<1>1. FileTypes'
  BY DEF FileTypes
<1>2. \A q \in Reqs : Writing(q)' <=> Writing(q)
  BY DEF FileTypes, Writing
<1>3. WritersWrite'
  <2>1. \A q \in Reqs \ {r} : pc'[q] = pc[q]
    BY DEF FileTypes
  <2>2. pc'[r] = to
    BY DEF FileTypes
  <2> QED
    BY <1>2, <2>1, <2>2 DEF WritersWrite, Writing
<1>4. Fresh'
  BY DEF Fresh, FileTypes
<1>5. Emptied'
  BY <1>2 DEF Emptied
<1>6. FilesAreWhole'
  BY <1>2 DEF FilesAreWhole, Writers
<1> QED
  BY <1>1, <1>3, <1>4, <1>5, <1>6

(* A handler opens a file for writing, which it makes or empties.            *)
LEMMA OpenStep ==
  ASSUME FilesInv, NEW q \in Reqs, NEW n \in Names, NEW to \in {"copying", "open"},
         pc[q] \in Unopened, OpenForWriting(q, n), Goes(q, to),
         input[q].op \in EditOps \union {"write", "copy"}, UNCHANGED <<input, meant>>,
         text' = [p \in Reqs |-> text'[p]]
  PROVE  FilesInv'
<1> DEFINE i == Opened(q, n)
<1> USE DEF FilesInv, Goes
<1>1. i \in Inodes /\ (dir[n] # NULL => i = dir[n]) /\ (dir[n] = NULL => i = q)
  BY InodeFacts DEF Opened, FileTypes
<1>2. /\ fd' = [fd EXCEPT ![q] = i] /\ dir' = [dir EXCEPT ![n] = i]
      /\ data' = [data EXCEPT ![i] = <<>>]
      /\ spoilt' = IF Writers(i) = {} THEN spoilt \ {i} ELSE spoilt \union {i}
  BY DEF OpenForWriting, Overlaps
<1>3. ~Writing(q)
  BY DEF Writing, Unopened
<1>4. /\ Writing(q)' /\ fd'[q] = i
      /\ \A p \in Reqs \ {q} : (Writing(p)' <=> Writing(p)) /\ fd'[p] = fd[p] /\ pc'[p] = pc[p]
  BY <1>2 DEF Writing, FileTypes
<1>5. \A j \in Inodes \ {i} : data'[j] = data[j] /\ (j \in spoilt' <=> j \in spoilt)
  BY <1>2 DEF FileTypes
<1>6. data'[i] = <<>>
  BY <1>1, <1>2 DEF FileTypes
<1> HIDE DEF i
<1>7. FileTypes'
  BY <1>1, <1>2 DEF FileTypes, Places, Steps
<1>8. WritersWrite'
  BY <1>1, <1>4 DEF WritersWrite
<1>9. Fresh'
  <2> SUFFICES ASSUME NEW p \in Reqs, pc'[p] \in Unopened
               PROVE  /\ fd'[p] = NULL
                      /\ \A m \in Names : dir'[m] # p
                      /\ \A r \in Reqs : fd'[r] # p
    BY DEF Fresh
  <2>1. p # q /\ pc[p] \in Unopened
    BY <1>4 DEF FileTypes, Unopened
  <2>2. i # p
    BY <1>1, <2>1, InodeFacts DEF Fresh
  <2> QED
    BY <1>2, <1>4, <2>1, <2>2 DEF Fresh, FileTypes
<1>10. Emptied'
  <2> SUFFICES ASSUME NEW p \in Reqs, Writing(p)', fd'[p] \notin spoilt'
               PROVE  /\ \A r \in Reqs : Writing(r)' /\ fd'[r] = fd'[p] => r = p
                      /\ data'[fd'[p]] = <<>>
    BY DEF Emptied
  <2>1. CASE p = q
    <3>1. Writers(i) = {}
      BY <1>2, <1>4, <2>1
    <3> QED
      BY <1>4, <1>6, <2>1, <3>1 DEF Writers
  <2>2. CASE p # q
    <3>1. fd[p] # i
      BY <1>2, <1>4, <2>2 DEF Writers
    <3>2. fd[p] \in Inodes /\ Writing(p)
      BY <1>4, <2>2 DEF WritersWrite
    <3>3. fd[p] \notin spoilt
      BY <1>4, <1>5, <2>2, <3>1, <3>2
    <3>4. /\ \A r \in Reqs : Writing(r) /\ fd[r] = fd[p] => r = p
          /\ data[fd[p]] = <<>>
      BY <3>2, <3>3 DEF Emptied
    <3> QED
      BY <1>4, <1>5, <2>2, <3>1, <3>2, <3>4
  <2> QED
    BY <2>1, <2>2
<1>11. FilesAreWhole'
  <2> SUFFICES ASSUME NEW m \in Names, dir'[m] # NULL, Writers(dir[m])' = {}, dir'[m] \notin spoilt'
               PROVE  data'[dir'[m]] = meant'[dir'[m]]
    BY DEF FilesAreWhole
  <2>1. dir'[m] # i
    BY <1>4 DEF Writers
  <2>2. dir'[m] = dir[m] /\ dir[m] \in Inodes
    BY <1>2, <2>1 DEF FileTypes
  <2>3. Writers(dir[m]) = {}
    BY <1>3, <1>4, <2>2 DEF Writers
  <2> QED
    BY <1>5, <2>1, <2>2, <2>3 DEF FilesAreWhole
<1> QED
  BY <1>7, <1>8, <1>9, <1>10, <1>11

(* A handler has written s to its file, and answers.                          *)
LEMMA WriteStep ==
  ASSUME FilesInv, NEW q \in Reqs, pc[q] = "open", NEW s, NEW t, NEW to \in {"200", "500"},
         data' = [data EXCEPT ![fd[q]] = s], meant' = [meant EXCEPT ![fd[q]] = t], Goes(q, to),
         UNCHANGED <<dir, input, text, fd>>, spoilt' \in {spoilt, spoilt \union {fd[q]}},
         fd[q] \notin spoilt' /\ data[fd[q]] = <<>> => s = t
  PROVE  FilesInv'
<1> USE DEF FilesInv, Goes
<1>1. fd[q] \in Inodes /\ Writing(q)
  BY DEF WritersWrite, Writing
<1>2. /\ data'[fd[q]] = s /\ meant'[fd[q]] = t
      /\ \A i \in Inodes \ {fd[q]} : data'[i] = data[i] /\ meant'[i] = meant[i]
      /\ spoilt \subseteq spoilt'
  BY <1>1 DEF FileTypes
<1>3. /\ ~Writing(q)' /\ \A p \in Reqs \ {q} : (Writing(p)' <=> Writing(p)) /\ pc'[p] = pc[p]
      /\ pc'[q] = to
  BY DEF Writing, FileTypes
<1>4. FileTypes'
  BY <1>1, <1>2 DEF FileTypes, Places
<1>5. WritersWrite'
  BY <1>3 DEF WritersWrite
<1>6. Fresh'
  BY <1>3 DEF Fresh, Unopened
<1>7. Emptied'
  <2> SUFFICES ASSUME NEW p \in Reqs, Writing(p)', fd'[p] \notin spoilt'
               PROVE  /\ \A r \in Reqs : Writing(r)' /\ fd'[r] = fd'[p] => r = p
                      /\ data'[fd'[p]] = <<>>
    BY DEF Emptied
  <2>1. p # q /\ Writing(p) /\ fd[p] \notin spoilt /\ fd[p] \in Inodes
    BY <1>2, <1>3 DEF WritersWrite
  <2>2. fd[p] # fd[q]
    BY <1>1, <2>1 DEF Emptied
  <2> QED
    BY <1>2, <1>3, <2>1, <2>2 DEF Emptied
<1>8. FilesAreWhole'
  <2> SUFFICES ASSUME NEW n \in Names, dir[n] # NULL, Writers(dir[n])' = {}, dir[n] \notin spoilt'
               PROVE  data'[dir[n]] = meant'[dir[n]]
    BY DEF FilesAreWhole
  <2>1. CASE dir[n] # fd[q]
    <3>1. Writers(dir[n]) = {}
      BY <1>3, <2>1 DEF Writers
    <3>2. dir[n] \in Inodes \ {fd[q]}
      BY <2>1 DEF FileTypes
    <3> QED
      BY <1>2, <3>1, <3>2 DEF FilesAreWhole
  <2>2. CASE dir[n] = fd[q]
    <3>1. data[fd[q]] = <<>>
      BY <1>1, <1>2, <2>2 DEF Emptied
    <3> QED
      BY <1>2, <2>2, <3>1
  <2> QED
    BY <2>1, <2>2
<1> QED
  BY <1>4, <1>5, <1>6, <1>7, <1>8

(* The patch program replaces a file.                                        *)
LEMMA PatchStep ==
  ASSUME FilesInv, NEW q \in Reqs, PatchRenames(q) PROVE FilesInv'
<1> USE DEF FilesInv, PatchRenames, Leaves, Goes
<1>1. /\ pc[q] \in Unopened /\ ~Writing(q) /\ q \in Inodes /\ Name(q) \in Names
  BY FilesAssumption, InodeFacts DEF Unopened, Writing, FileTypes, Name
<1>2. /\ data'[q] = Output(q) /\ meant'[q] = Output(q)
      /\ \A i \in Inodes \ {q} : data'[i] = data[i] /\ meant'[i] = meant[i]
      /\ dir'[Name(q)] = q /\ \A n \in Names \ {Name(q)} : dir'[n] = dir[n]
  BY <1>1 DEF FileTypes
<1>3. /\ pc'[q] = "200" /\ ~Writing(q)'
      /\ \A p \in Reqs \ {q} : pc'[p] = pc[p] /\ (Writing(p)' <=> Writing(p))
  BY DEF FileTypes, Writing
<1>4. (\A n \in Names : dir[n] # q) /\ \A p \in Reqs : fd[p] # q
  BY <1>1 DEF Fresh
<1>5. spoilt \subseteq spoilt'
  OBVIOUS
<1>6. FileTypes'
  BY <1>1 DEF FileTypes, Places
<1>7. WritersWrite'
  BY <1>3 DEF WritersWrite
<1>8. Fresh'
  BY <1>2, <1>3 DEF Fresh, Unopened
<1>9. Emptied'
  BY <1>1, <1>2, <1>3, <1>4, <1>5 DEF Emptied, WritersWrite
<1>10. FilesAreWhole'
  <2> SUFFICES ASSUME NEW n \in Names, dir'[n] # NULL, Writers(dir[n])' = {}, dir'[n] \notin spoilt'
               PROVE  data'[dir'[n]] = meant'[dir'[n]]
    BY DEF FilesAreWhole
  <2>1. CASE n = Name(q)
    BY <1>2, <2>1
  <2>2. CASE n # Name(q)
    <3>1. dir'[n] = dir[n] /\ dir[n] \in Inodes \ {q}
      BY <1>2, <1>4, <2>2 DEF FileTypes
    <3>2. Writers(dir[n]) = {}
      BY <1>1, <1>3, <3>1 DEF Writers
    <3> QED
      BY <1>2, <1>5, <3>1, <3>2 DEF FilesAreWhole
  <2> QED
    BY <2>1, <2>2
<1> QED
  BY <1>6, <1>7, <1>8, <1>9, <1>10

(* Names are moved and removed: every file still linked was linked before.    *)
LEMMA NameStep ==
  ASSUME FilesInv, NEW q \in Reqs, pc[q] = "asked", Goes(q, "200"),
         UNCHANGED <<data, input, text, fd, meant, spoilt>>,
         dir' \in [Names -> Inodes \union {NULL}],
         \A n \in Names : dir'[n] # NULL => \E m \in Names : dir'[n] = dir[m]
  PROVE  FilesInv'
<1> USE DEF FilesInv, Goes
<1>1. /\ pc'[q] = "200" /\ ~Writing(q) /\ ~Writing(q)'
      /\ \A p \in Reqs \ {q} : pc'[p] = pc[p] /\ (Writing(p)' <=> Writing(p))
  BY DEF FileTypes, Writing
<1>2. FileTypes'
  BY DEF FileTypes, Places
<1>3. WritersWrite'
  BY <1>1 DEF WritersWrite
<1>4. Fresh'
  BY <1>1, InodeFacts DEF Fresh, Unopened
<1>5. Emptied'
  BY <1>1 DEF Emptied
<1>6. FilesAreWhole'
  <2> SUFFICES ASSUME NEW n \in Names, dir'[n] # NULL, Writers(dir[n])' = {}, dir'[n] \notin spoilt
               PROVE  data[dir'[n]] = meant[dir'[n]]
    BY DEF FilesAreWhole
  <2>1. PICK m \in Names : dir'[n] = dir[m]
    OBVIOUS
  <2>2. Writers(dir[m]) = {}
    BY <1>1, <2>1 DEF Writers
  <2> QED
    BY <2>1, <2>2 DEF FilesAreWhole
<1> QED
  BY <1>2, <1>3, <1>4, <1>5, <1>6

(* A crash leaves every file that was being written spoilt.                   *)
LEMMA CrashStep ==
  ASSUME FilesInv, Crash PROVE FilesInv'
<1> USE DEF FilesInv, Crash
<1>1. \A q \in Reqs : ~Writing(q)' /\ pc'[q] \notin Unopened
  BY DEF Writing, FileTypes, Steps, Unopened
<1>2. FileTypes'
  BY DEF FileTypes, Places
<1>3. \A q \in Reqs : pc'[q] \notin {"edit", "patching", "copying", "open"}
  BY DEF FileTypes, Steps
<1>4. WritersWrite' /\ Fresh' /\ Emptied'
  BY <1>1, <1>3 DEF WritersWrite, Fresh, Emptied
<1>5. FilesAreWhole'
  BY DEF FilesAreWhole, Writers
<1> QED
  BY <1>2, <1>4, <1>5

(* What an edit or a patch does before it goes on or refuses. *)
LEMMA EditStarts ==
  ASSUME FileTypes, NEW q \in Reqs, ReadToEdit(q) \/ StartPatch(q)
  PROVE  /\ Harmless /\ UNCHANGED walkVars
         /\ pc[q] = "asked" /\ input[q].op \in EditOps
         /\ \/ /\ UNCHANGED <<text, alone>>
               /\ \E to \in {"404", "422", "500"} : Goes(q, to)
            \/ ReadsFor(q, IF input[q].op = "patch" THEN "patching" ELSE "edit")
<1>1. CASE ReadToEdit(q)
  BY <1>1 DEF ReadToEdit, Refuses, Is, EditOps
<1>2. CASE StartPatch(q)
  BY <1>2 DEF StartPatch, Refuses, Is, EditOps
<1> QED
  BY <1>1, <1>2

(* Every step keeps the invariant.                                           *)
LEMMA NextFiles == FilesInv /\ [Next]_vars => FilesInv'
<1> SUFFICES ASSUME FilesInv, [Next]_vars PROVE FilesInv'
  OBVIOUS
<1>1. FileTypes /\ \A q \in Reqs : Name(q) \in Names /\ input[q].to \in Names
  BY FilesAssumption DEF FilesInv, FileTypes, Name
<1>2. ASSUME NEW q \in Reqs, ReadToEdit(q) \/ StartPatch(q) PROVE FilesInv'
  <2>1. text' = [p \in Reqs |-> text'[p]]
    BY <1>1, <1>2, EditStarts DEF ReadsFor, Reads, FileTypes
  <2>2. PICK to \in {"404", "422", "500", "patching", "edit"} : Goes(q, to)
    BY <1>1, <1>2, EditStarts DEF ReadsFor
  <2> QED
    BY <1>1, <1>2, <2>1, <2>2, EditStarts, QuietStep DEF Writing, Places, Steps, Unopened
<1>3. ASSUME NEW q \in Reqs, NoSuchFile(q) \/ StartWalk(q) \/ Visit(q) \/ Drop(q)
      PROVE  FilesInv'
  <2>1. text' = text /\ Harmless /\ pc[q] \in {"asked", "edit", "walking"}
    BY <1>3 DEF NoSuchFile, StartWalk, Visit, Drop, Is
  <2>2. PICK to \in {"500", "walking", "200", "dropped"} : Goes(q, to)
    BY <1>3 DEF NoSuchFile, StartWalk, Visit, Drop
  <2> QED
    BY <1>1, <2>1, <2>2, QuietStep DEF Writing, Places, Steps, Unopened, FileTypes
<1>4. ASSUME NEW q \in Reqs, ReadToCopy(q) PROVE FilesInv'
  <2>1. text' = [p \in Reqs |-> text'[p]]
    BY <1>1, <1>4 DEF ReadToCopy, Reads, FileTypes
  <2> QED
    BY <1>4, <2>1, QuietStep DEF ReadToCopy, Writing, Places, Steps, Unopened
<1>5. ASSUME NEW q \in Reqs, OpenToWrite(q) PROVE FilesInv'
  <2>1. text' = [p \in Reqs |-> text'[p]]
    BY <1>1, <1>5 DEF OpenToWrite, FileTypes
  <2>2. pc[q] \in Unopened /\ input[q].op \in EditOps \union {"write", "copy"}
    BY <1>5 DEF OpenToWrite, Is, Unopened, FilesInv, WritersWrite
  <2> QED
    BY <1>1, <1>5, <2>1, <2>2, OpenStep DEF OpenToWrite
<1>6. ASSUME NEW q \in Reqs, OpenToCopy(q) PROVE FilesInv'
  <2>1. pc[q] \in Unopened /\ input[q].op \in EditOps \union {"write", "copy"}
    BY <1>6 DEF OpenToCopy, Is, Unopened
  <2> QED
    BY <1>1, <1>6, <2>1, OpenStep DEF OpenToCopy, FileTypes
<1>7. ASSUME NEW q \in Reqs, WriteOut(q) PROVE FilesInv'
  <2>1. data[fd[q]] = <<>> => Overlay(Output(q), data[fd[q]]) = Output(q)
    BY DEF Overlay
  <2> QED
    BY <1>7, <2>1, WriteStep DEF WriteOut, Leaves
<1>8. ASSUME NEW q \in Reqs, WriteFails(q) PROVE FilesInv'
  <2>1. PICK k \in 0..Len(Output(q)) :
          data' = [data EXCEPT ![fd[q]] = Overlay(SubSeq(Output(q), 1, k), @)]
    BY <1>8 DEF WriteFails
  <2>2. meant' = [meant EXCEPT ![fd[q]] = meant[fd[q]]]
    BY <1>1, <1>8 DEF WriteFails, FileTypes
  <2> QED
    BY <1>8, <2>1, <2>2, WriteStep DEF WriteFails
<1>9. ASSUME NEW q \in Reqs, Move(q) \/ Rm(q) PROVE FilesInv'
  <2>1. /\ dir' \in [Names -> Inodes \union {NULL}]
        /\ \A n \in Names : dir'[n] # NULL => \E m \in Names : dir'[n] = dir[m]
    BY <1>1, <1>9 DEF Move, Rm, FileTypes
  <2> QED
    BY <1>9, <2>1, NameStep DEF Move, Rm, Is
<1>10. CASE UNCHANGED vars
  <2> USE <1>10 DEF vars
  <2>1. FileTypes' /\ Fresh'
    BY DEF FilesInv, FileTypes, Fresh
  <2>2. \A q \in Reqs : Writing(q)' <=> Writing(q)
    BY DEF Writing
  <2>3. WritersWrite' /\ Emptied' /\ FilesAreWhole'
    BY <2>2 DEF FilesInv, WritersWrite, Emptied, FilesAreWhole, Writers
  <2> QED
    BY <2>1, <2>3 DEF FilesInv
<1> QED
  BY <1>2, <1>3, <1>4, <1>5, <1>6, <1>7, <1>8, <1>9, <1>10, PatchStep, CrashStep DEF Next

(* A file that nobody is writing and that is not spoilt holds all of the text last *)
(* meant for it: for any requests, in any number.                                  *)
THEOREM FilesStayWhole == Spec => []FilesAreWhole
<1>1. FilesInv => FilesAreWhole
  BY DEF FilesInv
<1> QED
  BY <1>1, InitFiles, NextFiles, PTL DEF Spec

(***************************************************************************)
(* Induction over numbers, and what it says of recursive functions         *)
(***************************************************************************)

(* A set of natural numbers that is not empty has a least one.                *)
LEMMA Least ==
  ASSUME NEW T, T \subseteq Nat, T # {}
  PROVE  \E n \in T : \A m \in T : n <= m
<1> DEFINE Less == {p \in Nat \X Nat : p[1] < p[2]}
<1>1. IsWellFoundedOn(Less, Nat)
  BY NatLessThanWellFounded DEF OpToRel
<1> HIDE DEF Less
<1>2. PICK n \in T : \A m \in T : <<m, n>> \notin Less
  BY <1>1, WFMin
<1>3. \A m \in T : ~(m < n)
  BY <1>2 DEF Less
<1> QED
  BY <1>3

(* Induction, for a set of numbers: the library states it for an operator.     *)
LEMMA Induction ==
  ASSUME NEW T, 0 \in T, \A n \in Nat : n \in T => n + 1 \in T
  PROVE  \A n \in Nat : n \in T
<1> SUFFICES ASSUME Nat \ T # {} PROVE FALSE
  OBVIOUS
<1>1. PICK n \in Nat \ T : \A m \in Nat \ T : n <= m
  BY Least
<1>2. n # 0 /\ n - 1 \in Nat /\ n - 1 \in T
  BY <1>1
<1> QED
  BY <1>1, <1>2

(* f is what n steps of st make of base, one after the other.                  *)
IsIteration(f, base, n, st) ==
  f[0] = base /\ \A i \in 1..n : f[i] = st[<<f[i - 1], i>>]

(* There is such a function: what a recursive function of the model is.         *)
LEMMA Iteration ==
  ASSUME NEW V, NEW base \in V, NEW n \in Nat, NEW st \in [V \X (1..n) -> V]
  PROVE  \E f \in [0..n -> V] : IsIteration(f, base, n, st)
<1> DEFINE Runs(f, m) == f[0] = base /\ \A i \in 1..m : f[i] = st[<<f[i - 1], i>>]
           P(m) == m <= n => \E f \in [0..m -> V] : Runs(f, m)
           T == {m \in Nat : P(m)}
<1>1. P(0)
  <2>1. [i \in 0..0 |-> base] \in [0..0 -> V] /\ Runs([i \in 0..0 |-> base], 0)
    OBVIOUS
  <2> HIDE DEF Runs
  <2> QED
    BY <2>1
<1>2. ASSUME NEW m \in Nat, P(m) PROVE P(m + 1)
  <2> SUFFICES ASSUME m + 1 <= n PROVE \E f \in [0..(m + 1) -> V] : Runs(f, m + 1)
    OBVIOUS
  <2>1. PICK f \in [0..m -> V] : Runs(f, m)
    BY <1>2
  <2> DEFINE v == st[<<f[m], m + 1>>]
             g == [i \in 0..(m + 1) |-> IF i = m + 1 THEN v ELSE f[i]]
  <2>2. v \in V
    OBVIOUS
  <2>3. g[m + 1] = st[<<f[m], m + 1>>] /\ \A i \in 0..m : g[i] = f[i]
    OBVIOUS
  <2> HIDE DEF v
  <2>4. g \in [0..(m + 1) -> V]
    BY <2>2
  <2> HIDE DEF g
  <2>5. ASSUME NEW i \in 1..(m + 1) PROVE g[i] = st[<<g[i - 1], i>>]
    <3>1. CASE i = m + 1
      BY <2>3, <3>1
    <3>2. CASE i \in 1..m
      BY <2>1, <2>3, <3>2
    <3> QED
      BY <3>1, <3>2
  <2>6. Runs(g, m + 1)
    BY <2>1, <2>3, <2>5
  <2> HIDE DEF Runs
  <2> QED
    BY <2>4, <2>6
<1> HIDE DEF P
<1>3. 0 \in T /\ \A m \in Nat : m \in T => m + 1 \in T
  BY <1>1, <1>2
<1> HIDE DEF T
<1>4. \A m \in Nat : m \in T
  BY <1>3, Induction
<1>5. P(n)
  BY <1>4 DEF T
<1> QED
  BY <1>5 DEF P, IsIteration

(* The greatest number of a set. *)
LEMMA MaxIs ==
  ASSUME NEW S \in SUBSET Int, NEW k \in S, \A y \in S : y <= k
  PROVE  Max(S) = k
<1>1. \A x \in S : (\A y \in S : x >= y) => x = k
  OBVIOUS
<1>2. \E x \in S : \A y \in S : x >= y
  OBVIOUS
<1> QED
  BY <1>1, <1>2, Zenon DEF Max

(* It is there: the least of the numbers that none of the set is above.        *)
LEMMA MaxIn ==
  ASSUME NEW n \in Nat, NEW x \in SUBSET (1..n), x # {}
  PROVE  Max(x) \in x
<1> DEFINE Up == {m \in Nat : \A y \in x : y <= m}
<1>1. n \in Up
  OBVIOUS
<1>2. PICK k \in Up : \A m \in Up : k <= m
  <2>1. Up \subseteq Nat /\ Up # {}
    BY <1>1
  <2> HIDE DEF Up
  <2> QED
    BY <2>1, Least
<1>3. k \in x
  <2> SUFFICES ASSUME k \notin x PROVE FALSE
    OBVIOUS
  <2>1. k \in Nat /\ \A y \in x : y \in 1..n /\ y <= k - 1
    BY <1>2
  <2>2. k - 1 \in Nat
    <3>1. PICK y \in x : TRUE
      OBVIOUS
    <3>2. y \in 1..n /\ y <= k - 1
      BY <2>1, <3>1
    <3> QED
      BY <2>1, <3>2
  <2>3. k - 1 \in Up
    BY <2>1, <2>2
  <2> QED
    BY <1>2, <2>1, <2>3
<1>4. x \in SUBSET Int /\ \A y \in x : y <= k
  BY <1>2
<1> QED
  BY <1>3, <1>4, MaxIs

(* g folds st over the sets of numbers up to n, from the least to the greatest. *)
IsFold(g, base, n, st) ==
  \A x \in SUBSET (1..n) : g[x] = IF x = {} THEN base ELSE st[<<g[x \ {Max(x)}], Max(x)>>]

(* And such a one: what a fold of the community modules is.                    *)
LEMMA Folding ==
  ASSUME NEW V, NEW base \in V, NEW n \in Nat, NEW st \in [V \X (1..n) -> V]
  PROVE  \E g \in [SUBSET (1..n) -> V] : IsFold(g, base, n, st)
<1> DEFINE Runs(m, g) == \A x \in SUBSET (1..m) :
                          g[x] = IF x = {} THEN base ELSE st[<<g[x \ {Max(x)}], Max(x)>>]
           P(m) == m <= n => \E g \in [SUBSET (1..m) -> V] : Runs(m, g)
           T == {m \in Nat : P(m)}
<1> HIDE DEF Runs
<1>1. P(0)
  <2> DEFINE g == [x \in SUBSET (1..0) |-> base]
  <2>1. g \in [SUBSET (1..0) -> V] /\ \A x \in SUBSET (1..0) : x = {} /\ g[x] = base
    OBVIOUS
  <2> HIDE DEF g
  <2>2. Runs(0, g)
    BY <2>1 DEF Runs
  <2> QED
    BY <2>1, <2>2
<1>2. ASSUME NEW m \in Nat, P(m) PROVE P(m + 1)
  <2> SUFFICES ASSUME m + 1 <= n PROVE \E g \in [SUBSET (1..(m + 1)) -> V] : Runs(m + 1, g)
    OBVIOUS
  <2>0. m <= n
    OBVIOUS
  <2>1. PICK g \in [SUBSET (1..m) -> V] : Runs(m, g)
    BY <1>2, <2>0, Zenon
  <2> DEFINE h == [x \in SUBSET (1..(m + 1)) |->
                     IF m + 1 \in x THEN st[<<g[x \ {m + 1}], m + 1>>] ELSE g[x]]
  <2>2. \A x \in SUBSET (1..(m + 1)) : x \ {m + 1} \in SUBSET (1..m)
    OBVIOUS
  <2>3. ASSUME NEW x \in SUBSET (1..(m + 1))
        PROVE  /\ m + 1 \in x => h[x] = st[<<g[x \ {m + 1}], m + 1>>] /\ h[x] \in V
               /\ m + 1 \notin x => x \in SUBSET (1..m) /\ h[x] = g[x] /\ h[x] \in V
    <3>1. CASE m + 1 \in x
      <4>1. g[x \ {m + 1}] \in V
        BY <2>2
      <4>2. <<g[x \ {m + 1}], m + 1>> \in V \X (1..n)
        BY <4>1
      <4>3. st[<<g[x \ {m + 1}], m + 1>>] \in V
        BY <4>2
      <4> QED
        BY <3>1, <4>3
    <3>2. CASE m + 1 \notin x
      <4>1. x \in SUBSET (1..m)
        BY <3>2
      <4> QED
        BY <3>2, <4>1
    <3> QED
      BY <3>1, <3>2
  <2>4. h \in [SUBSET (1..(m + 1)) -> V]
    <3>1. DOMAIN h = SUBSET (1..(m + 1)) /\ h = [x \in SUBSET (1..(m + 1)) |-> h[x]]
      OBVIOUS
    <3>2. \A x \in SUBSET (1..(m + 1)) : h[x] \in V
      BY <2>3
    <3> HIDE DEF h
    <3> QED
      BY <3>1, <3>2
  <2> HIDE DEF h
  <2>5. ASSUME NEW x \in SUBSET (1..(m + 1))
        PROVE  h[x] = IF x = {} THEN base ELSE st[<<h[x \ {Max(x)}], Max(x)>>]
    <3>1. CASE m + 1 \in x
      <4>1. Max(x) = m + 1
        <5>1. x \in SUBSET Int /\ \A y \in x : y <= m + 1
          OBVIOUS
        <5> QED
          BY <3>1, <5>1, MaxIs
      <4>2. h[x \ {m + 1}] = g[x \ {m + 1}]
        BY <2>2, <2>3
      <4> QED
        BY <2>3, <3>1, <4>1, <4>2
    <3>2. CASE m + 1 \notin x
      <4>1. x \in SUBSET (1..m) /\ x \ {Max(x)} \in SUBSET (1..m)
        BY <3>2, <2>3
      <4>2. h[x] = g[x] /\ h[x \ {Max(x)}] = g[x \ {Max(x)}]
        <5>1. x \ {Max(x)} \in SUBSET (1..(m + 1)) /\ m + 1 \notin x \ {Max(x)}
          BY <3>2
        <5> QED
          BY <2>3, <3>2, <5>1
      <4> QED
        BY <2>1, <4>1, <4>2 DEF Runs
    <3> QED
      BY <3>1, <3>2
  <2>6. Runs(m + 1, h)
    BY <2>5 DEF Runs
  <2> QED
    BY <2>4, <2>6
<1> HIDE DEF P
<1>3. 0 \in T /\ \A m \in Nat : m \in T => m + 1 \in T
  BY <1>1, <1>2
<1> HIDE DEF T
<1>4. \A m \in Nat : m \in T
  BY <1>3, Induction
<1>5. P(n)
  BY <1>4 DEF T
<1>6. n <= n
  OBVIOUS
<1>7. \E g \in [SUBSET (1..n) -> V] : Runs(n, g)
  BY <1>5, <1>6, Zenon DEF P
<1> QED
  BY <1>7, Zenon DEF Runs, IsFold

(***************************************************************************)
(* Texts, their parts and their lines                                      *)
(***************************************************************************)

(* Induction over sequences, from the left.                                    *)
LEMMA SeqInduction ==
  ASSUME NEW S, NEW T, <<>> \in T,
         \A s \in Seq(S) : \A c \in S : s \in T => Append(s, c) \in T
  PROVE  Seq(S) \subseteq T
<1> DEFINE L == {n \in Nat : \A s \in Seq(S) : Len(s) = n => s \in T}
<1>1. 0 \in L
  OBVIOUS
<1>2. ASSUME NEW n \in Nat, n \in L PROVE n + 1 \in L
  <2> SUFFICES ASSUME NEW s \in Seq(S), Len(s) = n + 1 PROVE s \in T
    OBVIOUS
  <2> DEFINE t == SubSeq(s, 1, n)
  <2>1. t \in Seq(S) /\ Len(t) = n /\ s[n + 1] \in S
    OBVIOUS
  <2>2. s = Append(t, s[n + 1])
    OBVIOUS
  <2> QED
    BY <1>2, <2>1, <2>2
<1> HIDE DEF L
<1>3. \A n \in Nat : n \in L
  BY <1>1, <1>2, Induction
<1> QED
  BY <1>3 DEF L

(* The parts of a text: there is always one at least. *)
Parts == Seq(Text) \ {<<>>}

(* What Split does with the next character.                                   *)
Put(parts, c, sep) == IF c = sep THEN Append(parts, <<>>)
                      ELSE Front(parts) \o <<Append(Last(parts), c)>>

(* There are parts before and after it. *)
LEMMA PutType ==
  ASSUME NEW parts \in Parts, NEW c \in Chars, NEW sep
  PROVE  Put(parts, c, sep) \in Parts
<1>1. Last(parts) \in Text /\ Front(parts) \in Seq(Text)
  BY DEF Parts, Last, Front
<1>2. Append(Last(parts), c) \in Text
  BY <1>1 DEF Text
<1>3. /\ Append(parts, <<>>) \in Seq(Text) /\ Append(parts, <<>>) # <<>>
      /\ Front(parts) \o <<Append(Last(parts), c)>> \in Seq(Text)
      /\ Front(parts) \o <<Append(Last(parts), c)>> # <<>>
  <2>1. <<>> \in Text
    BY DEF Text
  <2> QED
    BY <1>1, <1>2, <2>1 DEF Parts
<1> QED
  BY <1>3 DEF Parts, Put

(* f holds the parts of the first i characters of s, for each i up to n.       *)
SplitsTo(f, s, sep, n) ==
  /\ f[0] = << <<>> >> /\ f[n] = Split(s, sep)
  /\ \A i \in 1..n : f[i] = Put(f[i - 1], s[i], sep)

(* Split goes through the text from the left. *)
LEMMA SplitRun ==
  ASSUME NEW s \in Text, NEW sep
  PROVE  \E f \in [0..Len(s) -> Parts] : SplitsTo(f, s, sep, Len(s))
<1> DEFINE n == Len(s)
           Eq(it) == it = [x \in SUBSET (DOMAIN s) |->
                             IF x = {} THEN << <<>> >> ELSE Put(it[x \ {Max(x)}], s[Max(x)], sep)]
           st == [y \in Parts \X (1..n) |-> Put(y[1], s[y[2]], sep)]
<1>1. Split(s, sep) = (CHOOSE it : Eq(it))[DOMAIN s]
  BY Zenon DEF Split, FoldLeft, MapThenFoldSet, Put
<1>2. n \in Nat /\ DOMAIN s = 1..n /\ \A i \in 1..n : s[i] \in Chars
  BY DEF Text
<1>3. << <<>> >> \in Parts
  BY DEF Parts, Text
<1>4. st \in [Parts \X (1..n) -> Parts]
  BY <1>2, PutType
<1>5. \A p \in Parts : \A i \in 1..n : st[<<p, i>>] = Put(p, s[i], sep)
  OBVIOUS
<1> HIDE DEF st, n
<1>6. PICK g \in [SUBSET (1..n) -> Parts] : IsFold(g, << <<>> >>, n, st)
  BY <1>2, <1>3, <1>4, Folding
<1>7. ASSUME NEW x \in SUBSET (1..n), x # {} PROVE Max(x) \in x /\ x \ {Max(x)} \in SUBSET (1..n)
  BY <1>2, <1>7, MaxIn
<1>8. ASSUME NEW x \in SUBSET (1..n), x # {}
      PROVE  g[x] = Put(g[x \ {Max(x)}], s[Max(x)], sep)
  <2>1. g[x] = st[<<g[x \ {Max(x)}], Max(x)>>]
    BY <1>6, <1>8 DEF IsFold
  <2>2. g[x \ {Max(x)}] \in Parts /\ Max(x) \in 1..n
    BY <1>7, <1>8
  <2> QED
    BY <1>5, <2>1, <2>2
<1>9. g = [x \in SUBSET (1..n) |->
             IF x = {} THEN << <<>> >> ELSE Put(g[x \ {Max(x)}], s[Max(x)], sep)]
  BY <1>6, <1>8 DEF IsFold
<1>10. Eq(g)
  BY <1>2, <1>9
<1> DEFINE it == CHOOSE it : Eq(it)
<1>11. Eq(it)
  BY <1>10, Zenon
<1>12. /\ it[{}] = << <<>> >>
       /\ \A x \in SUBSET (1..n) : x # {} => it[x] = Put(it[x \ {Max(x)}], s[Max(x)], sep)
  BY <1>2, <1>11
<1>13. Split(s, sep) = it[1..n]
  BY <1>1, <1>2
<1> HIDE DEF it, Eq
<1> DEFINE f == [i \in 0..n |-> it[1..i]]
<1>14. f[0] = << <<>> >>
  <2>1. 1..0 = {}
    OBVIOUS
  <2> QED
    BY <1>2, <1>12, <2>1
<1>15. ASSUME NEW i \in 1..n PROVE f[i] = Put(f[i - 1], s[i], sep)
  <2>1. 1..i \in SUBSET (1..n) /\ 1..i # {} /\ (1..i) \ {i} = 1..(i - 1)
    <3>1. n \in Nat
      BY <1>2
    <3>2. 1..i \in SUBSET (1..n) /\ i \in 1..i
      BY <3>1
    <3>3. (1..i) \ {i} = 1..(i - 1)
      BY <3>1
    <3> QED
      BY <3>2, <3>3
  <2>2. Max(1..i) = i
    <3>1. 1..i \in SUBSET Int /\ i \in 1..i /\ \A y \in 1..i : y <= i
      BY <1>2
    <3> QED
      BY <3>1, MaxIs
  <2> QED
    BY <1>2, <1>12, <2>1, <2>2
<1>16. f[n] = Split(s, sep)
  BY <1>2, <1>13
<1>17. DOMAIN f = 0..n /\ f = [i \in 0..n |-> f[i]]
  OBVIOUS
<1> HIDE DEF f
<1> DEFINE T == {i \in Nat : i <= n => f[i] \in Parts}
<1>18. 0 \in T
  BY <1>3, <1>14
<1>19. ASSUME NEW i \in Nat, i \in T PROVE i + 1 \in T
  <2> SUFFICES ASSUME i + 1 <= n PROVE f[i + 1] \in Parts
    OBVIOUS
  <2>1. f[i] \in Parts /\ i + 1 \in 1..n /\ (i + 1) - 1 = i
    BY <1>2, <1>19
  <2> QED
    BY <1>2, <1>15, <2>1, PutType
<1> HIDE DEF T
<1>20. \A i \in Nat : i \in T
  BY <1>18, <1>19, Induction
<1>21. \A i \in 0..n : f[i] \in Parts
  BY <1>2, <1>20 DEF T
<1>22. f \in [0..n -> Parts]
  BY <1>17, <1>21
<1> QED
  BY <1>14, <1>15, <1>16, <1>22 DEF n, SplitsTo

(* The empty text has one part. *)
LEMMA SplitOne ==
  ASSUME NEW sep
  PROVE  Split(<<>>, sep) = << <<>> >>
<1>1. <<>> \in Text /\ Len(<<>>) = 0
  BY DEF Text
<1> QED
  BY <1>1, SplitRun DEF SplitsTo

(* One more character is put to the parts of the text before it. *)
LEMMA SplitAppend ==
  ASSUME NEW s \in Text, NEW c \in Chars, NEW sep
  PROVE  /\ Split(s, sep) \in Parts
         /\ Split(Append(s, c), sep) = Put(Split(s, sep), c, sep)
<1> DEFINE t == Append(s, c)
           n == Len(s)
<1>1. /\ t \in Text /\ Len(t) = n + 1 /\ t[n + 1] = c /\ n \in Nat
      /\ \A i \in 1..n : t[i] = s[i]
  BY DEF Text
<1> HIDE DEF t
<1>2. PICK f \in [0..n -> Parts] : SplitsTo(f, s, sep, n)
  BY SplitRun
<1> HIDE DEF n
<1>3. PICK g \in [0..(n + 1) -> Parts] : SplitsTo(g, t, sep, n + 1)
  BY <1>1, SplitRun
<1> USE DEF SplitsTo
<1> DEFINE T == {i \in Nat : i <= n => f[i] = g[i]}
<1>4. 0 \in T
  BY <1>2, <1>3
<1>5. ASSUME NEW i \in Nat, i \in T PROVE i + 1 \in T
  <2> SUFFICES ASSUME i + 1 <= n PROVE f[i + 1] = g[i + 1]
    OBVIOUS
  <2>1. f[i] = g[i] /\ i + 1 \in 1..n /\ i + 1 \in 1..(n + 1) /\ (i + 1) - 1 = i
    BY <1>1, <1>5
  <2>2. f[i + 1] = Put(f[i], s[i + 1], sep)
    BY <1>2, <2>1
  <2>3. g[i + 1] = Put(g[i], t[i + 1], sep)
    BY <1>3, <2>1
  <2> QED
    BY <1>1, <2>1, <2>2, <2>3
<1> HIDE DEF T
<1>6. \A i \in Nat : i \in T
  BY <1>4, <1>5, Induction
<1>7. f[n] = g[n]
  BY <1>1, <1>6 DEF T
<1>8. g[n + 1] = Put(g[n], t[n + 1], sep)
  <2>1. n + 1 \in 1..(n + 1) /\ (n + 1) - 1 = n
    BY <1>1
  <2> QED
    BY <1>3, <2>1
<1>9. f[n] \in Parts
  BY <1>1, <1>2
<1> QED
  BY <1>1, <1>2, <1>3, <1>7, <1>8, <1>9 DEF t

(* f holds the first i of the sequences ss made one, for each i up to n.        *)
FlattensTo(f, ss, n) ==
  /\ f[0] = <<>> /\ f[n] = FlattenSeq(ss)
  /\ \A i \in 1..n : f[i] = f[i - 1] \o ss[i]

(* FlattenSeq goes through them from the left. *)
LEMMA FlattenRun ==
  ASSUME NEW S, NEW ss \in Seq(Seq(S))
  PROVE  \E f \in [0..Len(ss) -> Seq(S)] : FlattensTo(f, ss, Len(ss))
<1> DEFINE n == Len(ss)
           Eq(g) == g = [i \in 1..n |-> IF i = 1 THEN ss[i] ELSE g[i - 1] \o ss[i]]
           st == [y \in Seq(S) \X (1..n) |-> y[1] \o ss[y[2]]]
<1>1. n \in Nat /\ \A i \in 1..n : ss[i] \in Seq(S)
  OBVIOUS
<1>2. FlattenSeq(ss) = IF n = 0 THEN ss ELSE (CHOOSE g : Eq(g))[n]
  BY Zenon DEF FlattenSeq
<1> HIDE DEF n
<1>3. <<>> \in Seq(S) /\ st \in [Seq(S) \X (1..n) -> Seq(S)]
  BY <1>1
<1>4. \A p \in Seq(S) : \A i \in 1..n : st[<<p, i>>] = p \o ss[i]
  OBVIOUS
<1> HIDE DEF st
<1>5. PICK f \in [0..n -> Seq(S)] :
         IsIteration(f, <<>>, n, st)
  BY <1>1, <1>3, Iteration
<1> USE DEF IsIteration
<1>6. \A i \in 1..n : f[i] = f[i - 1] \o ss[i]
  <2> SUFFICES ASSUME NEW i \in 1..n PROVE f[i] = f[i - 1] \o ss[i]
    OBVIOUS
  <2>1. f[i] = st[<<f[i - 1], i>>]
    BY <1>5
  <2>2. f[i - 1] \in Seq(S)
    BY <1>1
  <2> QED
    BY <1>4, <2>1, <2>2
<1>7. n # 0 => f[1] = ss[1]
  <2> SUFFICES ASSUME n # 0 PROVE f[1] = ss[1]
    OBVIOUS
  <2>1. 1 \in 1..n /\ 1 - 1 = 0 /\ ss[1] \in Seq(S)
    BY <1>1
  <2>2. f[1] = <<>> \o ss[1]
    BY <1>5, <1>6, <2>1
  <2>3. <<>> \o ss[1] = ss[1]
    BY <2>1
  <2> QED
    BY <2>2, <2>3
<1>8. Eq([i \in 1..n |-> f[i]])
  <2> DEFINE h == [i \in 1..n |-> f[i]]
  <2>1. \A i \in 1..n : h[i] = IF i = 1 THEN ss[i] ELSE h[i - 1] \o ss[i]
    <3>0. \A i \in 1..n : h[i] = f[i]
      OBVIOUS
    <3> HIDE DEF h
    <3> SUFFICES ASSUME NEW i \in 1..n PROVE h[i] = IF i = 1 THEN ss[i] ELSE h[i - 1] \o ss[i]
      OBVIOUS
    <3>1. CASE i = 1
      BY <1>1, <1>7, <3>0, <3>1
    <3>2. CASE i # 1
      <4>1. i - 1 \in 1..n
        BY <1>1, <3>2
      <4> QED
        BY <1>6, <3>0, <3>2, <4>1
    <3> QED
      BY <3>1, <3>2
  <2>2. h = [i \in 1..n |-> h[i]]
    OBVIOUS
  <2> HIDE DEF h
  <2>3. Eq(h)
    BY <2>1, <2>2
  <2> QED
    BY <2>3 DEF h
<1> DEFINE g == CHOOSE g : Eq(g)
<1>9. Eq(g)
  BY <1>8, Zenon
<1>10. \A i \in 1..n : g[i] = IF i = 1 THEN ss[i] ELSE g[i - 1] \o ss[i]
  BY <1>9
<1> HIDE DEF g, Eq
<1> DEFINE T == {i \in Nat : i \in 1..n => g[i] = f[i]}
<1>11. 0 \in T
  OBVIOUS
<1>12. ASSUME NEW i \in Nat, i \in T PROVE i + 1 \in T
  <2> SUFFICES ASSUME i + 1 \in 1..n PROVE g[i + 1] = f[i + 1]
    OBVIOUS
  <2>1. CASE i = 0
    BY <1>7, <1>10, <2>1
  <2>2. CASE i # 0
    <3>1. i \in 1..n /\ (i + 1) - 1 = i /\ i + 1 # 1
      BY <1>1, <2>2
    <3>2. f[i + 1] = f[i] \o ss[i + 1]
      BY <1>6, <3>1
    <3>3. g[i + 1] = g[i] \o ss[i + 1]
      BY <1>10, <3>1
    <3>4. g[i] = f[i]
      BY <1>12, <3>1
    <3> QED
      BY <3>2, <3>3, <3>4
  <2> QED
    BY <2>1, <2>2
<1> HIDE DEF T
<1>13. \A i \in Nat : i \in T
  BY <1>11, <1>12, Induction
<1>14. f[n] = FlattenSeq(ss)
  <2>1. CASE n = 0
    <3>1. ss = <<>>
      BY <2>1 DEF n
    <3> QED
      BY <1>2, <1>5, <2>1, <3>1
  <2>2. CASE n # 0
    <3>1. n \in 1..n
      BY <1>1, <2>2
    <3>2. g[n] = f[n]
      BY <1>1, <1>13, <3>1 DEF T
    <3> QED
      BY <1>2, <2>2, <3>2 DEF g
  <2> QED
    BY <2>1, <2>2
<1> QED
  BY <1>5, <1>6, <1>14 DEF FlattensTo, n

(* One more sequence is put behind the others. *)
LEMMA FlattenAppend ==
  ASSUME NEW S, NEW ss \in Seq(Seq(S)), NEW x \in Seq(S)
  PROVE  /\ FlattenSeq(ss) \in Seq(S)
         /\ FlattenSeq(Append(ss, x)) = FlattenSeq(ss) \o x
<1> DEFINE t == Append(ss, x)
           n == Len(ss)
<1>1. /\ t \in Seq(Seq(S)) /\ Len(t) = n + 1 /\ t[n + 1] = x /\ n \in Nat
      /\ \A i \in 1..n : t[i] = ss[i]
  OBVIOUS
<1> HIDE DEF t
<1>2. PICK f \in [0..n -> Seq(S)] : FlattensTo(f, ss, n)
  BY FlattenRun
<1> HIDE DEF n
<1>3. PICK g \in [0..(n + 1) -> Seq(S)] : FlattensTo(g, t, n + 1)
  BY <1>1, FlattenRun
<1> USE DEF FlattensTo
<1> DEFINE T == {i \in Nat : i <= n => f[i] = g[i]}
<1>4. 0 \in T
  BY <1>2, <1>3
<1>5. ASSUME NEW i \in Nat, i \in T PROVE i + 1 \in T
  <2> SUFFICES ASSUME i + 1 <= n PROVE f[i + 1] = g[i + 1]
    OBVIOUS
  <2>1. f[i] = g[i] /\ i + 1 \in 1..n /\ i + 1 \in 1..(n + 1) /\ (i + 1) - 1 = i
    BY <1>1, <1>5
  <2>2. f[i + 1] = f[i] \o ss[i + 1]
    BY <1>2, <2>1
  <2>3. g[i + 1] = g[i] \o t[i + 1]
    BY <1>3, <2>1
  <2> QED
    BY <1>1, <2>1, <2>2, <2>3
<1> HIDE DEF T
<1>6. \A i \in Nat : i \in T
  BY <1>4, <1>5, Induction
<1>7. f[n] = g[n]
  BY <1>1, <1>6 DEF T
<1>8. g[n + 1] = g[n] \o t[n + 1]
  <2>0. n \in Nat
    BY <1>1
  <2>1. n + 1 \in 1..(n + 1) /\ (n + 1) - 1 = n
    BY <2>0
  <2> QED
    BY <1>3, <2>1
<1>9. f[n] \in Seq(S)
  BY <1>1, <1>2
<1> QED
  BY <1>1, <1>2, <1>3, <1>7, <1>8, <1>9 DEF t

(* Of none, it makes the empty one. *)
LEMMA FlattenNone == FlattenSeq(<<>>) = <<>>
  BY DEF FlattenSeq

(* No lines are joined to the empty text. *)
LEMMA JoinNone == Join(<<>>) = <<>>
<1>1. [i \in DOMAIN (<<>>) |-> IF i = 1 THEN (<<>>)[i] ELSE <<NL>> \o (<<>>)[i]] = <<>>
  OBVIOUS
<1> QED
  BY <1>1, FlattenNone DEF Join

(* The lines that Join makes one: each but the first behind a line end.         *)
Marked(ls) == [i \in DOMAIN ls |-> IF i = 1 THEN ls[i] ELSE <<NL>> \o ls[i]]

(* They are texts, as many as the lines. *)
LEMMA MarkedType ==
  ASSUME NEW ls \in Seq(Text)
  PROVE  Marked(ls) \in Seq(Text) /\ Len(Marked(ls)) = Len(ls)
<1>1. ASSUME NEW i \in 1..Len(ls) PROVE Marked(ls)[i] \in Text
  <2>1. ls[i] \in Text /\ i \in DOMAIN ls
    OBVIOUS
  <2>2. <<NL>> \o ls[i] \in Text
    BY <2>1, TextsAssumption DEF Text
  <2> QED
    BY <2>1, <2>2 DEF Marked
<1>2. DOMAIN Marked(ls) = 1..Len(ls) /\ Marked(ls) = [i \in 1..Len(ls) |-> Marked(ls)[i]]
  BY DEF Marked
<1>3. Len(ls) \in Nat
  OBVIOUS
<1> QED
  BY <1>1, <1>2, <1>3

(* One more line is joined behind a line end. *)
LEMMA JoinAppend ==
  ASSUME NEW ls \in Seq(Text), NEW l \in Text
  PROVE  /\ Join(ls) \in Text
         /\ Join(Append(ls, l)) = IF ls = <<>> THEN l ELSE Join(ls) \o (<<NL>> \o l)
<1> DEFINE x == IF ls = <<>> THEN l ELSE <<NL>> \o l
           n == Len(ls)
<1>1. <<NL>> \o l \in Text
  BY TextsAssumption DEF Text
<1>2. x \in Text
  BY <1>1
<1>3. Append(ls, l) \in Seq(Text) /\ Len(Append(ls, l)) = n + 1 /\ n \in Nat
  OBVIOUS
<1>4. ASSUME NEW i \in 1..n PROVE Marked(Append(ls, l))[i] = Marked(ls)[i]
  <2>1. Append(ls, l)[i] = ls[i] /\ i \in DOMAIN Append(ls, l) /\ i \in DOMAIN ls
    OBVIOUS
  <2> QED
    BY <2>1 DEF Marked
<1>5. Marked(Append(ls, l))[n + 1] = x
  <2>1. Append(ls, l)[n + 1] = l /\ n + 1 \in DOMAIN Append(ls, l) /\ (n + 1 = 1 <=> ls = <<>>)
    OBVIOUS
  <2> QED
    BY <2>1 DEF Marked
<1>6. Marked(Append(ls, l)) = Append(Marked(ls), x)
  <2>1. /\ Marked(Append(ls, l)) \in Seq(Text) /\ Len(Marked(Append(ls, l))) = n + 1
        /\ Marked(ls) \in Seq(Text) /\ Len(Marked(ls)) = n
    BY <1>3, MarkedType
  <2> HIDE DEF x, n
  <2> QED
    BY <1>2, <1>3, <1>4, <1>5, <2>1
<1>7. Join(ls) = FlattenSeq(Marked(ls)) /\ Join(Append(ls, l)) = FlattenSeq(Marked(Append(ls, l)))
  BY DEF Join, Marked
<1>8. Join(ls) \in Text /\ Join(Append(ls, l)) = Join(ls) \o x
  BY <1>2, <1>6, <1>7, MarkedType, FlattenAppend DEF Text
<1>9. CASE ls = <<>>
  <2>1. Join(ls) = <<>> /\ <<>> \o l = l
    BY <1>9, JoinNone DEF Text
  <2> QED
    BY <1>8, <1>9, <2>1
<1>10. CASE ls # <<>>
  BY <1>8, <1>10
<1> QED
  BY <1>9, <1>10

(* To append is to concatenate. *)
LEMMA ConcatAppend ==
  ASSUME NEW S, NEW s \in Seq(S), NEW t \in Seq(S), NEW x \in S
  PROVE  /\ s \o Append(t, x) = Append(s \o t, x)
         /\ (s \o t) \o <<x>> = s \o Append(t, x)
         /\ s \o t \in Seq(S) /\ Append(t, x) \in Seq(S)
<1>1. s \o t \in Seq(S) /\ Append(t, x) \in Seq(S) /\ s \o Append(t, x) = Append(s \o t, x)
  OBVIOUS
<1> DEFINE u == s \o t
<1> HIDE DEF u
<1>2. u \in Seq(S)
  BY <1>1 DEF u
<1>3. u \o <<x>> = Append(u, x)
  BY <1>2
<1> QED
  BY <1>1, <1>3 DEF u

(* A text without separators. *)
Unbroken(sep) == {l \in Text : \A i \in 1..Len(l) : l[i] # sep}

(* A character more: it must not be the separator. *)
LEMMA UnbrokenAppend ==
  ASSUME NEW sep, NEW t \in Text, NEW c \in Chars
  PROVE  /\ Append(t, c) \in Unbroken(sep) <=> t \in Unbroken(sep) /\ c # sep
         /\ Append(t, c) \in Text
<1>1. /\ Append(t, c) \in Text /\ Len(Append(t, c)) = Len(t) + 1 /\ Len(t) \in Nat
      /\ Append(t, c)[Len(t) + 1] = c /\ \A i \in 1..Len(t) : Append(t, c)[i] = t[i]
  BY DEF Text
<1> DEFINE u == Append(t, c)
           n == Len(t)
<1> HIDE DEF u, n
<1>2. (\A i \in 1..(n + 1) : u[i] # sep) <=> (\A i \in 1..n : t[i] # sep) /\ c # sep
  <2>1. n + 1 \in 1..(n + 1) /\ u[n + 1] = c /\ \A i \in 1..n : i \in 1..(n + 1) /\ u[i] = t[i]
    BY <1>1 DEF u, n
  <2>2. \A i \in 1..(n + 1) : i = n + 1 \/ i \in 1..n
    BY <1>1 DEF u, n
  <2> QED
    BY <2>1, <2>2
<1> QED
  BY <1>1, <1>2 DEF u, n, Unbroken

(* Parts before the last one stay as they are. *)
LEMMA PutConcat ==
  ASSUME NEW A \in Seq(Text), NEW P \in Parts, NEW c \in Chars, NEW sep
  PROVE  Put(A \o P, c, sep) = A \o Put(P, c, sep)
<1>1. <<>> \in Text /\ P \in Seq(Text) /\ P # <<>>
  BY DEF Parts, Text
<1>2. Last(A \o P) = Last(P) /\ Last(P) \in Text
  BY <1>1 DEF Last
<1>3. Front(A \o P) = A \o Front(P) /\ Front(P) \in Seq(Text)
  BY <1>1 DEF Front
<1>4. Append(Last(P), c) \in Text
  BY <1>2 DEF Text
<1>5. CASE c = sep
  <2>1. A \o Append(P, <<>>) = Append(A \o P, <<>>)
    BY <1>1, ConcatAppend
  <2> QED
    BY <1>5, <2>1 DEF Put
<1>6. CASE c # sep
  <2> DEFINE w == <<Append(Last(P), c)>>
  <2>1. w \in Seq(Text)
    BY <1>4
  <2>2. Put(A \o P, c, sep) = (A \o Front(P)) \o w
    BY <1>2, <1>3, <1>6 DEF Put
  <2>3. Put(P, c, sep) = Front(P) \o w
    BY <1>6 DEF Put
  <2> HIDE DEF w
  <2> QED
    BY <1>3, <2>1, <2>2, <2>3
<1> QED
  BY <1>5, <1>6

(* No part of a text has a separator. *)
LEMMA SplitParts ==
  ASSUME NEW s \in Text, NEW sep
  PROVE  Split(s, sep) \in Seq(Unbroken(sep)) /\ Split(s, sep) # <<>>
<1> DEFINE T == {t \in Text : Split(t, sep) \in Seq(Unbroken(sep)) /\ Split(t, sep) # <<>>}
<1>1. <<>> \in Unbroken(sep) /\ <<>> \in Text
  BY DEF Unbroken, Text
<1>2. <<>> \in T
  <2>1. << <<>> >> \in Seq(Unbroken(sep)) /\ << <<>> >> # <<>>
    BY <1>1
  <2> QED
    BY <1>1, <2>1, SplitOne
<1>3. ASSUME NEW t \in Text, NEW c \in Chars, t \in T PROVE Append(t, c) \in T
  <2> DEFINE p == Split(t, sep)
  <2>1. Append(t, c) \in Text /\ Split(Append(t, c), sep) = Put(p, c, sep)
    BY SplitAppend DEF Text
  <2>2. p \in Seq(Unbroken(sep)) /\ p # <<>>
    BY <1>3
  <2> HIDE DEF p
  <2>3. Last(p) \in Unbroken(sep) /\ Front(p) \in Seq(Unbroken(sep))
    BY <2>2 DEF Last, Front
  <2>4. CASE c = sep
    <3>1. Append(p, <<>>) \in Seq(Unbroken(sep)) /\ Append(p, <<>>) # <<>>
      BY <1>1, <2>2
    <3> QED
      BY <2>1, <2>4, <3>1 DEF Put
  <2>5. CASE c # sep
    <3>1. Append(Last(p), c) \in Unbroken(sep)
      <4>1. Last(p) \in Text
        BY <2>3 DEF Unbroken
      <4> QED
        BY <2>3, <2>5, <4>1, UnbrokenAppend
    <3>2. Front(p) \o <<Append(Last(p), c)>> \in Seq(Unbroken(sep))
      BY <2>3, <3>1
    <3>3. Front(p) \o <<Append(Last(p), c)>> # <<>>
      BY <2>3, <3>1
    <3> QED
      BY <2>1, <2>5, <3>2, <3>3 DEF Put
  <2> QED
    BY <2>4, <2>5
<1> HIDE DEF T
<1>4. Seq(Chars) \subseteq T
  BY <1>2, <1>3, SeqInduction DEF Text
<1> QED
  BY <1>4 DEF T, Text

(* A text without separators is its own only part. *)
LEMMA SplitWhole ==
  ASSUME NEW sep, NEW l \in Unbroken(sep)
  PROVE  Split(l, sep) = <<l>>
<1> DEFINE T == {t \in Text : t \in Unbroken(sep) => Split(t, sep) = <<t>>}
<1>1. <<>> \in T
  BY SplitOne DEF Text
<1>2. ASSUME NEW t \in Text, NEW c \in Chars, t \in T PROVE Append(t, c) \in T
  <2>1. Append(t, c) \in Text /\ Split(Append(t, c), sep) = Put(Split(t, sep), c, sep)
    BY SplitAppend DEF Text
  <2>2. SUFFICES ASSUME Append(t, c) \in Unbroken(sep)
                 PROVE  Put(Split(t, sep), c, sep) = <<Append(t, c)>>
    BY <2>1
  <2>5. t \in Unbroken(sep) /\ c # sep
    BY <2>2, UnbrokenAppend
  <2>6. Split(t, sep) = <<t>>
    BY <1>2, <2>5
  <2>7. Front(<<t>>) = <<>> /\ Last(<<t>>) = t
    BY DEF Front, Last
  <2>8. <<>> \o <<Append(t, c)>> = <<Append(t, c)>>
    OBVIOUS
  <2> QED
    BY <2>5, <2>6, <2>7, <2>8 DEF Put
<1> HIDE DEF T
<1>3. Seq(Chars) \subseteq T
  BY <1>1, <1>2, SeqInduction DEF Text
<1> QED
  BY <1>3 DEF T, Text, Unbroken

(* Texts with a separator between them are split apart there. *)
LEMMA SplitConcat ==
  ASSUME NEW sep \in Chars, NEW s \in Text, NEW t \in Text
  PROVE  Split(s \o (<<sep>> \o t), sep) = Split(s, sep) \o Split(t, sep)
<1> DEFINE T == {u \in Text : Split(s \o (<<sep>> \o u), sep) = Split(s, sep) \o Split(u, sep)}
<1>1. <<>> \in T
  <2>1. s \o (<<sep>> \o <<>>) = Append(s, sep) /\ <<>> \in Text
    BY DEF Text
  <2>2. Split(Append(s, sep), sep) = Append(Split(s, sep), <<>>)
    BY SplitAppend DEF Put
  <2>3. Append(Split(s, sep), <<>>) = Split(s, sep) \o << <<>> >>
    BY SplitAppend, <2>1 DEF Parts
  <2> QED
    BY <2>1, <2>2, <2>3, SplitOne
<1>2. ASSUME NEW u \in Text, NEW c \in Chars, u \in T PROVE Append(u, c) \in T
  <2> DEFINE v == s \o (<<sep>> \o u)
  <2>1. v \in Text /\ Append(u, c) \in Text
    BY DEF Text
  <2>2. s \o (<<sep>> \o Append(u, c)) = Append(v, c)
    BY DEF Text
  <2>3. Split(v, sep) = Split(s, sep) \o Split(u, sep)
    BY <1>2
  <2> HIDE DEF v
  <2>4. Split(Append(v, c), sep) = Put(Split(v, sep), c, sep)
    BY <2>1, SplitAppend
  <2>5. Split(Append(u, c), sep) = Put(Split(u, sep), c, sep)
    BY SplitAppend
  <2>6. Put(Split(s, sep) \o Split(u, sep), c, sep) = Split(s, sep) \o Put(Split(u, sep), c, sep)
    <3>1. Split(s, sep) \in Seq(Text) /\ Split(u, sep) \in Parts
      BY SplitAppend DEF Parts
    <3> QED
      BY <3>1, PutConcat
  <2> QED
    BY <2>1, <2>2, <2>3, <2>4, <2>5, <2>6
<1> HIDE DEF T
<1>3. Seq(Chars) \subseteq T
  BY <1>1, <1>2, SeqInduction DEF Text
<1> QED
  BY <1>3 DEF T, Text

(* Joined with texts that are whole lines, a text is split as it was, and then *)
(* into those lines. *)
LEMMA SplitJoined ==
  ASSUME NEW P \in Parts, NEW Y \in Seq(Unbroken(NL))
  PROVE  /\ P \o Y \in Parts
         /\ Split(Join(P \o Y), NL) = Split(Join(P), NL) \o Y
<1> DEFINE T == {Z \in Seq(Unbroken(NL)) :
                   /\ P \o Z \in Parts
                   /\ Split(Join(P \o Z), NL) = Split(Join(P), NL) \o Z}
<1>1. P \in Seq(Text) /\ P # <<>> /\ NL \in Chars
  BY TextsAssumption DEF Parts
<1>2. Join(P) \in Text
  BY <1>1, JoinAppend DEF Text
<1>3. Split(Join(P), NL) \in Seq(Text)
  BY <1>2, SplitRun, SplitAppend, TextsAssumption DEF Parts
<1>4. <<>> \in T
  <2>1. P \o <<>> = P /\ Split(Join(P), NL) \o <<>> = Split(Join(P), NL)
    BY <1>1, <1>3
  <2>2. <<>> \in Seq(Unbroken(NL))
    OBVIOUS
  <2> QED
    BY <2>1, <2>2
<1>5. ASSUME NEW Z \in Seq(Unbroken(NL)), NEW l \in Unbroken(NL), Z \in T
      PROVE  Append(Z, l) \in T
  <2>1. l \in Text /\ Z \in Seq(Text) /\ Append(Z, l) \in Seq(Unbroken(NL))
    BY DEF Unbroken
  <2>2. P \o Append(Z, l) = Append(P \o Z, l) /\ P \o Z \in Seq(Text) /\ P \o Z # <<>>
    BY <1>1, <2>1
  <2>3. Append(P \o Z, l) \in Parts
    BY <2>1, <2>2 DEF Parts
  <2>4. Join(P \o Z) \in Text /\ Join(Append(P \o Z, l)) = Join(P \o Z) \o (<<NL>> \o l)
    BY <2>1, <2>2, JoinAppend
  <2>5. Split(Join(P \o Z) \o (<<NL>> \o l), NL) = Split(Join(P \o Z), NL) \o Split(l, NL)
    BY <1>1, <2>1, <2>4, SplitConcat
  <2>6. Split(l, NL) = <<l>>
    BY SplitWhole
  <2>7. Split(Join(P \o Z), NL) = Split(Join(P), NL) \o Z
    BY <1>5
  <2>8. (Split(Join(P), NL) \o Z) \o <<l>> = Split(Join(P), NL) \o Append(Z, l)
    <3> DEFINE X == Split(Join(P), NL)
    <3> HIDE DEF X
    <3>1. X \in Seq(Text)
      BY <1>3 DEF X
    <3> DEFINE W == X \o Z
    <3>a. W \in Seq(Text) /\ X \o Append(Z, l) = Append(W, l)
      BY <2>1, <3>1, ConcatAppend
    <3> HIDE DEF W
    <3>b. W \o <<l>> = Append(W, l)
      BY <2>1, <3>a
    <3>2. (X \o Z) \o <<l>> = X \o Append(Z, l)
      BY <3>a, <3>b DEF W
    <3> QED
      BY <3>2 DEF X
  <2> QED
    BY <2>1, <2>2, <2>3, <2>4, <2>5, <2>6, <2>7, <2>8
<1> HIDE DEF T
<1>6. Seq(Unbroken(NL)) \subseteq T
  BY <1>4, <1>5, SeqInduction
<1> QED
  BY <1>6 DEF T

(***************************************************************************)
(* What the edits make of a text                                           *)
(***************************************************************************)

(* The lines of a text have no line end. *)
LEMMA LinesType ==
  ASSUME NEW s \in Text
  PROVE  Lines(s) \in Seq(Unbroken(NL)) /\ Lines(s) \in Seq(Text)
<1>1. Split(s, NL) \in Seq(Unbroken(NL)) /\ Split(s, NL) # <<>>
  BY SplitParts
<1>2. Front(Split(s, NL)) \in Seq(Unbroken(NL))
  BY <1>1 DEF Front
<1>3. Lines(s) \in Seq(Unbroken(NL))
  BY <1>1, <1>2 DEF Lines
<1>4. Unbroken(NL) \subseteq Text
  BY DEF Unbroken
<1> QED
  BY <1>3, <1>4

(* One line joined is itself. *)
LEMMA JoinSingle ==
  ASSUME NEW l \in Text
  PROVE  Join(<<l>>) = l
<1>1. <<>> \in Seq(Text) /\ Append(<<>>, l) = <<l>>
  OBVIOUS
<1> QED
  BY <1>1, JoinAppend

(* Lines that are joined are the lines again. *)
LEMMA SplitOfLines ==
  ASSUME NEW X \in Seq(Unbroken(NL)), X # <<>>
  PROVE  Split(Join(X), NL) = X
<1> DEFINE l == X[1]
           Y == SubSeq(X, 2, Len(X))
<1>1. l \in Unbroken(NL) /\ l \in Text
  BY DEF Unbroken
<1>2. Y \in Seq(Unbroken(NL)) /\ X = <<l>> \o Y
  OBVIOUS
<1> HIDE DEF l, Y
<1>3. <<l>> \in Parts
  BY <1>1 DEF Parts
<1>4. Split(Join(<<l>> \o Y), NL) = Split(Join(<<l>>), NL) \o Y
  BY <1>2, <1>3, SplitJoined
<1>5. Split(Join(<<l>>), NL) = <<l>>
  BY <1>1, JoinSingle, SplitWhole
<1> QED
  BY <1>2, <1>4, <1>5

(* To insert a line is to append it to those before. *)
LEMMA InsertType ==
  ASSUME NEW ls \in Seq(Text), NEW k \in 0..Len(ls), NEW new \in Text
  PROVE  /\ InsertAt(ls, k + 1, new) = Append(SubSeq(ls, 1, k), new) \o SubSeq(ls, k + 1, Len(ls))
         /\ Append(SubSeq(ls, 1, k), new) \in Parts
         /\ InsertAt(ls, k + 1, new) \in Seq(Text)
<1> DEFINE X == SubSeq(ls, 1, k)
           Y == SubSeq(ls, k + 1, Len(ls))
<1>1. X \in Seq(Text) /\ Y \in Seq(Text) /\ (k + 1) - 1 = k
  OBVIOUS
<1>2. InsertAt(ls, k + 1, new) = (X \o <<new>>) \o Y
  BY <1>1 DEF InsertAt
<1> HIDE DEF X, Y
<1>3. X \o <<new>> = Append(X, new) /\ Append(X, new) \in Seq(Text) /\ Append(X, new) # <<>>
  <2>1. X \o <<new>> = Append(X, new) /\ Append(X, new) \in Seq(Text)
    BY <1>1
  <2>2. Len(Append(X, new)) = Len(X) + 1 /\ Len(X) \in Nat
    BY <1>1
  <2> QED
    BY <2>1, <2>2
<1>4. Append(X, new) \o Y \in Seq(Text)
  BY <1>1, <1>3
<1> QED
  BY <1>2, <1>3, <1>4 DEF X, Y, Parts

(* A text inserted between lines: its lines are between theirs. *)
LEMMA SplitInserted ==
  ASSUME NEW X \in Seq(Unbroken(NL)), NEW Y \in Seq(Unbroken(NL)), NEW new \in Text
  PROVE  Split(Join(Append(X, new) \o Y), NL) = (X \o Split(new, NL)) \o Y
<1>1. X \in Seq(Text) /\ Append(X, new) \in Parts /\ NL \in Chars
  BY TextsAssumption DEF Parts, Unbroken
<1>2. Split(Join(Append(X, new) \o Y), NL) = Split(Join(Append(X, new)), NL) \o Y
  BY <1>1, SplitJoined
<1>3. Split(new, NL) \in Seq(Text)
  BY SplitAppend, TextsAssumption DEF Parts
<1>4. CASE X = <<>>
  <2>1. Append(X, new) = <<new>> /\ X \o Split(new, NL) = Split(new, NL)
    BY <1>3, <1>4
  <2> QED
    BY <1>2, <2>1, JoinSingle
<1>5. CASE X # <<>>
  <2>1. Join(X) \in Text /\ Join(Append(X, new)) = Join(X) \o (<<NL>> \o new)
    BY <1>1, <1>5, JoinAppend
  <2>2. Split(Join(X) \o (<<NL>> \o new), NL) = Split(Join(X), NL) \o Split(new, NL)
    BY <1>1, <2>1, SplitConcat
  <2>3. Split(Join(X), NL) = X
    BY <1>5, SplitOfLines
  <2> QED
    BY <1>2, <2>1, <2>2, <2>3
<1> QED
  BY <1>4, <1>5

(* An insertion is what is meant by it. *)
LEMMA InsertMeans ==
  ASSUME NEW in \in Inputs, in.op = "insert", NEW s \in Text
  PROVE  Means(in, s, Edited(in, s)) /\ Edited(in, s) \in Text
<1> DEFINE ls == Lines(s)
           k == IF in.first < Len(ls) THEN in.first ELSE Len(ls)
           X == SubSeq(ls, 1, k)
           Y == SubSeq(ls, k + 1, Len(ls))
<1>1. in.new \in Text /\ in.first \in Nat
  BY TextsAssumption
<1>2. ls \in Seq(Unbroken(NL)) /\ ls \in Seq(Text)
  BY LinesType
<1>3. Edited(in, s) = Join(InsertAt(ls, k + 1, in.new))
  BY DEF Edited, Inserted
<1>4. Means(in, s, Edited(in, s)) <=>
        \E j \in 0..Len(ls) :
          /\ j = in.first \/ (j = Len(ls) /\ in.first > j)
          /\ Split(Edited(in, s), NL) =
               SubSeq(ls, 1, j) \o Split(in.new, NL) \o SubSeq(ls, j + 1, Len(ls))
  BY DEF Means
<1> HIDE DEF ls
<1>5. k \in 0..Len(ls) /\ (k = in.first \/ (k = Len(ls) /\ in.first > k))
  BY <1>1, <1>2
<1> HIDE DEF k
<1>6. X \in Seq(Unbroken(NL)) /\ Y \in Seq(Unbroken(NL))
  BY <1>2, <1>5
<1>7. /\ InsertAt(ls, k + 1, in.new) = Append(X, in.new) \o Y
      /\ InsertAt(ls, k + 1, in.new) \in Seq(Text)
  BY <1>1, <1>2, <1>5, InsertType
<1> HIDE DEF X, Y
<1>8. Split(Edited(in, s), NL) = (X \o Split(in.new, NL)) \o Y
  <2> DEFINE new == in.new
  <2>1. new \in Text /\ Edited(in, s) = Join(Append(X, new) \o Y)
    BY <1>1, <1>3, <1>7
  <2> HIDE DEF new
  <2>2. Split(Join(Append(X, new) \o Y), NL) = (X \o Split(new, NL)) \o Y
    BY <1>6, <2>1, SplitInserted
  <2> QED
    BY <2>1, <2>2 DEF new
<1>9. Edited(in, s) \in Text
  BY <1>1, <1>3, <1>7, JoinAppend
<1> QED
  BY <1>4, <1>5, <1>8, <1>9 DEF X, Y

(* What Deleted keeps of each line. *)
Kept(ls, a, b) == [i \in DOMAIN ls |-> IF i - 1 < a \/ i - 1 >= b THEN <<ls[i]>> ELSE <<>>]

(* The lesser of two numbers. *)
Shorter(x, y) == IF x < y THEN x ELSE y

(* The lines before line a and those from line b on, counted from 0. *)
Around(ls, a, b) == SubSeq(ls, 1, Shorter(a, Len(ls))) \o SubSeq(ls, b + 1, Len(ls))

(* They are sequences of at most one line. *)
LEMMA KeptType ==
  ASSUME NEW ls \in Seq(Text), NEW a \in Nat, NEW b \in Nat
  PROVE  Kept(ls, a, b) \in Seq(Seq(Text)) /\ Len(Kept(ls, a, b)) = Len(ls)
<1>1. \A i \in 1..Len(ls) : Kept(ls, a, b)[i] \in Seq(Text)
  <2> SUFFICES ASSUME NEW i \in 1..Len(ls) PROVE Kept(ls, a, b)[i] \in Seq(Text)
    OBVIOUS
  <2>1. i \in DOMAIN ls /\ ls[i] \in Text
    OBVIOUS
  <2>2. <<ls[i]>> \in Seq(Text) /\ <<>> \in Seq(Text)
    BY <2>1
  <2> QED
    BY <2>1, <2>2 DEF Kept
<1>2. DOMAIN Kept(ls, a, b) = 1..Len(ls) /\ Kept(ls, a, b) = [i \in 1..Len(ls) |-> Kept(ls, a, b)[i]]
  BY DEF Kept
<1>3. Len(ls) \in Nat
  OBVIOUS
<1> QED
  BY <1>1, <1>2, <1>3

(* Of a line more, it is kept or not. *)
LEMMA KeptAppend ==
  ASSUME NEW ls \in Seq(Text), NEW l \in Text, NEW a \in Nat, NEW b \in Nat
  PROVE  Kept(Append(ls, l), a, b) =
           Append(Kept(ls, a, b), IF Len(ls) < a \/ Len(ls) >= b THEN <<l>> ELSE <<>>)
<1> DEFINE n == Len(ls)
           x == IF n < a \/ n >= b THEN <<l>> ELSE <<>>
           K == Kept(ls, a, b)
           L == Kept(Append(ls, l), a, b)
<1>1. Append(ls, l) \in Seq(Text) /\ Len(Append(ls, l)) = n + 1 /\ n \in Nat /\ x \in Seq(Text)
  OBVIOUS
<1>2. ASSUME NEW i \in 1..n PROVE L[i] = K[i]
  <2>1. Append(ls, l)[i] = ls[i] /\ i \in DOMAIN Append(ls, l) /\ i \in DOMAIN ls
    OBVIOUS
  <2> QED
    BY <2>1 DEF Kept
<1>3. L[n + 1] = x
  <2>1. Append(ls, l)[n + 1] = l /\ n + 1 \in DOMAIN Append(ls, l) /\ (n + 1) - 1 = n
    OBVIOUS
  <2> QED
    BY <2>1 DEF Kept
<1>4. L \in Seq(Seq(Text)) /\ Len(L) = n + 1 /\ K \in Seq(Seq(Text)) /\ Len(K) = n
  BY <1>1, KeptType
<1> HIDE DEF L, K, x, n
<1>5. L = Append(K, x)
  BY <1>1, <1>2, <1>3, <1>4
<1> QED
  BY <1>5 DEF L, K, x, n

(* The end of a sequence with one more element. *)
LEMMA SubSeqAppend ==
  ASSUME NEW S, NEW s \in Seq(S), NEW x \in S, NEW j \in 1..(Len(s) + 1)
  PROVE  /\ SubSeq(Append(s, x), j, Len(s) + 1) = Append(SubSeq(s, j, Len(s)), x)
         /\ SubSeq(s, j, Len(s)) \in Seq(S)
<1> DEFINE n == Len(s)
           t == Append(s, x)
           u == SubSeq(t, j, n + 1)
           v == SubSeq(s, j, n)
<1>1. n \in Nat /\ t \in Seq(S) /\ Len(t) = n + 1 /\ t[n + 1] = x /\ \A i \in 1..n : t[i] = s[i]
  OBVIOUS
<1>2. v \in Seq(S) /\ Len(v) = n + 1 - j /\ \A i \in 1..(n + 1 - j) : v[i] = s[j + i - 1]
  OBVIOUS
<1> HIDE DEF t, v
<1>3. u \in Seq(S) /\ Len(u) = n + 2 - j /\ \A i \in 1..(n + 2 - j) : u[i] = t[j + i - 1]
  BY <1>1
<1> HIDE DEF u, n
<1>4. ASSUME NEW i \in 1..(n + 1 - j) PROVE u[i] = v[i]
  <2>1. n \in Nat /\ j \in 1..(n + 1)
    BY <1>1 DEF n
  <2>2. j + i - 1 \in 1..n /\ i \in 1..(n + 2 - j)
    BY <2>1
  <2> QED
    BY <1>1, <1>2, <1>3, <2>2
<1>5. u[n + 2 - j] = x
  <2>1. n \in Nat /\ j \in 1..(n + 1)
    BY <1>1 DEF n
  <2>2. n + 2 - j \in 1..(n + 2 - j) /\ j + (n + 2 - j) - 1 = n + 1
    BY <2>1
  <2> QED
    BY <1>1, <1>3, <2>2
<1>6. u = Append(v, x)
  <2>1. n \in Nat /\ j \in 1..(n + 1)
    BY <1>1 DEF n
  <2> DEFINE m == n + 1 - j
             w == Append(v, x)
  <2>2. m \in Nat /\ m + 1 = n + 2 - j
    BY <2>1
  <2>3. w \in Seq(S) /\ Len(w) = m + 1 /\ w[m + 1] = x /\ \A i \in 1..m : w[i] = v[i]
    BY <1>2, <2>2
  <2> HIDE DEF m, w
  <2>4. \A i \in 1..(m + 1) : u[i] = w[i]
    <3> SUFFICES ASSUME NEW i \in 1..(m + 1) PROVE u[i] = w[i]
      OBVIOUS
    <3>1. CASE i = m + 1
      BY <1>5, <2>2, <2>3, <3>1
    <3>2. CASE i \in 1..m
      BY <1>4, <2>3, <3>2 DEF m
    <3> QED
      BY <2>2, <3>1, <3>2
  <2>5. u \in Seq(S) /\ Len(u) = m + 1
    BY <1>3, <2>2
  <2>6. u = w
    BY <2>3, <2>4, <2>5
  <2> QED
    BY <2>6 DEF w
<1> QED
  BY <1>2, <1>6 DEF u, v, t, n

(* Both pieces are lines. *)
LEMMA AroundType ==
  ASSUME NEW ls \in Seq(Text), NEW a \in Nat, NEW b \in Nat
  PROVE  /\ SubSeq(ls, 1, Shorter(a, Len(ls))) \in Seq(Text)
         /\ SubSeq(ls, b + 1, Len(ls)) \in Seq(Text)
         /\ Around(ls, a, b) \in Seq(Text)
<1>1. Shorter(a, Len(ls)) \in 0..Len(ls)
  BY DEF Shorter
<1>2. SubSeq(ls, 1, Shorter(a, Len(ls))) \in Seq(Text)
  BY <1>1
<1>3. SubSeq(ls, b + 1, Len(ls)) \in Seq(Text)
  OBVIOUS
<1> QED
  BY <1>2, <1>3 DEF Around

(* Of a line more, it is in the second piece or in neither. *)
LEMMA AroundAppend ==
  ASSUME NEW ls \in Seq(Text), NEW l \in Text, NEW a \in Nat, NEW b \in Nat, a <= b
  PROVE  Around(Append(ls, l), a, b) =
           IF Len(ls) < a \/ Len(ls) >= b THEN Append(Around(ls, a, b), l) ELSE Around(ls, a, b)
<1> DEFINE n == Len(ls)
           t == Append(ls, l)
           X == SubSeq(ls, 1, Shorter(a, n))
           X1 == SubSeq(t, 1, Shorter(a, n + 1))
           Y == SubSeq(ls, b + 1, n)
           Y1 == SubSeq(t, b + 1, n + 1)
<1>1. n \in Nat /\ t \in Seq(Text) /\ Len(t) = n + 1
  OBVIOUS
<1>2. Around(ls, a, b) = X \o Y /\ Around(t, a, b) = X1 \o Y1
  BY <1>1 DEF Around
<1>3. X \in Seq(Text) /\ Y \in Seq(Text)
  BY AroundType
<1>4. ASSUME n < a PROVE X1 \o Y1 = Append(X \o Y, l)
  <2>1. X1 = t /\ Y1 = <<>>
    BY <1>4 DEF Shorter
  <2>2. X = ls /\ Y = <<>>
    BY <1>4 DEF Shorter
  <2> HIDE DEF X, Y, X1, Y1
  <2>3. t \o <<>> = t /\ ls \o <<>> = ls
    OBVIOUS
  <2> QED
    BY <2>1, <2>2, <2>3
<1>5. ASSUME n >= a PROVE X1 = X
  <2>1. Shorter(a, n) = a /\ Shorter(a, n + 1) = a
    BY <1>5 DEF Shorter
  <2>2. SubSeq(t, 1, a) = SubSeq(ls, 1, a)
    BY <1>5
  <2> QED
    BY <2>1, <2>2
<1>6. ASSUME n >= b PROVE Y1 = Append(Y, l)
  <2>1. b + 1 \in 1..(n + 1)
    BY <1>1, <1>6
  <2> QED
    BY <2>1, SubSeqAppend
<1>7. ASSUME n < b PROVE Y1 = <<>> /\ Y = <<>>
  BY <1>1, <1>7
<1> HIDE DEF X, Y, X1, Y1, t, n
<1>8. CASE n < a
  BY <1>2, <1>4, <1>8 DEF t, n
<1>9. CASE n >= a /\ n >= b
  <2>1. X \o Append(Y, l) = Append(X \o Y, l)
    BY <1>3, ConcatAppend
  <2> QED
    BY <1>2, <1>5, <1>6, <1>9, <2>1 DEF t, n
<1>10. CASE n >= a /\ n < b
  <2>1. ~(n < a \/ n >= b)
    BY <1>1, <1>10
  <2> QED
    BY <1>2, <1>5, <1>7, <1>10, <2>1 DEF t, n
<1>11. n < a \/ (n >= a /\ n >= b) \/ (n >= a /\ n < b)
  BY <1>1
<1> QED
  BY <1>8, <1>9, <1>10, <1>11

(* What is kept of every line makes the two pieces. *)
LEMMA KeepAround ==
  ASSUME NEW ls \in Seq(Text), NEW a \in Nat, NEW b \in Nat, a <= b
  PROVE  FlattenSeq(Kept(ls, a, b)) = Around(ls, a, b)
<1> DEFINE T == {ms \in Seq(Text) : FlattenSeq(Kept(ms, a, b)) = Around(ms, a, b)}
<1>1. <<>> \in T
  <2>1. <<>> \in Seq(Text) /\ Kept(<<>>, a, b) = <<>>
    BY DEF Kept
  <2>2. Around(<<>>, a, b) = <<>>
    BY DEF Around, Shorter
  <2> QED
    BY <2>1, <2>2, FlattenNone
<1>2. ASSUME NEW ms \in Seq(Text), NEW l \in Text, ms \in T PROVE Append(ms, l) \in T
  <2> DEFINE x == IF Len(ms) < a \/ Len(ms) >= b THEN <<l>> ELSE <<>>
             A == Around(ms, a, b)
             K == Kept(ms, a, b)
  <2>1. Kept(Append(ms, l), a, b) = Append(K, x) /\ K \in Seq(Seq(Text))
    BY KeptAppend, KeptType
  <2>2. Around(Append(ms, l), a, b) = IF Len(ms) < a \/ Len(ms) >= b THEN Append(A, l) ELSE A
    BY AroundAppend
  <2>3. A \in Seq(Text) /\ x \in Seq(Text)
    BY AroundType
  <2>4. FlattenSeq(K) = A
    BY <1>2
  <2> HIDE DEF A, K
  <2>5. FlattenSeq(Append(K, x)) = A \o x
    BY <2>1, <2>3, <2>4, FlattenAppend
  <2>6. A \o <<l>> = Append(A, l) /\ A \o <<>> = A /\ Append(ms, l) \in Seq(Text)
    BY <2>3
  <2>7. FlattenSeq(Kept(Append(ms, l), a, b)) = Around(Append(ms, l), a, b)
    BY <2>1, <2>2, <2>5, <2>6
  <2> QED
    BY <2>6, <2>7
<1> HIDE DEF T
<1>3. Seq(Text) \subseteq T
  BY <1>1, <1>2, SeqInduction
<1> QED
  BY <1>3 DEF T

(* If the last line is before the first, every line is kept. *)
LEMMA KeptAll ==
  ASSUME NEW ls \in Seq(Text), NEW a \in Nat, NEW b \in Nat, b < a
  PROVE  Kept(ls, a, b) = Kept(ls, a, a)
<1>1. \A i \in DOMAIN ls : (i - 1 < a \/ i - 1 >= b) /\ (i - 1 < a \/ i - 1 >= a)
  OBVIOUS
<1> QED
  BY <1>1 DEF Kept

(* A deletion is what is meant by it. *)
LEMMA DeleteMeans ==
  ASSUME NEW in \in Inputs, in.op = "delete", NEW s \in Text
  PROVE  Means(in, s, Edited(in, s)) /\ Edited(in, s) \in Text
<1> DEFINE ls == Lines(s)
           n == Len(ls)
           first == in.first
           last == in.last
           a == IF first = 0 THEN 0 ELSE first - 1
           b == IF last < a THEN a ELSE last
           k == Shorter(a, n)
           m == Shorter(b, n)
<1>1. Edited(in, s) = Join(FlattenSeq(Kept(ls, a, last)))
  BY DEF Edited, Deleted, Kept
<1>2. Means(in, s, Edited(in, s)) <=>
        \E x \in 0..n : \E y \in x..n :
          /\ Edited(in, s) = Join(SubSeq(ls, 1, x) \o SubSeq(ls, y + 1, n))
          /\ \A i \in DOMAIN ls : x < i /\ i <= y <=> first <= i /\ i <= last
  BY DEF Means
<1>3. first \in Nat /\ last \in Nat /\ ls \in Seq(Text)
  BY TextsAssumption, LinesType
<1> HIDE DEF ls, first, last
<1>4. n \in Nat /\ a \in Nat /\ b \in Nat /\ a <= b /\ DOMAIN ls = 1..n
  BY <1>3
<1>5. Kept(ls, a, last) = Kept(ls, a, b)
  BY <1>3, <1>4, KeptAll
<1>6. FlattenSeq(Kept(ls, a, b)) = Around(ls, a, b)
  BY <1>3, <1>4, KeepAround
<1> HIDE DEF a, b
<1>7. SubSeq(ls, b + 1, n) = SubSeq(ls, m + 1, n)
  <2>0. n \in Nat /\ b \in Nat
    BY <1>4
  <2>3. SubSeq(ls, n + 1, n) = <<>> /\ (b >= n => SubSeq(ls, b + 1, n) = <<>>)
    BY <1>3, <1>4
  <2> HIDE DEF n
  <2>1. CASE b < n
    BY <2>1 DEF Shorter
  <2>2. CASE b >= n
    <3>1. m = n
      BY <2>0, <2>2 DEF Shorter
    <3> QED
      BY <2>2, <2>3, <3>1
  <2>4. b < n \/ b >= n
    BY <2>0
  <2> QED
    BY <2>1, <2>2, <2>4
<1>8. Around(ls, a, b) = SubSeq(ls, 1, k) \o SubSeq(ls, m + 1, n)
  BY <1>7 DEF Around
<1>9. k \in 0..n /\ m \in k..n
  <2> HIDE DEF n
  <2> QED
    BY <1>4 DEF Shorter
<1>10. \A i \in DOMAIN ls : k < i /\ i <= m <=> first <= i /\ i <= last
  <2> SUFFICES ASSUME NEW i \in 1..n PROVE k < i /\ i <= m <=> first <= i /\ i <= last
    BY <1>4
  <2> HIDE DEF n
  <2> QED
    BY <1>3, <1>4 DEF Shorter, a, b
<1>11. Edited(in, s) \in Text
  <2>1. Around(ls, a, b) \in Seq(Text)
    BY <1>3, <1>4, AroundType
  <2> HIDE DEF a, b
  <2> QED
    BY <1>1, <1>5, <1>6, <2>1, JoinAppend
<1>12. Edited(in, s) = Join(SubSeq(ls, 1, k) \o SubSeq(ls, m + 1, n))
  BY <1>1, <1>5, <1>6, <1>8
<1> HIDE DEF k, m, n
<1> QED
  BY <1>2, <1>9, <1>10, <1>11, <1>12

(* The least number of a set is there. *)
LEMMA MinIn ==
  ASSUME NEW S \in SUBSET Nat, S # {}
  PROVE  Min(S) \in S /\ \A y \in S : Min(S) <= y
<1>1. \E x \in S : \A y \in S : x <= y
  BY Least
<1> QED
  BY <1>1, Zenon DEF Min

(* A text falls into what is before one of its parts, the part and the rest. *)
LEMMA ThreeParts ==
  ASSUME NEW s \in Text, NEW i \in 1..(Len(s) + 1), NEW j \in (i - 1)..Len(s)
  PROVE  s = SubSeq(s, 1, i - 1) \o SubSeq(s, i, j) \o SubSeq(s, j + 1, Len(s))
<1> USE DEF Text
<1>1. SubSeq(s, 1, i - 1) \o SubSeq(s, i, j) = SubSeq(s, 1, j)
  OBVIOUS
<1>2. SubSeq(s, 1, j) \o SubSeq(s, j + 1, Len(s)) = SubSeq(s, 1, Len(s))
  <2>1. 1 \in 1..(Len(s) + 1) /\ j \in (1 - 1)..Len(s) /\ Len(s) \in j..Len(s)
    OBVIOUS
  <2> QED
    BY <2>1, ConcatAdjacentSubSeq
<1>3. SubSeq(s, 1, Len(s)) = s
  OBVIOUS
<1> QED
  BY <1>1, <1>2, <1>3

(* A replacement is what is meant by it. *)
LEMMA ReplaceMeans ==
  ASSUME NEW in \in Inputs, in.op \in {"replace", "patch"}, NEW s \in Text,
         Occurs(in.old, s) # {}
  PROVE  Means(in, s, Edited(in, s)) /\ Edited(in, s) \in Text
<1> DEFINE old == in.old
           new == in.new
           i == Min(Occurs(old, s))
           j == i + Len(old) - 1
           x == SubSeq(s, 1, i - 1)
           y == SubSeq(s, j + 1, Len(s))
<1>1. old \in Text /\ new \in Text
  BY TextsAssumption
<1>2. Means(in, s, Edited(in, s)) <=>
        ((\A k, l \in Occurs(old, s) : k = l) =>
           \E u \in Prefixes(s), v \in Suffixes(s) :
              s = u \o old \o v /\ Edited(in, s) = u \o new \o v)
  BY DEF Means
<1>3. Edited(in, s) = ReplaceSubSeqAt(i, new, old, s)
  BY DEF Edited, Replaced
<1> HIDE DEF old, new
<1>4. Occurs(old, s) \in SUBSET Nat
  BY <1>1 DEF Occurs, Text
<1>5. i \in Occurs(old, s) /\ \A k \in Occurs(old, s) : i <= k
  BY <1>4, MinIn DEF old
<1> HIDE DEF i
<1>6. /\ i \in 1..(Len(s) + 1) /\ j \in (i - 1)..Len(s) /\ SubSeq(s, i, j) = old
      /\ Len(old) \in Nat /\ Len(s) \in Nat
  BY <1>1, <1>5 DEF Occurs, Text
<1>7. s = x \o old \o y
  BY <1>6, ThreeParts
<1>8. Edited(in, s) = x \o new \o y
  <2>1. i + Len(old) = j + 1
    BY <1>6
  <2> QED
    BY <1>3, <2>1 DEF ReplaceSubSeqAt
<1>9. x \in Prefixes(s)
  <2>1. i - 1 \in 0..Len(s)
    BY <1>6
  <2> QED
    BY <2>1 DEF Prefixes
<1>10. y \in Suffixes(s)
  <2>1. CASE j = Len(s)
    <3>1. y = <<>>
      BY <1>6, <2>1
    <3> QED
      BY <3>1 DEF Suffixes
  <2>2. CASE j # Len(s)
    <3>1. j + 1 \in 1..Len(s)
      <4> HIDE DEF j
      <4> QED
        BY <1>6, <2>2
    <3> QED
      BY <3>1 DEF Suffixes
  <2> QED
    BY <2>1, <2>2
<1>11. Edited(in, s) \in Text
  <2>1. x \in Text /\ y \in Text
    BY <1>6 DEF Text
  <2> HIDE DEF x, y
  <2> QED
    BY <1>1, <1>8, <2>1 DEF Text
<1> HIDE DEF x, y
<1> QED
  BY <1>2, <1>7, <1>8, <1>9, <1>10, <1>11

(***************************************************************************)
(* Edits have their effect                                                 *)
(***************************************************************************)

(* Where a request can be tells what it asks for. *)
OpInv(q) ==
  /\ pc[q] = "edit" => input[q].op \in EditOps \ {"patch"}
  /\ pc[q] = "patching" => input[q].op = "patch"
  /\ pc[q] = "copying" => input[q].op = "copy" /\ src[q] # NULL
  /\ pc[q] = "open" => input[q].op \in (EditOps \ {"patch"}) \union {"write", "copy"}
  /\ pc[q] = "walking" => input[q].op = "find"

(* An edit that goes on has found what it is to replace. *)
HasOld(q) ==
  pc[q] \in {"edit", "patching", "open"} /\ input[q].op \in {"replace", "patch"} =>
    Occurs(input[q].old, text[q]) # {}

(* An edit that has been alone has its file open under its name, and empty. *)
StillEmpty(q) ==
  pc[q] = "open" /\ input[q].op \in EditOps /\ alone[q] =>
    dir[Name(q)] = fd[q] /\ data[fd[q]] = <<>>

(* The inductive invariant of the edits. *)
EditInv ==
  /\ data \in [Inodes -> Text] /\ text \in [Reqs -> Text]
  /\ src \in [Reqs -> Inodes \union {NULL}]
  /\ alone = [q \in Reqs |-> alone[q]]
  /\ \A q \in Reqs : OpInv(q) /\ HasOld(q) /\ StillEmpty(q)

(* Every edit of a text is what is meant by it, and a text. *)
LEMMA EditedMeans ==
  ASSUME NEW in \in Inputs, in.op \in EditOps, NEW s \in Text,
         in.op \in {"replace", "patch"} => Occurs(in.old, s) # {}
  PROVE  Means(in, s, Edited(in, s)) /\ Edited(in, s) \in Text
<1>1. in.op \in {"replace", "patch"} \/ in.op = "insert" \/ in.op = "delete"
  BY DEF EditOps
<1> QED
  BY <1>1, ReplaceMeans, InsertMeans, DeleteMeans

(* What a request is to leave in its file is a text. *)
LEMMA OutputType ==
  ASSUME FileTypes, EditInv, NEW q \in Reqs, pc[q] \in {"open", "patching"}
  PROVE  Output(q) \in Text
<1>1. input[q] \in Inputs /\ text[q] \in Text
  BY DEF FileTypes, EditInv
<1>2. OpInv(q) /\ HasOld(q)
  BY DEF EditInv
<1>3. CASE input[q].op \in {"write", "copy"}
  BY <1>1, <1>3 DEF Output
<1>4. CASE input[q].op \in EditOps
  <2>1. Output(q) = Edited(input[q], text[q])
    BY <1>4 DEF Output, EditOps
  <2>2. input[q].op \in {"replace", "patch"} => Occurs(input[q].old, text[q]) # {}
    BY <1>2 DEF HasOld
  <2> QED
    BY <1>1, <1>4, <2>1, <2>2, EditedMeans
<1> QED
  BY <1>2, <1>3, <1>4 DEF OpInv, EditOps

(* And so is what the file then holds. *)
LEMMA OverlayType ==
  ASSUME NEW s \in Text, NEW old \in Text
  PROVE  Overlay(s, old) \in Text
<1>1. SubSeq(old, Len(s) + 1, Len(old)) \in Text
  BY DEF Text
<1>2. s \o SubSeq(old, Len(s) + 1, Len(old)) \in Text
  BY <1>1 DEF Text
<1> QED
  BY <1>2 DEF Overlay

(* What a request asks for names files and texts. *)
LEMMA TypedInputs ==
  ASSUME FileTypes, NEW q \in Reqs
  PROVE  /\ input[q] \in Inputs /\ Name(q) \in Names /\ input[q].to \in Names
         /\ input[q].new \in Text
  BY FilesAssumption, TextsAssumption DEF FileTypes, Name

(* The invariant of the edits holds at first. *)
LEMMA InitEdits == Init => EditInv
<1> SUFFICES ASSUME Init PROVE EditInv
  OBVIOUS
<1>1. data \in [Inodes -> Text] /\ text \in [Reqs -> Text]
  BY TextsAssumption DEF Init, Names, Text
<1>2. \A q \in Reqs : pc[q] = "asked"
  BY DEF Init
<1>3. alone = [q \in Reqs |-> alone[q]] /\ src \in [Reqs -> Inodes \union {NULL}]
  BY DEF Init
<1> QED
  BY <1>1, <1>2, <1>3 DEF EditInv, OpInv, HasOld, StillEmpty

(* A step of r touches no file of an edit that stays alone. *)
LEMMA OthersStayAlone ==
  ASSUME FilesInv, EditInv, NEW r \in Reqs, input' = input,
         NEW q \in Reqs \ {r}, pc'[q] = pc[q], text'[q] = text[q], fd'[q] = fd[q], src'[q] = src[q],
         alone'[q] => alone[q] /\ Untouched(q)
  PROVE  OpInv(q)' /\ HasOld(q)' /\ StillEmpty(q)'
<1>1. OpInv(q) /\ HasOld(q) /\ StillEmpty(q)
  BY DEF EditInv
<1>2. OpInv(q)' /\ HasOld(q)'
  BY <1>1 DEF OpInv, HasOld
<1>3. StillEmpty(q)'
  <2> SUFFICES ASSUME pc[q] = "open", input[q].op \in EditOps, alone'[q]
               PROVE  dir'[Name(q)] = fd[q] /\ data'[fd[q]] = <<>>
    BY DEF StillEmpty, Name
  <2>1. dir[Name(q)] = fd[q] /\ data[fd[q]] = <<>> /\ Untouched(q)
    BY <1>1 DEF StillEmpty
  <2>2. fd[q] # NULL
    BY InodeFacts DEF FilesInv, WritersWrite, Writing
  <2> QED
    BY <2>1, <2>2 DEF Untouched
<1> QED
  BY <1>2, <1>3

(* What Noted says of the requests. *)
LEMMA NotedOthers ==
  ASSUME NEW r \in Reqs, Noted(r)
  PROVE  /\ alone' = [q \in Reqs |-> alone'[q]] /\ alone'[r] = alone[r]
         /\ \A q \in Reqs \ {r} : alone'[q] => alone[q] /\ Untouched(q)
<1>1. alone' = [q \in Reqs |-> IF q = r THEN alone[q] ELSE alone[q] /\ Untouched(q)]
  BY DEF Noted
<1>2. \A q \in Reqs : alone'[q] = IF q = r THEN alone[q] ELSE alone[q] /\ Untouched(q)
  BY <1>1, Zenon
<1>3. alone' = [q \in Reqs |-> alone'[q]]
  BY <1>1, Zenon
<1> QED
  BY <1>2, <1>3, Zenon

(* A step of r that has done its part keeps the invariant. *)
LEMMA EditStep ==
  ASSUME FilesInv, EditInv, NEW r \in Reqs, input' = input,
         NEW to, Goes(r, to),
         data' \in [Inodes -> Text], text' \in [Reqs -> Text],
         src' \in [Reqs -> Inodes \union {NULL}], alone' = [q \in Reqs |-> alone'[q]],
         \A q \in Reqs \ {r} : /\ text'[q] = text[q] /\ fd'[q] = fd[q] /\ src'[q] = src[q]
                              /\ (alone'[q] => alone[q] /\ Untouched(q)),
         OpInv(r)' /\ HasOld(r)' /\ StillEmpty(r)'
  PROVE  EditInv'
<1>1. \A q \in Reqs \ {r} : pc'[q] = pc[q]
  BY DEF Goes, FilesInv, FileTypes
<1>2. ASSUME NEW q \in Reqs PROVE OpInv(q)' /\ HasOld(q)' /\ StillEmpty(q)'
  <2>1. CASE q = r
    BY <2>1
  <2>2. CASE q # r
    <3>1. q \in Reqs \ {r}
      BY <2>2
    <3> QED
      BY <1>1, <3>1, OthersStayAlone
  <2> QED
    BY <2>1, <2>2
<1> QED
  BY <1>2 DEF EditInv

(* A request that is not at one of these places has nothing to keep. *)
LEMMA Answered ==
  ASSUME NEW q \in Reqs, pc[q] \notin {"edit", "patching", "copying", "open", "walking"}
  PROVE  OpInv(q) /\ HasOld(q) /\ StillEmpty(q)
  BY DEF OpInv, HasOld, StillEmpty

(* Every step keeps it. *)
LEMMA NextEdits == FilesInv /\ EditInv /\ [Next]_vars => EditInv'
<1> SUFFICES ASSUME FilesInv, EditInv, [Next]_vars PROVE EditInv'
  OBVIOUS
<1> USE DEF FilesInv
<1>0. /\ FileTypes /\ data \in [Inodes -> Text] /\ text \in [Reqs -> Text]
      /\ alone = [q \in Reqs |-> alone[q]] /\ src \in [Reqs -> Inodes \union {NULL}]
  BY DEF EditInv
<1>a. ASSUME NEW q \in Reqs, NEW to, Goes(q, to) PROVE pc'[q] = to
  BY <1>0, <1>a DEF Goes, FileTypes
<1>1. ASSUME NEW q \in Reqs, ReadToEdit(q) \/ StartPatch(q) PROVE EditInv'
  <2> DEFINE i == dir[Name(q)]
             place == IF input[q].op = "patch" THEN "patching" ELSE "edit"
  <2>1. /\ input[q].op \in EditOps /\ pc[q] = "asked" /\ Harmless
        /\ \/ UNCHANGED <<text, alone>> /\ \E to \in {"404", "422", "500"} : Goes(q, to)
           \/ ReadsFor(q, place)
    BY <1>0, <1>1, EditStarts
  <2>2. \A p \in Reqs : Untouched(p) /\ fd'[p] = fd[p] /\ src'[p] = src[p]
    BY <2>1 DEF Harmless, Untouched, Name
  <2>3. ASSUME UNCHANGED <<text, alone>>, NEW to \in {"404", "422", "500"}, Goes(q, to)
        PROVE  EditInv'
    <3>1. pc'[q] \in {"404", "422", "500"}
      BY <1>a, <2>3
    <3>2. OpInv(q)' /\ HasOld(q)' /\ StillEmpty(q)'
      BY <3>1 DEF OpInv, HasOld, StillEmpty
    <3>3. \A p \in Reqs \ {q} : text'[p] = text[p] /\ (alone'[p] => alone[p] /\ Untouched(p))
      BY <2>2, <2>3, Zenon
    <3> QED
      BY <1>0, <2>1, <2>2, <2>3, <3>2, <3>3, EditStep DEF Harmless
  <2>4. ASSUME ReadsFor(q, place) PROVE EditInv'
    <3>1. /\ Goes(q, place) /\ i # NULL
          /\ text' = [text EXCEPT ![q] = data[i]]
          /\ alone' = [alone EXCEPT ![q] = Writers(i) = {}]
          /\ input[q].op \in {"replace", "patch"} => Occurs(input[q].old, data[i]) # {}
      BY <2>4 DEF ReadsFor, Reads
    <3>2. i \in Inodes
      BY <1>0, <3>1, TypedInputs DEF FileTypes
    <3>3. data[i] \in Text /\ text' \in [Reqs -> Text] /\ text'[q] = data[i]
          /\ \A p \in Reqs \ {q} : text'[p] = text[p]
      BY <1>0, <3>1, <3>2
    <3>4. alone' = [p \in Reqs |-> alone'[p]] /\ \A p \in Reqs \ {q} : alone'[p] = alone[p]
      <4> DEFINE w == Writers(i) = {}
      <4>1. alone' = [alone EXCEPT ![q] = w]
        BY <3>1
      <4> HIDE DEF w
      <4> QED
        BY <1>0, <4>1
    <3>5. pc'[q] = IF input[q].op = "patch" THEN "patching" ELSE "edit"
      BY <1>a, <3>1
    <3>6. OpInv(q)'
      BY <2>1, <3>5 DEF OpInv, Harmless
    <3>7. HasOld(q)'
      BY <2>1, <3>1, <3>3 DEF HasOld, Harmless
    <3>8. StillEmpty(q)'
      BY <3>5 DEF StillEmpty
    <3>9. \A p \in Reqs \ {q} : alone'[p] => alone[p] /\ Untouched(p)
      BY <2>2, <3>4, Zenon
    <3>10. input' = input /\ data' \in [Inodes -> Text] /\ src' \in [Reqs -> Inodes \union {NULL}]
      BY <1>0, <2>1 DEF Harmless
    <3> QED
      BY <2>2, <3>1, <3>3, <3>4, <3>6, <3>7, <3>8, <3>9, <3>10, EditStep
  <2> QED
    BY <2>1, <2>3, <2>4
<1>2. ASSUME NEW q \in Reqs, OpenToWrite(q) PROVE EditInv'
  <2> DEFINE i == Opened(q, Name(q))
  <2>1. /\ \/ pc[q] = "asked" /\ input[q].op = "write" /\ text' = [text EXCEPT ![q] = input[q].new]
           \/ pc[q] = "edit" /\ text' = text
        /\ Goes(q, "open") /\ input' = input /\ src' = src /\ Noted(q)
    BY <1>2 DEF OpenToWrite, Is
  <2>2. /\ fd' = [fd EXCEPT ![q] = i] /\ dir' = [dir EXCEPT ![Name(q)] = i]
        /\ data' = [data EXCEPT ![i] = <<>>]
    BY <1>2 DEF OpenToWrite, OpenForWriting
  <2>3. Name(q) \in Names /\ input[q].new \in Text
    BY <1>0, TypedInputs
  <2>4. i \in Inodes
    BY <1>0, <2>3, InodeFacts DEF Opened, FileTypes
  <2> HIDE DEF i
  <2>5. data' \in [Inodes -> Text] /\ data'[i] = <<>> /\ dir'[Name(q)] = i /\ fd'[q] = i
        /\ \A p \in Reqs \ {q} : fd'[p] = fd[p]
    <3>1. <<>> \in Text
      BY DEF Text
    <3> QED
      BY <1>0, <2>2, <2>3, <2>4, <3>1 DEF FileTypes
  <2>6. text' \in [Reqs -> Text] /\ (\A p \in Reqs \ {q} : text'[p] = text[p])
        /\ (pc[q] = "edit" => text'[q] = text[q])
    BY <1>0, <2>1, <2>3
  <2>7. OpInv(q) /\ HasOld(q)
    BY DEF EditInv
  <2>8. pc'[q] = "open"
    BY <1>a, <2>1
  <2>9. OpInv(q)' /\ HasOld(q)'
    BY <2>1, <2>6, <2>7, <2>8 DEF OpInv, HasOld
  <2>10. StillEmpty(q)'
    BY <2>1, <2>5 DEF StillEmpty, Name
  <2> QED
    BY <1>0, <2>1, <2>5, <2>6, <2>9, <2>10, NotedOthers, EditStep
<1>3. ASSUME NEW q \in Reqs, OpenToCopy(q) PROVE EditInv'
  <2> DEFINE i == Opened(q, input[q].to)
  <2>1. /\ input[q].op = "copy" /\ text' = text
        /\ Goes(q, "copying") /\ input' = input /\ Noted(q)
        /\ fd' = [fd EXCEPT ![q] = i] /\ data' = [data EXCEPT ![i] = <<>>]
        /\ src' = [src EXCEPT ![q] = dir[Name(q)]] /\ dir[Name(q)] # NULL
    BY <1>3 DEF OpenToCopy, Is, OpenForWriting
  <2>2. i \in Inodes
    BY <1>0, TypedInputs, InodeFacts DEF Opened, FileTypes
  <2> HIDE DEF i
  <2>3. data' \in [Inodes -> Text] /\ \A p \in Reqs \ {q} : fd'[p] = fd[p]
    <3>1. <<>> \in Text
      BY DEF Text
    <3> QED
      BY <1>0, <2>1, <2>2, <3>1 DEF FileTypes
  <2>4. pc'[q] = "copying"
    BY <1>a, <2>1
  <2>6. /\ src' \in [Reqs -> Inodes \union {NULL}] /\ src'[q] # NULL
        /\ \A p \in Reqs \ {q} : src'[p] = src[p]
    BY <1>0, <2>1, TypedInputs DEF FileTypes
  <2>5. OpInv(q)' /\ HasOld(q)' /\ StillEmpty(q)'
    BY <2>1, <2>4, <2>6 DEF OpInv, HasOld, StillEmpty
  <2> QED
    BY <1>0, <2>1, <2>3, <2>5, <2>6, NotedOthers, EditStep
<1>4. ASSUME NEW q \in Reqs, ReadToCopy(q) PROVE EditInv'
  <2>1. /\ pc[q] = "copying" /\ text' = [text EXCEPT ![q] = data[src[q]]]
        /\ Goes(q, "open") /\ Harmless /\ alone' = alone
    BY <1>4 DEF ReadToCopy, Reads
  <2>2. OpInv(q) /\ HasOld(q)
    BY DEF EditInv
  <2>3. data[src[q]] \in Text /\ input[q].op = "copy"
    BY <1>0, <2>1, <2>2 DEF OpInv
  <2>4. text' \in [Reqs -> Text] /\ \A p \in Reqs \ {q} : text'[p] = text[p]
    BY <1>0, <2>1, <2>3
  <2>5. \A p \in Reqs : Untouched(p) /\ fd'[p] = fd[p] /\ src'[p] = src[p]
    BY <2>1 DEF Harmless, Untouched, Name
  <2>6. \A p \in Reqs \ {q} : alone'[p] => alone[p] /\ Untouched(p)
    BY <2>1, <2>5, Zenon
  <2>7. pc'[q] = "open"
    BY <1>a, <2>1
  <2>8. OpInv(q)' /\ HasOld(q)' /\ StillEmpty(q)'
    BY <2>1, <2>3, <2>7 DEF OpInv, HasOld, StillEmpty, Harmless, EditOps
  <2>9. input' = input /\ data' \in [Inodes -> Text] /\ src' \in [Reqs -> Inodes \union {NULL}]
        /\ alone' = [p \in Reqs |-> alone'[p]]
    BY <1>0, <2>1 DEF Harmless
  <2> QED
    BY <2>1, <2>4, <2>5, <2>6, <2>8, <2>9, EditStep
<1>5. ASSUME NEW q \in Reqs, WriteOut(q) \/ WriteFails(q) PROVE EditInv'
  <2>1. pc[q] = "open" /\ input' = input /\ text' = text /\ fd' = fd /\ src' = src /\ Noted(q)
    BY <1>5 DEF WriteOut, WriteFails
  <2>2. fd[q] \in Inodes /\ Output(q) \in Text /\ data[fd[q]] \in Text
    BY <1>0, <2>1, OutputType DEF WritersWrite, Writing
  <2>3. PICK s \in Text : data' = [data EXCEPT ![fd[q]] = s]
    <3>1. CASE WriteOut(q)
      <4>1. Overlay(Output(q), data[fd[q]]) \in Text
        BY <2>2, OverlayType
      <4> QED
        BY <3>1, <4>1 DEF WriteOut
    <3>2. CASE WriteFails(q)
      <4>1. PICK k \in 0..Len(Output(q)) :
              data' = [data EXCEPT ![fd[q]] = Overlay(SubSeq(Output(q), 1, k), data[fd[q]])]
        BY <3>2 DEF WriteFails
      <4>2. SubSeq(Output(q), 1, k) \in Text
        BY <2>2 DEF Text
      <4>3. Overlay(SubSeq(Output(q), 1, k), data[fd[q]]) \in Text
        BY <2>2, <4>2, OverlayType
      <4> QED
        BY <4>1, <4>3
    <3> QED
      BY <1>5, <3>1, <3>2
  <2>4. data' \in [Inodes -> Text]
    BY <1>0, <2>2, <2>3
  <2>5. PICK to \in {"200", "500"} : Goes(q, to)
    BY <1>5 DEF WriteOut, WriteFails
  <2>6. pc'[q] \in {"200", "500"}
    BY <1>a, <2>5
  <2>7. OpInv(q)' /\ HasOld(q)' /\ StillEmpty(q)'
    BY <2>6 DEF OpInv, HasOld, StillEmpty
  <2> QED
    BY <1>0, <2>1, <2>4, <2>5, <2>7, NotedOthers, EditStep
<1>6. ASSUME NEW q \in Reqs, PatchRenames(q) \/ Move(q) \/ Rm(q) PROVE EditInv'
  <2>1. input' = input /\ text' = text /\ fd' = fd /\ src' = src /\ Noted(q) /\ Goes(q, "200")
    BY <1>6 DEF PatchRenames, Move, Rm
  <2>2. data' \in [Inodes -> Text]
    <3>1. CASE PatchRenames(q)
      <4>1. Output(q) \in Text /\ q \in Inodes
        BY <1>0, <3>1, OutputType, InodeFacts DEF PatchRenames
      <4> QED
        BY <1>0, <3>1, <4>1 DEF PatchRenames
    <3>2. CASE Move(q) \/ Rm(q)
      BY <1>0, <3>2 DEF Move, Rm
    <3> QED
      BY <1>6, <3>1, <3>2
  <2>3. pc'[q] = "200"
    BY <1>a, <2>1
  <2>4. OpInv(q)' /\ HasOld(q)' /\ StillEmpty(q)'
    BY <2>3 DEF OpInv, HasOld, StillEmpty
  <2> QED
    BY <1>0, <2>1, <2>2, <2>4, NotedOthers, EditStep
<1>7. ASSUME NEW q \in Reqs, NoSuchFile(q) \/ StartWalk(q) \/ Visit(q) \/ Drop(q) PROVE EditInv'
  <2>1. Harmless /\ text' = text /\ alone' = alone
    BY <1>7 DEF NoSuchFile, StartWalk, Visit, Drop
  <2>2. PICK to \in {"500", "walking", "200", "dropped"} : Goes(q, to)
    BY <1>7 DEF NoSuchFile, StartWalk, Visit, Drop
  <2>3. to = "walking" => input[q].op = "find"
    <3>1. OpInv(q)
      BY DEF EditInv
    <3>2. pc'[q] = to
      BY <1>a, <2>2
    <3> QED
      BY <1>7, <1>a, <3>1, <3>2 DEF NoSuchFile, StartWalk, Visit, Drop, Is, OpInv
  <2>4. \A p \in Reqs \ {q} : fd'[p] = fd[p] /\ src'[p] = src[p] /\ text'[p] = text[p] /\ (alone'[p] => alone[p] /\ Untouched(p))
    <3>1. \A p \in Reqs : Untouched(p) /\ fd'[p] = fd[p] /\ src'[p] = src[p]
      BY <2>1 DEF Harmless, Untouched, Name
    <3> QED
      BY <2>1, <3>1, Zenon
  <2>5. pc'[q] = to
    BY <1>a, <2>2
  <2>6. OpInv(q)' /\ HasOld(q)' /\ StillEmpty(q)'
    BY <2>1, <2>3, <2>5 DEF OpInv, HasOld, StillEmpty, Harmless
  <2>7. input' = input /\ data' \in [Inodes -> Text] /\ text' \in [Reqs -> Text]
        /\ src' \in [Reqs -> Inodes \union {NULL}]
        /\ alone' = [p \in Reqs |-> alone'[p]]
    BY <1>0, <2>1 DEF Harmless
  <2> QED
    BY <2>2, <2>4, <2>6, <2>7, EditStep
<1>8. ASSUME Crash PROVE EditInv'
  <2>1. \A q \in Reqs : pc'[q] \notin {"edit", "patching", "copying", "open", "walking"}
    BY <1>0, <1>8 DEF Crash, Steps, FileTypes
  <2>2. \A q \in Reqs : OpInv(q)' /\ HasOld(q)' /\ StillEmpty(q)'
    BY <2>1 DEF OpInv, HasOld, StillEmpty
  <2> QED
    BY <1>0, <1>8, <2>2 DEF Crash, EditInv
<1>9. CASE UNCHANGED vars
  BY <1>9 DEF vars, EditInv, OpInv, HasOld, StillEmpty, Name
<1> QED
  BY <1>1, <1>2, <1>3, <1>4, <1>5, <1>6, <1>7, <1>8, <1>9 DEF Next

(* An edit answered with 200 leaves in its file what it means, unless another     *)
(* request changed the file meanwhile: for every text, line number and pattern,    *)
(* and any requests in any number.                                                 *)
THEOREM EditsDoWhatTheyMean == Spec => EditsHaveTheirEffect
<1>1. FilesInv /\ EditInv /\ [Next]_vars =>
        [\A q \in Reqs :
           /\ input[q].op \in EditOps
           /\ pc[q] # "200" /\ pc'[q] = "200" /\ alone[q]
           => Means(input[q], text[q], data'[dir'[Name(q)]])]_vars
  <2> SUFFICES ASSUME FilesInv, EditInv, Next, NEW q \in Reqs, input[q].op \in EditOps,
                      pc[q] # "200", pc'[q] = "200", alone[q]
               PROVE  Means(input[q], text[q], data'[dir'[Name(q)]])
    OBVIOUS
  <2>1. FileTypes /\ OpInv(q) /\ HasOld(q) /\ StillEmpty(q) /\ input[q] \in Inputs
        /\ Name(q) \in Names /\ text[q] \in Text /\ data \in [Inodes -> Text]
    BY TypedInputs DEF FilesInv, EditInv
  <2>2. WriteOut(q) \/ PatchRenames(q)
    <3>1. ~Crash
      BY <2>1 DEF Crash, FileTypes
    <3>2. PICK r \in Reqs :
            \/ ReadToEdit(r) \/ StartPatch(r) \/ OpenToWrite(r) \/ OpenToCopy(r) \/ ReadToCopy(r)
            \/ WriteOut(r) \/ WriteFails(r) \/ PatchRenames(r) \/ Move(r) \/ Rm(r) \/ NoSuchFile(r)
            \/ StartWalk(r) \/ Visit(r) \/ Drop(r)
      BY <3>1 DEF Next
    <3>3. pc[q] # "walking" /\ ~Is(q, {"mv"}) /\ ~Is(q, {"rm"})
      BY <2>1 DEF OpInv, Is, EditOps
    <3>4. \A to : \A p \in Reqs : Goes(p, to) => p = q /\ to = "200"
      BY <2>1 DEF Goes, FileTypes
    <3>5. ~ReadToEdit(r) /\ ~StartPatch(r)
      BY <3>4 DEF ReadToEdit, StartPatch, ReadsFor, Refuses
    <3>6. ~OpenToWrite(r) /\ ~OpenToCopy(r) /\ ~ReadToCopy(r) /\ ~WriteFails(r)
      BY <3>4 DEF OpenToWrite, OpenToCopy, ReadToCopy, WriteFails
    <3>7. ~NoSuchFile(r) /\ ~StartWalk(r) /\ ~Drop(r)
      BY <3>4 DEF NoSuchFile, StartWalk, Drop
    <3>8. (WriteOut(r) \/ PatchRenames(r) \/ Move(r) \/ Rm(r) \/ Visit(r)) => r = q
      BY <3>4 DEF WriteOut, PatchRenames, Move, Rm, Visit
    <3> QED
      BY <3>2, <3>3, <3>5, <3>6, <3>7, <3>8 DEF Move, Rm, Visit
  <2>3. pc[q] \in {"open", "patching"}
    BY <2>2 DEF WriteOut, PatchRenames
  <2>4. Output(q) = Edited(input[q], text[q]) /\ Means(input[q], text[q], Edited(input[q], text[q]))
    BY <2>1, <2>3, EditedMeans DEF Output, EditOps, HasOld
  <2>5. data'[dir'[Name(q)]] = Output(q)
    <3>1. CASE WriteOut(q)
      <4>1. dir[Name(q)] = fd[q] /\ data[fd[q]] = <<>> /\ fd[q] \in Inodes
        BY <2>1, <3>1 DEF WriteOut, StillEmpty, FilesInv, WritersWrite, Writing
      <4>2. Overlay(Output(q), data[fd[q]]) = Output(q)
        BY <4>1 DEF Overlay
      <4> QED
        BY <2>1, <3>1, <4>1, <4>2 DEF WriteOut
    <3>2. CASE PatchRenames(q)
      BY <2>1, <3>2, InodeFacts DEF PatchRenames, FileTypes
    <3> QED
      BY <2>2, <3>1, <3>2
  <2> QED
    BY <2>4, <2>5
<1> QED
  BY <1>1, InitFiles, NextFiles, InitEdits, NextEdits, PTL DEF Spec, EditsHaveTheirEffect

(***************************************************************************)
(* Patterns                                                                *)
(***************************************************************************)

(* One step of glob_match: the end of what has matched after part i. *)
GlobStep(parts, name, pos, i) ==
  LET part == parts[i]
      next == {k \in Occurs(part, name) : k > pos}
  IN IF pos < 0 \/ part = <<>> THEN pos
     ELSE IF i = 1 THEN IF IsPrefix(part, name) THEN Len(part) ELSE -1
     ELSE IF i = Len(parts) THEN IF IsSuffix(part, name) THEN pos ELSE -1
     ELSE IF next = {} THEN -1 ELSE Min(next) - 1 + Len(part)

(* f[i] is the end of what has matched after i parts. *)
GlobsTo(f, parts, name, k) ==
  f[0] = 0 /\ \A i \in 1..k : f[i] = GlobStep(parts, name, f[i - 1], i)

(* A text occurs at numbers from 1 on. *)
LEMMA OccursType ==
  ASSUME NEW t \in Text, NEW s \in Text
  PROVE  Occurs(t, s) \in SUBSET Nat /\ \A i \in Occurs(t, s) : i >= 1
  BY DEF Occurs, Text

(* A step ends at a number. *)
LEMMA GlobStepType ==
  ASSUME NEW parts \in Seq(Text), NEW name \in Text, NEW pos \in Int, NEW i \in 1..Len(parts)
  PROVE  GlobStep(parts, name, pos, i) \in Int
<1> DEFINE part == parts[i]
           next == {k \in Occurs(part, name) : k > pos}
<1>1. part \in Text
  OBVIOUS
<1>2. Len(part) \in Nat
  BY <1>1 DEF Text
<1>3. next \in SUBSET Nat
  BY <1>1, OccursType
<1>4. next # {} => Min(next) \in Nat
  <2> HIDE DEF next
  <2> QED
    BY <1>3, MinIn
<1>5. GlobStep(parts, name, pos, i) =
        IF pos < 0 \/ part = <<>> THEN pos
        ELSE IF i = 1 THEN IF IsPrefix(part, name) THEN Len(part) ELSE -1
        ELSE IF i = Len(parts) THEN IF IsSuffix(part, name) THEN pos ELSE -1
        ELSE IF next = {} THEN -1 ELSE Min(next) - 1 + Len(part)
  BY DEF GlobStep
<1> HIDE DEF part, next
<1> QED
  BY <1>2, <1>4, <1>5

(* glob_match goes through the parts from the left. *)
LEMMA GlobRun ==
  ASSUME NEW p \in Text, NEW name \in Text
  PROVE  \E f \in [0..Len(Split(p, Star)) -> Int] :
           /\ GlobsTo(f, Split(p, Star), name, Len(Split(p, Star)))
           /\ Len(Split(p, Star)) # 1 =>
                (GlobMatch(p, name) <=> f[Len(Split(p, Star))] >= 0)
<1> DEFINE parts == Split(p, Star)
           n == Len(parts)
           ids == [i \in DOMAIN parts |-> i]
           Eq(it) == it = [x \in SUBSET (DOMAIN ids) |->
                             IF x = {} THEN 0 ELSE GlobStep(parts, name, it[x \ {Max(x)}], ids[Max(x)])]
           st == [y \in Int \X (1..n) |-> GlobStep(parts, name, y[1], y[2])]
<1>1. GlobMatch(p, name) <=>
        IF n = 1 THEN name = p ELSE (CHOOSE it : Eq(it))[DOMAIN ids] >= 0
  BY Zenon DEF GlobMatch, FoldLeftDomain, FoldLeft, MapThenFoldSet, GlobStep
<1>2. parts \in Seq(Text)
  BY SplitAppend, TextsAssumption DEF Parts
<1> HIDE DEF parts
<1>3. n \in Nat /\ DOMAIN parts = 1..n /\ DOMAIN ids = 1..n /\ \A i \in 1..n : ids[i] = i
  BY <1>2
<1> HIDE DEF ids
<1>4. st \in [Int \X (1..n) -> Int]
  BY <1>2, GlobStepType
<1>5. \A v \in Int : \A i \in 1..n : st[<<v, i>>] = GlobStep(parts, name, v, i)
  OBVIOUS
<1> HIDE DEF st, n
<1>6. PICK g \in [SUBSET (1..n) -> Int] : IsFold(g, 0, n, st)
  <2>1. 0 \in Int
    OBVIOUS
  <2> DEFINE zero == 0
  <2>2. zero \in Int
    BY <2>1
  <2> HIDE DEF zero
  <2>3. \E g \in [SUBSET (1..n) -> Int] : IsFold(g, zero, n, st)
    BY <1>3, <1>4, <2>2, Folding
  <2> QED
    BY <2>3 DEF zero
<1>7. ASSUME NEW x \in SUBSET (1..n), x # {} PROVE Max(x) \in x /\ x \ {Max(x)} \in SUBSET (1..n)
  BY <1>3, <1>7, MaxIn
<1>8. ASSUME NEW x \in SUBSET (1..n), x # {}
      PROVE  g[x] = GlobStep(parts, name, g[x \ {Max(x)}], ids[Max(x)])
  <2>1. g[x] = st[<<g[x \ {Max(x)}], Max(x)>>]
    BY <1>6, <1>8 DEF IsFold
  <2>2. g[x \ {Max(x)}] \in Int /\ Max(x) \in 1..n /\ ids[Max(x)] = Max(x)
    BY <1>3, <1>7, <1>8
  <2> QED
    BY <1>5, <2>1, <2>2
<1>9. g = [x \in SUBSET (1..n) |->
             IF x = {} THEN 0 ELSE GlobStep(parts, name, g[x \ {Max(x)}], ids[Max(x)])]
  BY <1>6, <1>8 DEF IsFold
<1>10. Eq(g)
  BY <1>3, <1>9
<1> DEFINE it == CHOOSE it : Eq(it)
<1>11. Eq(it)
  BY <1>10, Zenon
<1>12. /\ it[{}] = 0
       /\ \A x \in SUBSET (1..n) : x # {} =>
            it[x] = GlobStep(parts, name, it[x \ {Max(x)}], ids[Max(x)])
  BY <1>3, <1>11
<1>13. GlobMatch(p, name) <=> IF n = 1 THEN name = p ELSE it[1..n] >= 0
  BY <1>1, <1>3
<1> HIDE DEF it, Eq
<1> DEFINE f == [i \in 0..n |-> it[1..i]]
<1>14. f[0] = 0
  <2>1. 1..0 = {}
    OBVIOUS
  <2> QED
    BY <1>3, <1>12, <2>1
<1>15. ASSUME NEW i \in 1..n PROVE f[i] = GlobStep(parts, name, f[i - 1], i)
  <2>1. 1..i \in SUBSET (1..n) /\ 1..i # {} /\ (1..i) \ {i} = 1..(i - 1)
    BY <1>3
  <2>2. Max(1..i) = i
    <3>1. 1..i \in SUBSET Int /\ i \in 1..i /\ \A y \in 1..i : y <= i
      BY <1>3
    <3> QED
      BY <3>1, MaxIs
  <2>3. it[1..i] = GlobStep(parts, name, it[1..(i - 1)], i)
    <3>1. it[1..i] = GlobStep(parts, name, it[(1..i) \ {Max(1..i)}], ids[Max(1..i)])
      BY <1>12, <2>1
    <3>2. ids[i] = i
      BY <1>3
    <3> QED
      BY <2>1, <2>2, <3>1, <3>2
  <2>4. f[i] = it[1..i] /\ f[i - 1] = it[1..(i - 1)]
    BY <1>3
  <2> QED
    BY <2>3, <2>4
<1>16. f[n] = it[1..n]
  BY <1>3
<1>17. DOMAIN f = 0..n /\ f = [i \in 0..n |-> f[i]]
  OBVIOUS
<1> HIDE DEF f
<1> DEFINE T == {i \in Nat : i <= n => f[i] \in Int}
<1>18. 0 \in T
  BY <1>14
<1>19. ASSUME NEW i \in Nat, i \in T PROVE i + 1 \in T
  <2> SUFFICES ASSUME i + 1 <= n PROVE f[i + 1] \in Int
    OBVIOUS
  <2>1. f[i] \in Int /\ i + 1 \in 1..n /\ (i + 1) - 1 = i
    BY <1>3, <1>19
  <2> QED
    BY <1>2, <1>15, <2>1, GlobStepType DEF n
<1> HIDE DEF T
<1>20. \A i \in Nat : i \in T
  BY <1>18, <1>19, Induction
<1>21. \A i \in 0..n : f[i] \in Int
  BY <1>3, <1>20 DEF T
<1>22. f \in [0..n -> Int]
  BY <1>17, <1>21
<1> QED
  BY <1>13, <1>14, <1>15, <1>16, <1>22 DEF n, parts, GlobsTo

(* What is at the beginning is a prefix. *)
LEMMA PrefixAt ==
  ASSUME NEW t \in Text, NEW s \in Text, Len(t) <= Len(s), SubSeq(s, 1, Len(t)) = t
  PROVE  IsPrefix(t, s)
  BY DEF IsPrefix, Text

(* A text read from its end. *)
LEMMA ReverseType ==
  ASSUME NEW t \in Text
  PROVE  /\ Reverse(t) \in Text /\ Len(Reverse(t)) = Len(t)
         /\ \A i \in 1..Len(t) : Reverse(t)[i] = t[Len(t) - i + 1]
<1>1. Len(t) \in Nat /\ \A i \in 1..Len(t) : Len(t) - i + 1 \in 1..Len(t)
  BY DEF Text
<1>2. \A i \in 1..Len(t) : t[i] \in Chars
  BY DEF Text
<1>3. Reverse(t) = [i \in 1..Len(t) |-> t[(Len(t) - i) + 1]]
  BY DEF Reverse
<1> QED
  BY <1>1, <1>2, <1>3 DEF Text

(* What is at the end is a suffix. *)
LEMMA SuffixAt ==
  ASSUME NEW t \in Text, NEW s \in Text, NEW i \in 1..(Len(s) + 1), i + Len(t) = Len(s) + 1,
         SubSeq(s, i, i + Len(t) - 1) = t
  PROVE  IsSuffix(t, s)
<1> DEFINE u == Reverse(t)
           v == Reverse(s)
           m == Len(t)
           n == Len(s)
<1>1. m \in Nat /\ n \in Nat /\ m <= n /\ i \in 1..(n + 1) /\ i + m = n + 1
  BY DEF Text
<1>2. u \in Text /\ Len(u) = m /\ v \in Text /\ Len(v) = n
  BY ReverseType
<1>3. \A j \in 1..m : t[j] = s[i + j - 1]
  BY <1>1 DEF Text
<1>4. ASSUME NEW j \in 1..m PROVE u[j] = v[j]
  <2>1. m - j + 1 \in 1..m /\ j \in 1..n /\ i + (m - j + 1) - 1 = n - j + 1
    <3> HIDE DEF m, n
    <3> QED
      BY <1>1
  <2>2. u[j] = t[m - j + 1] /\ v[j] = s[n - j + 1]
    BY <2>1, ReverseType
  <2> QED
    BY <1>3, <2>1, <2>2
<1> HIDE DEF u, v, m, n
<1>5. SubSeq(v, 1, m) \in Text /\ Len(SubSeq(v, 1, m)) = m /\ \A j \in 1..m : SubSeq(v, 1, m)[j] = v[j]
  BY <1>1, <1>2 DEF Text
<1>6. SubSeq(v, 1, m) = u
  BY <1>2, <1>4, <1>5, SeqEqual DEF Text
<1>7. SubSeq(u, 1, m) = u
  BY <1>1, <1>2 DEF Text
<1> QED
  BY <1>1, <1>2, <1>6, <1>7 DEF IsSuffix, IsPrefix, u, v

(* Where the parts of a pattern are in a name that fits it. *)
Placed(at, parts, n, k) ==
  /\ \A i \in 1..k : /\ at[i] + Len(parts[i]) <= Len(n) + 1
                    /\ SubSeq(n, at[i], at[i] + Len(parts[i]) - 1) = parts[i]
  /\ at[1] = 1 /\ at[k] + Len(parts[k]) = Len(n) + 1
  /\ \A i \in 2..k : at[i] >= at[i - 1] + Len(parts[i - 1])

(* The search from the left is never behind. *)
LEMMA GlobKeepsUp ==
  ASSUME NEW parts \in Seq(Text), NEW n \in Text, Len(parts) # 1,
         NEW at \in [1..Len(parts) -> 1..(Len(n) + 1)], Placed(at, parts, n, Len(parts)),
         NEW i \in 1..Len(parts), NEW pos \in Int, pos >= 0,
         IF i = 1 THEN pos = 0 ELSE pos <= at[i - 1] + Len(parts[i - 1]) - 1
  PROVE  /\ GlobStep(parts, n, pos, i) >= 0
         /\ GlobStep(parts, n, pos, i) <= at[i] + Len(parts[i]) - 1
<1> DEFINE part == parts[i]
           next == {k \in Occurs(part, n) : k > pos}
           k == Len(parts)
<1>1. part \in Text /\ Len(part) \in Nat /\ Len(n) \in Nat /\ k \in Nat /\ k >= 2
  <2>1. part \in Text /\ k \in Nat /\ k # 0 /\ k # 1
    OBVIOUS
  <2>2. Len(part) \in Nat /\ Len(n) \in Nat
    BY <2>1 DEF Text
  <2> HIDE DEF part, k
  <2> QED
    BY <2>1, <2>2
<1>2. /\ at[i] \in 1..(Len(n) + 1) /\ at[i] + Len(part) <= Len(n) + 1
      /\ SubSeq(n, at[i], at[i] + Len(part) - 1) = part
      /\ (i = 1 => at[i] = 1) /\ (i = k => at[i] + Len(part) = Len(n) + 1)
  BY DEF Placed
<1>3. pos < at[i]
  <2>1. CASE i = 1
    BY <1>2, <2>1
  <2>2. CASE i # 1
    <3>1. i \in 2..k /\ i - 1 \in 1..k
      BY <2>2
    <3>2. at[i] >= at[i - 1] + Len(parts[i - 1])
      BY <3>1 DEF Placed
    <3>3. parts[i - 1] \in Text /\ at[i - 1] \in Int
      BY <3>1
    <3>4. Len(parts[i - 1]) \in Nat
      BY <3>3 DEF Text
    <3> QED
      BY <1>2, <2>2, <3>2, <3>3, <3>4
  <2> QED
    BY <2>1, <2>2
<1>4. GlobStep(parts, n, pos, i) =
        IF pos < 0 \/ part = <<>> THEN pos
        ELSE IF i = 1 THEN IF IsPrefix(part, n) THEN Len(part) ELSE -1
        ELSE IF i = k THEN IF IsSuffix(part, n) THEN pos ELSE -1
        ELSE IF next = {} THEN -1 ELSE Min(next) - 1 + Len(part)
  BY DEF GlobStep
<1>5. i = 1 => IsPrefix(part, n)
  <2> SUFFICES ASSUME i = 1 PROVE IsPrefix(part, n)
    OBVIOUS
  <2> HIDE DEF part
  <2>1. SubSeq(n, 1, Len(part)) = part /\ Len(part) <= Len(n)
    <3>1. at[i] = 1 /\ 1 + Len(part) - 1 = Len(part)
      BY <1>1, <1>2
    <3>2. 1 + Len(part) <= Len(n) + 1
      BY <1>2, <3>1
    <3>3. SubSeq(n, 1, 1 + Len(part) - 1) = part
      BY <1>2, <3>1
    <3> QED
      BY <1>1, <3>1, <3>2, <3>3
  <2> QED
    BY <1>1, <2>1, PrefixAt
<1>6. i = k => IsSuffix(part, n)
  <2> HIDE DEF part, k
  <2> QED
    BY <1>1, <1>2, SuffixAt
<1>7. at[i] \in next
  <2> HIDE DEF part, k
  <2>1. at[i] \in 1..(Len(n) + 1 - Len(part))
    BY <1>1, <1>2
  <2>2. at[i] \in Occurs(part, n)
    BY <1>2, <2>1 DEF Occurs
  <2> QED
    BY <1>3, <2>2
<1>8. next \in SUBSET Nat /\ \A x \in next : x > pos
  BY <1>1, OccursType
<1> HIDE DEF part, next, k
<1>9. Min(next) \in next /\ Min(next) <= at[i]
  BY <1>7, <1>8, MinIn
<1>10. Min(next) \in Nat /\ Min(next) > pos
  BY <1>8, <1>9
<1> DEFINE l == Len(part)
           a == at[i]
           r == GlobStep(parts, n, pos, i)
           least == Min(next)
<1>11. l \in Nat /\ a \in Nat /\ least \in Nat /\ pos < a /\ least <= a /\ least > pos /\ next # {}
  BY <1>1, <1>2, <1>3, <1>7, <1>9, <1>10
<1>12. r = IF pos < 0 \/ part = <<>> THEN pos
           ELSE IF i = 1 THEN l
           ELSE IF i = k THEN pos
           ELSE least - 1 + l
  BY <1>4, <1>5, <1>6, <1>11
<1>13. i = 1 => a = 1
  BY <1>2
<1> HIDE DEF l, a, r, least
<1>14. r >= 0 /\ r <= a + l - 1
  BY <1>11, <1>12, <1>13
<1> QED
  BY <1>14 DEF l, a, r, part

(* A name that fits is matched. *)
LEMMA GlobFinds ==
  ASSUME NEW p \in Text, NEW n \in Text, Fits(p, n)
  PROVE  Occurs(p, n) # {} \/ GlobMatch(p, n)
<1> DEFINE parts == Split(p, Star)
           k == Len(parts)
<1>1. parts \in Seq(Text) /\ parts # <<>>
  BY SplitAppend, TextsAssumption DEF Parts
<1>2. CASE k = 1
  BY <1>2 DEF Fits
<1>3. CASE k # 1
  <2>1. PICK at \in [1..k -> 1..(Len(n) + 1)] : Placed(at, parts, n, k)
    BY <1>3 DEF Fits, Placed
  <2>2. PICK f \in [0..k -> Int] :
          GlobsTo(f, parts, n, k) /\ (GlobMatch(p, n) <=> f[k] >= 0)
    BY <1>3, GlobRun
  <2> HIDE DEF parts
  <2> DEFINE T == {i \in Nat : i \in 1..k => f[i] >= 0 /\ f[i] <= at[i] + Len(parts[i]) - 1}
  <2>3. 0 \in T
    OBVIOUS
  <2>4. ASSUME NEW i \in Nat, i \in T PROVE i + 1 \in T
    <3> SUFFICES ASSUME i + 1 \in 1..k
                 PROVE  f[i + 1] >= 0 /\ f[i + 1] <= at[i + 1] + Len(parts[i + 1]) - 1
      OBVIOUS
    <3>1. (i + 1) - 1 = i /\ i \in 0..k /\ (i # 0 => i \in 1..k) /\ (i + 1 = 1 <=> i = 0)
      BY <1>1
    <3>2. f[i + 1] = GlobStep(parts, n, f[i], i + 1) /\ f[0] = 0 /\ f[i] \in Int
      BY <2>2, <3>1 DEF GlobsTo
    <3>3. f[i] >= 0
      BY <2>4, <3>1, <3>2
    <3>4. IF i + 1 = 1 THEN f[i] = 0 ELSE f[i] <= at[(i + 1) - 1] + Len(parts[(i + 1) - 1]) - 1
      BY <2>4, <3>1, <3>2
    <3> QED
      BY <1>1, <1>3, <2>1, <3>2, <3>3, <3>4, GlobKeepsUp
  <2> HIDE DEF T
  <2>5. \A i \in Nat : i \in T
    BY <2>3, <2>4, Induction
  <2>6. k \in Nat /\ k \in 1..k
    BY <1>1
  <2>7. f[k] >= 0
    BY <2>5, <2>6 DEF T
  <2> QED
    BY <2>2, <2>7
<1> QED
  BY <1>2, <1>3

(***************************************************************************)
(* Walks                                                                   *)
(***************************************************************************)

(* A walk has found what fits among the names it has come to and that were there *)
(* all along, and it comes to every name. *)
Walked(q) ==
  /\ pc[q] = "asked" => ahead[q] = Names
  /\ pc[q] \in {"walking", "200"} /\ input[q].op = "find" =>
       \A n \in stayed[q] \ ahead[q] : Fits(input[q].pattern, n) => n \in found[q]
  /\ pc[q] = "200" /\ input[q].op = "find" => ahead[q] = {}
  /\ \A n \in stayed[q] : dir[n] # NULL

(* The inductive invariant of the walks. *)
WalkInv ==
  /\ found \in [Reqs -> SUBSET Names] /\ ahead \in [Reqs -> SUBSET Names]
  /\ stayed \in [Reqs -> SUBSET Names]
  /\ \A q \in Reqs : Walked(q)

(* It holds at first. *)
LEMMA InitWalks == Init => WalkInv
  BY DEF Init, WalkInv, Walked

(* What Noted says of the names that have stayed. *)
LEMMA NotedStayed ==
  ASSUME WalkInv, NEW r \in Reqs, Noted(r)
  PROVE  /\ stayed' \in [Reqs -> SUBSET Names]
         /\ \A q \in Reqs : stayed'[q] \subseteq stayed[q] /\ \A n \in stayed'[q] : dir'[n] # NULL
<1>1. stayed' = [q \in Reqs |-> {n \in stayed[q] : dir'[n] # NULL}]
  BY DEF Noted
<1>2. stayed \in [Reqs -> SUBSET Names]
  BY DEF WalkInv
<1> QED
  BY <1>1, <1>2

(* A step that is no step of a walk. *)
LEMMA NoWalkStep ==
  ASSUME FileTypes, WalkInv, UNCHANGED <<input, found, ahead>>,
         stayed' \in [Reqs -> SUBSET Names],
         \A q \in Reqs : stayed'[q] \subseteq stayed[q] /\ \A n \in stayed'[q] : dir'[n] # NULL,
         \A q \in Reqs : \/ pc'[q] = pc[q] \/ pc'[q] \notin {"asked", "walking", "200"}
                         \/ pc'[q] = "200" /\ input[q].op # "find"
  PROVE  WalkInv'
<1>1. ASSUME NEW q \in Reqs PROVE Walked(q)'
  <2>1. Walked(q)
    BY DEF WalkInv
  <2>2. /\ stayed'[q] \subseteq stayed[q] /\ \A n \in stayed'[q] : dir'[n] # NULL
        /\ ahead'[q] = ahead[q] /\ found'[q] = found[q] /\ input'[q] = input[q]
    OBVIOUS
  <2>3. CASE pc'[q] = pc[q]
    BY <2>1, <2>2, <2>3 DEF Walked
  <2>4. CASE pc'[q] \notin {"asked", "walking", "200"}
    BY <2>2, <2>4 DEF Walked
  <2>5. CASE pc'[q] = "200" /\ input[q].op # "find"
    BY <2>2, <2>5 DEF Walked
  <2> QED
    BY <2>3, <2>4, <2>5
<1> QED
  BY <1>1 DEF WalkInv

(* A walk comes to the next name. *)
LEMMA VisitStep ==
  ASSUME FileTypes, EditInv, WalkInv, NEW q \in Reqs, Visit(q)
  PROVE  WalkInv'
<1> DEFINE p == input[q].pattern
<1>1. PICK n \in ahead[q] :
         /\ ahead' = [ahead EXCEPT ![q] = @ \ {n}]
         /\ found' = IF dir[n] # NULL /\ (Occurs(p, n) # {} \/ GlobMatch(p, n))
                     THEN [found EXCEPT ![q] = @ \union {n}] ELSE found
  BY DEF Visit
<1>2. /\ pc[q] = "walking" /\ Goes(q, IF ahead'[q] = {} THEN "200" ELSE "walking")
      /\ UNCHANGED <<dir, input, stayed>>
  BY DEF Visit, Harmless
<1>3. n \in Names /\ n \in Text /\ p \in Text
  BY TextsAssumption DEF WalkInv, FileTypes
<1>4. Fits(p, n) /\ dir[n] # NULL => dir[n] # NULL /\ (Occurs(p, n) # {} \/ GlobMatch(p, n))
  BY <1>3, GlobFinds
<1> HIDE DEF p
<1>5. /\ ahead'[q] = ahead[q] \ {n} /\ found[q] \subseteq found'[q]
      /\ (Fits(p, n) /\ dir[n] # NULL => n \in found'[q])
      /\ \A r \in Reqs \ {q} : ahead'[r] = ahead[r] /\ found'[r] = found[r]
  BY <1>1, <1>4 DEF WalkInv
<1>6. found' \in [Reqs -> SUBSET Names] /\ ahead' \in [Reqs -> SUBSET Names]
  BY <1>1, <1>3 DEF WalkInv
<1>7. /\ pc'[q] = IF ahead'[q] = {} THEN "200" ELSE "walking"
      /\ \A r \in Reqs \ {q} : pc'[r] = pc[r]
  BY <1>2 DEF Goes, FileTypes
<1>8. input[q].op = "find" /\ Walked(q)
  BY <1>2 DEF EditInv, OpInv, WalkInv
<1>9. Walked(q)'
  <2>1. \A m \in stayed[q] \ ahead'[q] : Fits(p, m) => m \in found'[q]
    <3> SUFFICES ASSUME NEW m \in stayed[q] \ ahead'[q], Fits(p, m) PROVE m \in found'[q]
      OBVIOUS
    <3>1. CASE m = n
      <4>1. dir[n] # NULL
        BY <1>8, <3>1 DEF Walked
      <4> QED
        BY <1>5, <3>1, <4>1
    <3>2. CASE m # n
      BY <1>2, <1>5, <1>8, <3>2 DEF Walked, p
    <3> QED
      BY <3>1, <3>2
  <2> QED
    BY <1>2, <1>7, <1>8, <2>1 DEF Walked, p
<1>10. ASSUME NEW r \in Reqs \ {q} PROVE Walked(r)'
  <2>1. Walked(r)
    BY DEF WalkInv
  <2> QED
    BY <1>2, <1>5, <1>7, <2>1 DEF Walked
<1>11. stayed' \in [Reqs -> SUBSET Names]
  BY <1>2 DEF WalkInv
<1>12. \A r \in Reqs : Walked(r)'
  BY <1>9, <1>10
<1> QED
  BY <1>6, <1>11, <1>12 DEF WalkInv

(* Every step keeps it. *)
LEMMA NextWalks == FilesInv /\ EditInv /\ WalkInv /\ [Next]_vars => WalkInv'
<1> SUFFICES ASSUME FilesInv, EditInv, WalkInv, [Next]_vars PROVE WalkInv'
  OBVIOUS
<1>0. /\ FileTypes /\ found \in [Reqs -> SUBSET Names] /\ ahead \in [Reqs -> SUBSET Names]
      /\ stayed \in [Reqs -> SUBSET Names]
  BY DEF FilesInv, WalkInv
<1>a. ASSUME NEW q \in Reqs, NEW to, Goes(q, to)
      PROVE  pc'[q] = to /\ \A r \in Reqs \ {q} : pc'[r] = pc[r]
  BY <1>0, <1>a DEF Goes, FileTypes
<1>b. ASSUME UNCHANGED <<dir, stayed>>
      PROVE  /\ stayed' \in [Reqs -> SUBSET Names]
             /\ \A q \in Reqs : stayed'[q] \subseteq stayed[q] /\ \A n \in stayed'[q] : dir'[n] # NULL
  BY <1>0, <1>b DEF WalkInv, Walked
<1>1. ASSUME NEW q \in Reqs,
             ReadToEdit(q) \/ StartPatch(q) \/ ReadToCopy(q) \/ NoSuchFile(q) \/ Drop(q)
      PROVE  WalkInv'
  <2>1. UNCHANGED <<dir, stayed, input, found, ahead>>
    BY <1>1 DEF ReadToEdit, StartPatch, ReadToCopy, NoSuchFile, Drop, Harmless, walkVars
  <2>2. PICK to \in {"404", "422", "patching", "edit", "open", "500", "dropped"} : Goes(q, to)
    BY <1>1 DEF ReadToEdit, StartPatch, ReadsFor, Refuses, ReadToCopy, NoSuchFile, Drop
  <2>3. \A r \in Reqs : pc'[r] = pc[r] \/ pc'[r] \notin {"asked", "walking", "200"}
    BY <1>a, <2>2
  <2> QED
    BY <1>0, <1>b, <2>1, <2>3, NoWalkStep
<1>2. ASSUME NEW q \in Reqs, OpenToWrite(q) \/ OpenToCopy(q) \/ WriteFails(q) PROVE WalkInv'
  <2>1. UNCHANGED <<input, found, ahead>> /\ Noted(q)
    BY <1>2 DEF OpenToWrite, OpenToCopy, WriteFails
  <2>2. PICK to \in {"open", "copying", "500"} : Goes(q, to)
    BY <1>2 DEF OpenToWrite, OpenToCopy, WriteFails
  <2>3. \A r \in Reqs : pc'[r] = pc[r] \/ pc'[r] \notin {"asked", "walking", "200"}
    BY <1>a, <2>2
  <2> QED
    BY <1>0, <2>1, <2>3, NotedStayed, NoWalkStep
<1>3. ASSUME NEW q \in Reqs, WriteOut(q) \/ PatchRenames(q) \/ Move(q) \/ Rm(q) PROVE WalkInv'
  <2>1. UNCHANGED <<input, found, ahead>> /\ Noted(q) /\ Goes(q, "200")
    BY <1>3 DEF WriteOut, PatchRenames, Move, Rm
  <2>2. input[q].op # "find"
    <3>1. OpInv(q)
      BY DEF EditInv
    <3> QED
      BY <1>3, <3>1 DEF WriteOut, PatchRenames, Move, Rm, Is, OpInv, EditOps
  <2>3. \A r \in Reqs : pc'[r] = pc[r] \/ (pc'[r] = "200" /\ input[r].op # "find")
    BY <1>a, <2>1, <2>2
  <2> QED
    BY <1>0, <2>1, <2>3, NotedStayed, NoWalkStep
<1>4. ASSUME NEW q \in Reqs, StartWalk(q) PROVE WalkInv'
  <2>1. /\ pc[q] = "asked" /\ Goes(q, "walking") /\ UNCHANGED <<dir, input, found, ahead>>
        /\ stayed' = [stayed EXCEPT ![q] = {n \in Names : dir[n] # NULL}]
    BY <1>4 DEF StartWalk, Harmless, Is
  <2>2. /\ stayed' \in [Reqs -> SUBSET Names] /\ stayed'[q] = {n \in Names : dir[n] # NULL}
        /\ \A r \in Reqs \ {q} : stayed'[r] = stayed[r]
    BY <1>0, <2>1
  <2>3. pc'[q] = "walking" /\ \A r \in Reqs \ {q} : pc'[r] = pc[r]
    BY <1>a, <2>1
  <2>4. ahead[q] = Names
    BY <2>1 DEF WalkInv, Walked
  <2>5. Walked(q)'
    BY <2>1, <2>2, <2>3, <2>4 DEF Walked
  <2>6. ASSUME NEW r \in Reqs \ {q} PROVE Walked(r)'
    <3>1. Walked(r)
      BY DEF WalkInv
    <3> QED
      BY <2>1, <2>2, <2>3, <3>1 DEF Walked
  <2>7. \A r \in Reqs : Walked(r)'
    BY <2>5, <2>6
  <2> QED
    BY <1>0, <2>1, <2>2, <2>7 DEF WalkInv
<1>5. ASSUME Crash PROVE WalkInv'
  <2>1. UNCHANGED <<dir, stayed, input, found, ahead>>
    BY <1>5 DEF Crash, walkVars
  <2>2. \A r \in Reqs : pc'[r] = pc[r] \/ pc'[r] \notin {"asked", "walking", "200"}
    BY <1>5 DEF Crash
  <2> QED
    BY <1>0, <1>b, <2>1, <2>2, NoWalkStep
<1>6. CASE UNCHANGED vars
  BY <1>6 DEF vars, WalkInv, Walked
<1> QED
  BY <1>0, <1>1, <1>2, <1>3, <1>4, <1>5, <1>6, VisitStep DEF Next

(* A walk misses no name that fits and that was there from its start to its end:  *)
(* for every pattern and every name, whatever the other requests do meanwhile.     *)
THEOREM WalksMissNothing == Spec => []FindMissesNothing
<1>1. WalkInv => FindMissesNothing
  BY DEF WalkInv, Walked, FindMissesNothing
<1> QED
  BY <1>1, InitFiles, NextFiles, InitEdits, NextEdits, InitWalks, NextWalks, PTL DEF Spec

=============================================================================
