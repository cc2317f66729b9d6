------------------------ MODULE AgentSessionsProofs ------------------------
(***************************************************************************)
(* Proofs about AgentSessions: what an exec can rely on while it waits, and *)
(* what the sessions_open gauge is worth.                                  *)
(***************************************************************************)
EXTENDS AgentSessions, FiniteSetTheorems, TLAPS

(* The sessions counted and not yet counted, the closes not yet counted.    *)
Ever == store \cup reaped
Uncounted == {s \in Sessions : opener[s] = "inserted"}
Removed == {c \in Closes : closer[c].pc = "removed"}

Types ==
  /\ store \in SUBSET Sessions
  /\ idle \in [Sessions -> 0..IdleLimit]
  /\ opener \in [Sessions -> {"idle", "spawned", "inserted", "replied"}]
  /\ exec \in [Execs -> [pc : {"writing", "waiting", "replied"}, session : Sessions] \cup {NoSession}]
  /\ closer \in [Closes -> [pc : {"removing", "removed", "replied"}, session : Sessions]
                             \cup {NoSession}]
  /\ reaper \in SUBSET Shards
  /\ gauge \in Int
  /\ reaped \in SUBSET Sessions

(* An id is inserted once, after which it is in the store, or the idle      *)
(* check has dropped it, or a close has removed it.                         *)
InsertedOnce ==
  /\ \A s \in Ever : opener[s] \in {"inserted", "replied"}
  /\ store \cap reaped = {}

(* What an open and a close have still to count makes up the difference.    *)
GaugeCounts ==
  gauge + Cardinality(Uncounted) = Cardinality(Ever) + Cardinality(Removed)

SessionsInv == Types /\ InUseStays /\ InsertedOnce /\ GaugeCounts

-----------------------------------------------------------------------------

LEMMA FiniteSessionSets ==
  ASSUME Types
  PROVE  /\ IsFiniteSet(store) /\ IsFiniteSet(reaped)
         /\ IsFiniteSet(Ever) /\ Cardinality(Ever) \in Nat
         /\ IsFiniteSet(Uncounted) /\ Cardinality(Uncounted) \in Nat
         /\ IsFiniteSet(Removed) /\ Cardinality(Removed) \in Nat
<1>1. Ever \in SUBSET Sessions /\ store \in SUBSET Sessions /\ reaped \in SUBSET Sessions
  BY DEF Types, Ever
<1>2. Uncounted \in SUBSET Sessions /\ Removed \in SUBSET Closes
  BY DEF Uncounted, Removed
<1>3. IsFiniteSet(store) /\ IsFiniteSet(reaped) /\ IsFiniteSet(Ever)
  BY <1>1, SessionsAssumption, FS_Subset
<1>4. IsFiniteSet(Uncounted) /\ IsFiniteSet(Removed)
  BY <1>2, SessionsAssumption, FS_Subset
<1> QED
  BY <1>3, <1>4, FS_CardinalityType

LEMMA InitTypes == Init => Types
<1> SUFFICES ASSUME Init PROVE Types
  OBVIOUS
<1>1. 0 \in 0..IdleLimit
  BY SessionsAssumption
<1> QED
  BY <1>1 DEF Init, Types

LEMMA NextTypes ==
  ASSUME Types, [Next]_vars
  PROVE  Types'
<1> USE SessionsAssumption DEF Types
<1>1. 0 \in 0..IdleLimit
  OBVIOUS
<1>2. ASSUME NEW s \in Sessions, Open(s) PROVE Types'
  BY <1>1, <1>2 DEF Open, OpenFails, OpenShell, Insert, CountOpen
<1>3. ASSUME NEW e \in Execs, Exec(e) PROVE Types'
  <2>1. ASSUME NEW s \in Sessions, ExecStarts(e, s) PROVE Types'
    BY <1>1, <2>1 DEF ExecStarts
  <2>2. ASSUME ExecWrites(e) \/ ExecWriteFails(e) \/ ExecAnswers(e) \/ ExecGivesUp(e) PROVE Types'
    <3>1. exec[e] \in [pc : {"writing", "waiting", "replied"}, session : Sessions]
      BY <2>2 DEF ExecWrites, ExecWriteFails, ExecAnswers, ExecGivesUp, NoSession
    <3>2. PICK pc \in {"waiting", "replied"} : exec' = [exec EXCEPT ![e].pc = pc]
      BY <2>2 DEF ExecWrites, ExecWriteFails, ExecAnswers, ExecGivesUp
    <3>3. exec' \in [Execs -> [pc : {"writing", "waiting", "replied"}, session : Sessions]
                               \cup {NoSession}]
      BY <3>1, <3>2
    <3>4. idle' \in [Sessions -> 0..IdleLimit]
      BY <1>1, <2>2, <3>1 DEF ExecWrites, ExecWriteFails, ExecAnswers, ExecGivesUp
    <3> QED
      BY <2>2, <3>3, <3>4 DEF ExecWrites, ExecWriteFails, ExecAnswers, ExecGivesUp
  <2> QED
    BY <1>3, <2>1, <2>2 DEF Exec
<1>4. ASSUME NEW c \in Closes, Close(c) PROVE Types'
  <2>1. ASSUME NEW s \in Sessions, CloseArrives(c, s) PROVE Types'
    BY <2>1 DEF CloseArrives
  <2>2. ASSUME Remove(c) \/ CountClose(c) PROVE Types'
    <3>1. closer[c] \in [pc : {"removing", "removed", "replied"}, session : Sessions]
      BY <2>2 DEF Remove, CountClose, NoSession
    <3>2. closer' \in [Closes -> [pc : {"removing", "removed", "replied"}, session : Sessions]
                                   \cup {NoSession}]
      BY <2>2, <3>1 DEF Remove, CountClose
    <3> QED
      BY <2>2, <3>2 DEF Remove, CountClose
  <2> QED
    BY <1>4, <2>1, <2>2 DEF Close
<1>5. CASE Reaper
  BY <1>5 DEF Reaper, ReaperWakes, Reap
<1>6. CASE Tick
  BY <1>6 DEF Tick, Aging
<1>7. CASE UNCHANGED vars
  BY <1>7 DEF vars
<1> QED
  BY <1>2, <1>3, <1>4, <1>5, <1>6, <1>7 DEF Next

-----------------------------------------------------------------------------

(* Nobody but a holder of no guard takes a session out of the store.        *)
LEMMA NextInUse ==
  ASSUME Types, Types', InUseStays, [Next]_vars
  PROVE  InUseStays'
<1> USE DEF InUseStays
<1>1. ASSUME NEW s \in Sessions, Open(s) PROVE InUseStays'
  BY <1>1 DEF Open, OpenFails, OpenShell, Insert, CountOpen, InFlight, Types
<1>2. ASSUME NEW e \in Execs, Exec(e) PROVE InUseStays'
  <2>1. ASSUME NEW s \in Sessions, ExecStarts(e, s) PROVE InUseStays'
    BY <2>1 DEF ExecStarts, InFlight, Types
  <2>2. ASSUME ExecWrites(e) \/ ExecWriteFails(e) \/ ExecAnswers(e) \/ ExecGivesUp(e)
        PROVE  InUseStays'
    <3>1. /\ store' = store
          /\ \/ exec' = [exec EXCEPT ![e].pc = "replied"]
             \/ exec[e].pc = "writing" /\ exec' = [exec EXCEPT ![e].pc = "waiting"]
      BY <2>2 DEF ExecWrites, ExecWriteFails, ExecAnswers, ExecGivesUp
    <3>2. ASSUME NEW s \in Sessions, InFlight(s)' PROVE InFlight(s)
      BY <3>1, <3>2 DEF InFlight, Types
    <3> QED
      BY <3>1, <3>2
  <2> QED
    BY <1>2, <2>1, <2>2 DEF Exec
<1>3. ASSUME NEW c \in Closes, Close(c) PROVE InUseStays'
  <2>1. ASSUME NEW s \in Sessions, CloseArrives(c, s) PROVE InUseStays'
    BY <2>1 DEF CloseArrives, InFlight
  <2>2. ASSUME Remove(c) PROVE InUseStays'
    <3> DEFINE t == closer[c].session
    <3>1. t \in Sessions
      BY <2>2 DEF Remove, Types, NoSession
    <3>2. ~InFlight(t) /\ store' = store \ {t} /\ exec' = exec
      BY <2>2, <3>1 DEF Remove, Guarded
    <3> QED
      BY <3>2 DEF InFlight
  <2>3. ASSUME CountClose(c) PROVE InUseStays'
    BY <2>3 DEF CountClose, InFlight
  <2> QED
    BY <1>3, <2>1, <2>2, <2>3 DEF Close
<1>4. CASE ReaperWakes \/ Tick \/ UNCHANGED vars
  BY <1>4 DEF ReaperWakes, Tick, vars, InFlight
<1>5. ASSUME NEW shard \in Shards, Reap(shard) PROVE InUseStays'
  <2>1. ASSUME NEW s \in Sessions, InFlight(s) PROVE ShardOf[s] # shard
    BY <1>5, <2>1 DEF Reap, Guarded
  <2> QED
    BY <1>5, <2>1 DEF Reap, InFlight
<1> QED
  BY <1>1, <1>2, <1>3, <1>4, <1>5 DEF Next, Reaper

LEMMA NextInsertedOnce ==
  ASSUME Types, InsertedOnce, [Next]_vars
  PROVE  InsertedOnce'
<1> USE DEF InsertedOnce, Ever, Types
<1>1. ASSUME NEW s \in Sessions, Open(s) PROVE InsertedOnce'
  BY <1>1 DEF Open, OpenFails, OpenShell, Insert, CountOpen
<1>2. ASSUME NEW e \in Execs, Exec(e) PROVE InsertedOnce'
  BY <1>2 DEF Exec, ExecStarts, ExecWrites, ExecWriteFails, ExecAnswers, ExecGivesUp
<1>3. ASSUME NEW c \in Closes, Close(c) PROVE InsertedOnce'
  BY <1>3 DEF Close, CloseArrives, Remove, CountClose
<1>4. CASE Reaper
  BY <1>4 DEF Reaper, ReaperWakes, Reap
<1>5. CASE Tick \/ UNCHANGED vars
  BY <1>5 DEF Tick, vars
<1> QED
  BY <1>1, <1>2, <1>3, <1>4, <1>5 DEF Next

-----------------------------------------------------------------------------

LEMMA NextGauge ==
  ASSUME Types, Types', InsertedOnce, GaugeCounts, [Next]_vars
  PROVE  GaugeCounts'
<1> DEFINE Counted ==
      /\ gauge \in Int
      /\ IsFiniteSet(Ever) /\ Cardinality(Ever) \in Nat
      /\ IsFiniteSet(Uncounted) /\ Cardinality(Uncounted) \in Nat
      /\ IsFiniteSet(Removed) /\ Cardinality(Removed) \in Nat
<1>0. Counted
  BY FiniteSessionSets DEF Types
<1> USE <1>0 DEF GaugeCounts
<1>1. ASSUME gauge' = gauge, Ever' = Ever, Uncounted' = Uncounted, Removed' = Removed
      PROVE  GaugeCounts'
  BY <1>1
<1>2. ASSUME NEW s \in Sessions, Insert(s) PROVE GaugeCounts'
  <2>1. gauge' = gauge /\ Removed' = Removed
    BY <1>2 DEF Insert, Removed
  <2>2. Ever' = Ever \cup {s} /\ s \notin Ever
    BY <1>2 DEF Insert, Ever, InsertedOnce
  <2>3. Uncounted' = Uncounted \cup {s} /\ s \notin Uncounted
    BY <1>2 DEF Insert, Uncounted, Types
  <2>4. Cardinality(Ever') = Cardinality(Ever) + 1
    BY <2>2, FS_AddElement
  <2>5. Cardinality(Uncounted') = Cardinality(Uncounted) + 1
    BY <2>3, FS_AddElement
  <2> QED
    BY <2>1, <2>4, <2>5
<1>3. ASSUME NEW s \in Sessions, CountOpen(s) PROVE GaugeCounts'
  <2>1. gauge' = gauge + 1 /\ Removed' = Removed /\ Ever' = Ever
    BY <1>3 DEF CountOpen, Removed, Ever
  <2>2. Uncounted' = Uncounted \ {s} /\ s \in Uncounted
    BY <1>3 DEF CountOpen, Uncounted, Types
  <2>3. Cardinality(Uncounted') = Cardinality(Uncounted) - 1
    BY <2>2, FS_RemoveElement
  <2> QED
    BY <2>1, <2>3
<1>4. ASSUME NEW c \in Closes, Remove(c) PROVE GaugeCounts'
  <2> DEFINE t == closer[c].session
  <2>1. gauge' = gauge /\ Uncounted' = Uncounted
    BY <1>4 DEF Remove, Uncounted
  <2>2. CASE t \in store
    <3>1. Ever' = Ever \ {t} /\ t \in Ever
      BY <1>4, <2>2 DEF Remove, Ever, InsertedOnce
    <3>2. Removed' = Removed \cup {c} /\ c \notin Removed
      BY <1>4, <2>2 DEF Remove, Removed, Types
    <3>3. Cardinality(Ever') = Cardinality(Ever) - 1
      BY <3>1, FS_RemoveElement
    <3>4. Cardinality(Removed') = Cardinality(Removed) + 1
      BY <3>2, FS_AddElement
    <3> QED
      BY <2>1, <3>3, <3>4
  <2>3. CASE t \notin store
    <3>1. Ever' = Ever /\ Removed' = Removed
      BY <1>4, <2>3 DEF Remove, Ever, Removed, Types
    <3> QED
      BY <1>1, <2>1, <3>1
  <2> QED
    BY <2>2, <2>3
<1>5. ASSUME NEW c \in Closes, CountClose(c) PROVE GaugeCounts'
  <2>1. gauge' = gauge - 1 /\ Uncounted' = Uncounted /\ Ever' = Ever
    BY <1>5 DEF CountClose, Uncounted, Ever
  <2>2. Removed' = Removed \ {c} /\ c \in Removed
    BY <1>5 DEF CountClose, Removed, Types
  <2>3. Cardinality(Removed') = Cardinality(Removed) - 1
    BY <2>2, FS_RemoveElement
  <2> QED
    BY <2>1, <2>3
<1>6. ASSUME NEW s \in Sessions, OpenFails(s) \/ OpenShell(s) PROVE GaugeCounts'
  <2>1. Uncounted' = Uncounted
    BY <1>6 DEF OpenFails, OpenShell, Uncounted, Types
  <2> QED
    BY <1>1, <1>6, <2>1 DEF OpenFails, OpenShell, Ever, Removed
<1>7. ASSUME NEW e \in Execs, Exec(e) PROVE GaugeCounts'
  BY <1>1, <1>7 DEF Exec, ExecStarts, ExecWrites, ExecWriteFails, ExecAnswers, ExecGivesUp,
     Ever, Uncounted, Removed
<1>8. ASSUME NEW c \in Closes, NEW s \in Sessions, CloseArrives(c, s) PROVE GaugeCounts'
  <2>1. Removed' = Removed
    BY <1>8 DEF CloseArrives, Removed, Types
  <2> QED
    BY <1>1, <1>8, <2>1 DEF CloseArrives, Ever, Uncounted
<1>9. CASE Reaper
  <2>1. Ever' = Ever
    BY <1>9 DEF Reaper, ReaperWakes, Reap, Ever
  <2> QED
    BY <1>1, <1>9, <2>1 DEF Reaper, ReaperWakes, Reap, Uncounted, Removed
<1>10. CASE Tick \/ UNCHANGED vars
  BY <1>1, <1>10 DEF Tick, vars, Ever, Uncounted, Removed
<1> QED
  BY <1>2, <1>3, <1>4, <1>5, <1>6, <1>7, <1>8, <1>9, <1>10 DEF Next, Open, Close

LEMMA InitInv == Init => SessionsInv
<1> SUFFICES ASSUME Init PROVE SessionsInv
  OBVIOUS
<1>1. InUseStays /\ InsertedOnce
  BY DEF Init, InUseStays, InFlight, NoSession, InsertedOnce, Ever
<1>2. Ever = {} /\ Uncounted = {} /\ Removed = {} /\ gauge = 0
  BY DEF Init, Ever, Uncounted, Removed, NoSession
<1>3. GaugeCounts
  BY <1>2, FS_EmptySet DEF GaugeCounts
<1> QED
  BY <1>1, <1>3, InitTypes DEF SessionsInv

LEMMA SessionsInvariant == Spec => []SessionsInv
<1>1. SessionsInv /\ [Next]_vars => SessionsInv'
  BY NextTypes, NextInUse, NextInsertedOnce, NextGauge DEF SessionsInv
<1> QED
  BY <1>1, InitInv, PTL DEF Spec

-----------------------------------------------------------------------------

(* Sessions, requests and the gauge keep their types; the gauge stays       *)
(* within the number of requests, however opens, closes and the idle check  *)
(* are interleaved.                                                         *)
THEOREM SessionTypes == Spec => []TypeOK
<1>1. SessionsInv => TypeOK
  <2> SUFFICES ASSUME SessionsInv PROVE TypeOK
    OBVIOUS
  <2> USE DEF SessionsInv
  <2>1. Cardinality(Ever) <= Cardinality(Sessions) /\ Cardinality(Uncounted) <= Cardinality(Sessions)
    <3>1. Ever \in SUBSET Sessions /\ Uncounted \in SUBSET Sessions
      BY DEF Types, Ever, Uncounted
    <3> QED
      BY <3>1, SessionsAssumption, FS_Subset
  <2>2. Cardinality(Removed) <= Cardinality(Closes)
    <3>1. Removed \in SUBSET Closes
      BY DEF Removed
    <3> QED
      BY <3>1, SessionsAssumption, FS_Subset
  <2>3. Cardinality(Sessions) \in Nat /\ Cardinality(Closes) \in Nat
    BY SessionsAssumption, FS_CardinalityType
  <2>4. gauge \in -Cardinality(Sessions)..Cardinality(Sessions) + Cardinality(Closes)
    BY <2>1, <2>2, <2>3, FiniteSessionSets DEF GaugeCounts, Types
  <2> QED
    BY <2>4 DEF TypeOK, Types
<1> QED
  BY <1>1, SessionsInvariant, PTL

(* While an exec writes its line or awaits its output its session stays in   *)
(* the store: neither delete_session nor the idle check removes it.         *)
THEOREM SessionsInUseStay == Spec => []InUseStays
<1>1. SessionsInv => InUseStays
  BY DEF SessionsInv
<1> QED
  BY <1>1, SessionsInvariant, PTL

(* sessions_open counts every session of the store but those whose open     *)
(* handler is between insert and inc_sessions.                              *)
THEOREM GaugeIsNeverLow == Spec => []GaugeNeverLow
<1>1. SessionsInv => GaugeNeverLow
  <2> SUFFICES ASSUME SessionsInv PROVE GaugeNeverLow
    OBVIOUS
  <2> USE FiniteSessionSets DEF SessionsInv
  <2>1. store \in SUBSET Ever
    BY DEF Ever
  <2>2. Cardinality(store) <= Cardinality(Ever) /\ Cardinality(store) \in Nat
    BY <2>1, FS_Subset, FS_CardinalityType
  <2>3. Cardinality(store) <= gauge + Cardinality(Uncounted)
    BY <2>2 DEF GaugeCounts, Types
  <2> QED
    BY <2>3 DEF GaugeNeverLow, Uncounted
<1> QED
  BY <1>1, SessionsInvariant, PTL

(* With no open or close in between, sessions_open is too high by exactly   *)
(* the sessions the idle check has dropped.                                 *)
THEOREM DriftIsWhatWasReaped == Spec => []DriftIsReaped
<1>1. SessionsInv => DriftIsReaped
  <2> SUFFICES ASSUME SessionsInv,
                      \A s \in Sessions : opener[s] # "inserted",
                      \A c \in Closes : closer[c].pc # "removed"
               PROVE  gauge = Cardinality(store) + Cardinality(reaped)
    BY DEF DriftIsReaped
  <2> USE FiniteSessionSets DEF SessionsInv
  <2>1. Uncounted = {} /\ Removed = {}
    BY DEF Uncounted, Removed
  <2>2. Cardinality(Uncounted) = 0 /\ Cardinality(Removed) = 0
    BY <2>1, FS_EmptySet
  <2>3. Cardinality(Ever) = Cardinality(store) + Cardinality(reaped)
    <3>1. Cardinality(store \cap reaped) = 0
      BY FS_EmptySet DEF InsertedOnce
    <3>2. Cardinality(store \cup reaped) =
            Cardinality(store) + Cardinality(reaped) - Cardinality(store \cap reaped)
      BY FS_Union
    <3>3. Cardinality(store) \in Nat /\ Cardinality(reaped) \in Nat
      BY FS_CardinalityType
    <3> QED
      BY <3>1, <3>2, <3>3 DEF Ever
  <2> QED
    BY <2>2, <2>3 DEF GaugeCounts, Types
<1> QED
  BY <1>1, SessionsInvariant, PTL

=============================================================================
