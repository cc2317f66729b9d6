-------------------------- MODULE ToolCallsProofs --------------------------
(***************************************************************************)
(* What TLAPS proves of ToolCalls, for any number of machines in a call of  *)
(* a fleet tool and any transports.                                        *)
(***************************************************************************)
EXTENDS ToolCalls, TLAPS

(* Before the operation is carried out, nothing is known of it. *)
Untried(l) ==
  l.far \in {"none", "wire", "running"} =>
    l.ran = 0 /\ ~l.worked /\ l.code = "none" /\ l.unread = {} /\ l.status = "none"

(* Only a machine that is known is reached, and only by a leg that began. *)
Reached(l, m) ==
  /\ l.client = "new" => l.via = "none"
  /\ l.via = "none" => l.far = "none"
  /\ ~m.known => l.via = "none"

(* What was read of an SSH channel, and what a handler that runs is. *)
Heard(l, tool) ==
  /\ l.unread # {} \/ l.code # "none" => l.via = "ssh" /\ l.far = "replied"
  /\ l.code = "zero" => l.worked
  /\ l.via = "agent" /\ l.far = "running" => Requests[tool].path \in DOMAIN Routes

(* What a leg of a tool that changes a machine says, it has done. *)
Truthful(l, tool) ==
  tool \in ChangingTools =>
    /\ l.via = "agent" /\ l.status = "200" => l.worked
    /\ l.via = "ssh" => Requests[tool].code = "checked"
    /\ l.client = "ok" => l.worked \/ (l.via = "ssh" /\ l.code = "none")

LegOK(l, m, tool) ==
  l \in Leg /\ Untried(l) /\ l.ran <= 1 /\ Reached(l, m) /\ Heard(l, tool) /\ Truthful(l, tool)

LegsOK ==
  /\ 1 \in DOMAIN machines
  /\ legs = [i \in DOMAIN machines |-> legs[i]]
  /\ \A i \in DOMAIN machines : LegOK(legs[i], machines[i], Tool)

(* An answer is what the legs were when it was made; they do not change back. *)
AnswerOK ==
  /\ answer = "ok" /\ Tool \in ChangingTools => legs[1].client = "ok"
  /\ answer = "error" /\ Tool \in FleetTools => Known = {}

CallInv == LegsOK /\ AnswerOK

(* Tools that change a machine are neither plain commands nor fleet tools. *)
LEMMA ChangingApart ==
  ASSUME NEW tool \in ChangingTools PROVE tool \notin DispatchTools /\ tool \notin FleetTools
  BY DEF ChangingTools, DispatchTools, FleetTools

(* Assigning a field of a leg a value of its type keeps the leg typed. *)
LEMMA LegFields ==
  ASSUME NEW l \in Leg
  PROVE  /\ \A x \in {"new", "waiting", "ok", "error"} : [l EXCEPT !.client = x] \in Leg
         /\ \A x \in {"none", "agent", "ssh"} : [l EXCEPT !.via = x] \in Leg
         /\ \A x \in {"none", "wire", "running", "replied", "over"} : [l EXCEPT !.far = x] \in Leg
         /\ \A x \in {"none", "200", "500", "unknown", "denied", "large", "shape"} :
              [l EXCEPT !.status = x] \in Leg
         /\ \A x \in {"none", "zero", "nonzero"} : [l EXCEPT !.code = x] \in Leg
         /\ \A x \in SUBSET {"status", "eof"} : [l EXCEPT !.unread = x] \in Leg
  BY DEF Leg

LEMMA RanField ==
  ASSUME NEW l \in Leg, NEW ran \in {0, 1} PROVE [l EXCEPT !.ran = ran] \in Leg
  BY DEF Leg

LEMMA WorkedField ==
  ASSUME NEW l \in Leg, NEW works \in BOOLEAN PROVE [l EXCEPT !.worked = works] \in Leg
  BY DEF Leg

(* The three ways in which the far end of a leg ends keep it typed. *)
LEMMA RepliedLeg ==
  ASSUME NEW l \in Leg, l.ran = 0, NEW works \in BOOLEAN, NEW status \in {"200", "500"}
  PROVE  Replied(l, works, status) \in Leg
<1> DEFINE l1 == [l EXCEPT !.far = "replied"]
           l2 == [l1 EXCEPT !.ran = 1]
           l3 == [l2 EXCEPT !.worked = works]
           l4 == [l3 EXCEPT !.status = status]
<1>1. Replied(l, works, status) = l4
  BY DEF Replied
<1> HIDE DEF l1
<1>2. l1 \in Leg
  BY LegFields DEF l1
<1> HIDE DEF l2
<1>3. l2 \in Leg
  BY <1>2, RanField DEF l2
<1> HIDE DEF l3
<1>4. l3 \in Leg
  BY <1>3, WorkedField DEF l3
<1>5. l4 \in Leg
  BY <1>4, LegFields DEF l4
<1> QED
  BY <1>1, <1>5

LEMMA ExitedLeg ==
  ASSUME NEW l \in Leg, l.ran = 0, NEW works \in BOOLEAN
  PROVE  Exited(l, works) \in Leg
<1> DEFINE l1 == [l EXCEPT !.far = "replied"]
           l2 == [l1 EXCEPT !.ran = 1]
           l3 == [l2 EXCEPT !.worked = works]
           l4 == [l3 EXCEPT !.unread = {"status", "eof"}]
<1>1. Exited(l, works) = l4
  BY DEF Exited
<1> HIDE DEF l1
<1>2. l1 \in Leg
  BY LegFields DEF l1
<1> HIDE DEF l2
<1>3. l2 \in Leg
  BY <1>2, RanField DEF l2
<1> HIDE DEF l3
<1>4. l3 \in Leg
  BY <1>3, WorkedField DEF l3
<1>5. l4 \in Leg
  BY <1>4, LegFields DEF l4
<1> QED
  BY <1>1, <1>5

LEMMA StoppedLeg ==
  ASSUME NEW l \in Leg, l.ran = 0, NEW ran \in {0, 1}, NEW works \in BOOLEAN
  PROVE  Stopped(l, ran, works) \in Leg
<1> DEFINE sum == l.ran + ran
           l1 == [l EXCEPT !.far = "over"]
           l2 == [l1 EXCEPT !.ran = sum]
           l3 == [l2 EXCEPT !.worked = works]
<1>1. sum \in {0, 1}
  OBVIOUS
<1>2. Stopped(l, ran, works) = l3
  BY DEF Stopped
<1> HIDE DEF sum
<1> HIDE DEF l1
<1>3. l1 \in Leg
  BY LegFields DEF l1
<1> HIDE DEF l2
<1>4. l2 \in Leg
  BY <1>1, <1>3, RanField DEF l2
<1>5. l3 \in Leg
  BY <1>4, WorkedField
<1> QED
  BY <1>2, <1>5

LEMMA StatusReadLeg ==
  ASSUME NEW l \in Leg PROVE StatusRead(l) \in Leg
<1> DEFINE code == IF l.worked THEN "zero" ELSE "nonzero"
           rest == l.unread \ {"status"}
           l1 == [l EXCEPT !.code = code]
           l2 == [l1 EXCEPT !.unread = rest]
<1>1. StatusRead(l) = l2
  BY DEF StatusRead
<1>2. code \in {"none", "zero", "nonzero"} /\ rest \in SUBSET {"status", "eof"}
  BY DEF Leg
<1> HIDE DEF code, rest
<1>3. l1 \in Leg
  BY <1>2, LegFields
<1> HIDE DEF l1
<1>4. l2 \in Leg
  BY <1>2, <1>3, LegFields
<1> QED
  BY <1>1, <1>4

LEMMA InitCall == Init => CallInv
<1> SUFFICES ASSUME Init PROVE CallInv
  OBVIOUS
<1>1. /\ legs = [i \in DOMAIN machines |-> NewLeg]
      /\ answer = "none"
  BY DEF Init
<1>2. 1 \in DOMAIN machines
  <2>1. PICK tool \in Calls :
          \E n \in IF tool \in FleetTools THEN 1..MaxLegs ELSE {1} : machines \in [1..n -> Machine]
    BY DEF Init
  <2>2. PICK n \in IF tool \in FleetTools THEN 1..MaxLegs ELSE {1} : machines \in [1..n -> Machine]
    BY <2>1
  <2>3. n \in Nat /\ n >= 1
    BY LegsAssumption
  <2> QED
    BY <2>2, <2>3
<1>3. ASSUME NEW m, NEW tool PROVE LegOK(NewLeg, m, tool)
  BY DEF LegOK, NewLeg, Leg, Untried, Reached, Heard, Truthful
<1> QED
  BY <1>1, <1>2, <1>3 DEF CallInv, LegsOK, AnswerOK

(* A leg that begins. *)
LEMMA BeginLeg ==
  ASSUME CallInv, NEW i \in DOMAIN legs, Begin(i)
  PROVE  \E l : legs' = [legs EXCEPT ![i] = l] /\ LegOK(l, machines[i], Tool)
<1> DEFINE o == legs[i]
           m == machines[i]
           way == Way(Tool, m)
<1>1. LegOK(o, m, Tool) /\ o.client = "new"
  BY DEF CallInv, LegsOK, Begin
<1>2. o.via = "none" /\ o.far = "none"
  BY <1>1 DEF LegOK, Reached
<1>3. PICK open \in {FALSE, AsksCircuit(Tool, m)} :
        legs' = [legs EXCEPT ![i] =
          CASE way = "nowhere" \/ open -> [o EXCEPT !.client = "error"]
            [] way = "here" /\ ~open -> [o EXCEPT !.client = "ok"]
            [] OTHER -> [o EXCEPT !.client = "waiting", !.via = way, !.far = "wire"]]
  BY DEF Begin
<1>4. way \in {"nowhere", "here", "ssh", "agent"} /\ (~m.known => way = "nowhere")
  BY DEF Way, ByTransport
<1>5. Tool \in ChangingTools => /\ way # "here"
                                /\ way = "ssh" => Requests[Tool].code = "checked"
  BY ChangingApart, ChangesAreTold DEF Way, ByTransport
<1> HIDE DEF o, way
<1>6. LegOK([o EXCEPT !.client = "error"], m, Tool)
  BY <1>1, <1>2 DEF LegOK, Leg, Untried, Reached, Heard, Truthful
<1>7. way = "here" => LegOK([o EXCEPT !.client = "ok"], m, Tool)
  BY <1>1, <1>2, <1>5 DEF LegOK, Leg, Untried, Reached, Heard, Truthful
<1>8. way \in {"ssh", "agent"} =>
        LegOK([o EXCEPT !.client = "waiting", !.via = way, !.far = "wire"], m, Tool)
  <2> SUFFICES ASSUME way \in {"ssh", "agent"}
               PROVE  LegOK([o EXCEPT !.client = "waiting", !.via = way, !.far = "wire"], m, Tool)
    OBVIOUS
  <2> DEFINE n == [o EXCEPT !.client = "waiting", !.via = way, !.far = "wire"]
  <2>1. /\ n.client = "waiting" /\ n.via = way /\ n.far = "wire" /\ n.ran = o.ran
        /\ n.worked = o.worked /\ n.code = o.code /\ n.unread = o.unread /\ n.status = o.status
    BY <1>1 DEF LegOK, Leg
  <2>2. n \in Leg
    BY <1>1 DEF LegOK, Leg
  <2> HIDE DEF n
  <2>3. Heard(n, Tool)
    <3>1. o.code = "none" /\ o.unread = {}
      BY <1>1, <1>2 DEF LegOK, Untried
    <3> QED
      BY <2>1, <3>1 DEF Heard
  <2>4. Truthful(n, Tool)
    <3>1. o.status = "none"
      BY <1>1, <1>2 DEF LegOK, Untried
    <3> QED
      BY <1>5, <2>1, <3>1 DEF Truthful
  <2>5. LegOK(n, m, Tool)
    BY <1>1, <1>2, <1>4, <2>1, <2>2, <2>3, <2>4 DEF LegOK, Untried, Reached
  <2> QED
    BY <2>5 DEF n
<1>9. CASE way = "nowhere" \/ open
  BY <1>3, <1>6, <1>9
<1>10. CASE ~(way = "nowhere" \/ open) /\ way = "here"
  BY <1>3, <1>7, <1>10
<1>11. CASE ~(way = "nowhere" \/ open) /\ way # "here"
  BY <1>3, <1>4, <1>8, <1>11
<1> QED
  BY <1>9, <1>10, <1>11

(* A request to an agent. *)
LEMMA AgentLeg ==
  ASSUME CallInv, NEW i \in DOMAIN legs, Receive(i) \/ Handle(i) \/ ReadReply(i)
  PROVE  \E l : /\ legs' = [legs EXCEPT ![i] = l] /\ LegOK(l, machines[i], Tool)
                /\ legs[i].client \in {"ok", "error"} => l.client = legs[i].client
<1> DEFINE o == legs[i]
           m == machines[i]
<1>1. LegOK(o, m, Tool)
  BY DEF CallInv, LegsOK
<1>2. CASE Receive(i)
  <2> DEFINE refusal == Refusal(Tool, call.given, call.size, m)
  <2>1. /\ o.via = "agent" /\ o.far = "wire"
        /\ legs' = [legs EXCEPT ![i] =
             IF refusal = "none" THEN [o EXCEPT !.far = "running"]
                                 ELSE [o EXCEPT !.far = "replied", !.status = refusal]]
    BY <1>2 DEF Receive
  <2>2. /\ refusal \in {"none", "unknown", "denied", "large", "shape"}
        /\ refusal = "none" => Requests[Tool].path \in DOMAIN Routes
    BY DEF Refusal
  <2> HIDE DEF o, refusal
  <2>3. CASE refusal = "none"
    <3>1. LegOK([o EXCEPT !.far = "running"], m, Tool)
      BY <1>1, <2>1, <2>2, <2>3 DEF LegOK, Leg, Untried, Reached, Heard, Truthful
    <3> QED
      BY <1>1, <2>1, <2>3, <3>1 DEF o, LegOK, Leg
  <2>4. CASE refusal # "none"
    <3>1. LegOK([o EXCEPT !.far = "replied", !.status = refusal], m, Tool)
      BY <1>1, <2>1, <2>2, <2>4 DEF LegOK, Leg, Untried, Reached, Heard, Truthful
    <3> QED
      BY <1>1, <2>1, <2>4, <3>1 DEF o, LegOK, Leg
  <2> QED
    BY <2>3, <2>4
<1>3. CASE Handle(i)
  <2> DEFINE statuses(works) ==
               IF works THEN {"200"} ELSE FailureStatus(Routes[Requests[Tool].path].fails)
  <2>1. PICK works \in BOOLEAN :
          \E status \in statuses(works) : legs' = [legs EXCEPT ![i] = Replied(o, works, status)]
    BY <1>3 DEF Handle
  <2>2. PICK status \in statuses(works) : legs' = [legs EXCEPT ![i] = Replied(o, works, status)]
    BY <2>1
  <2>3. o.via = "agent" /\ o.far = "running"
    BY <1>3 DEF Handle
  <2>4. status \in {"200", "500"}
    BY DEF FailureStatus
  <2>5. Tool \in ChangingTools /\ status = "200" => works
    BY <1>1, <2>3, ChangesAreTold DEF FailureStatus, LegOK, Heard
  <2> DEFINE n == Replied(o, works, status)
  <2> HIDE DEF o, statuses
  <2>6. o \in Leg /\ o.ran = 0
    BY <1>1, <2>3 DEF LegOK, Untried
  <2>7. n \in Leg
    BY <2>4, <2>6, RepliedLeg
  <2>8. /\ n.client = o.client /\ n.via = o.via /\ n.far = "replied" /\ n.ran = 1
        /\ n.worked = works /\ n.code = o.code /\ n.unread = o.unread /\ n.status = status
    BY <2>6 DEF Leg, Replied
  <2> HIDE DEF n
  <2>9. LegOK(n, m, Tool)
    BY <1>1, <2>3, <2>5, <2>7, <2>8 DEF LegOK, Untried, Reached, Heard, Truthful
  <2> QED
    BY <2>2, <2>8, <2>9 DEF o, n
<1>4. CASE ReadReply(i)
  <2>1. /\ o.via = "agent" /\ o.far = "replied" /\ o.client = "waiting"
        /\ legs' = [legs EXCEPT ![i] = [o EXCEPT !.client = IF o.status = "200" THEN "ok" ELSE "error"]]
    BY <1>4 DEF ReadReply
  <2> HIDE DEF o
  <2>2. LegOK([o EXCEPT !.client = IF o.status = "200" THEN "ok" ELSE "error"], m, Tool)
    BY <1>1, <2>1 DEF LegOK, Leg, Untried, Reached, Heard, Truthful
  <2> QED
    BY <2>1, <2>2 DEF o
<1> QED
  BY <1>2, <1>3, <1>4

(* A command over SSH. *)
LEMMA SshLeg ==
  ASSUME CallInv, NEW i \in DOMAIN legs, SshStart(i) \/ SshExit(i) \/ SshStatus(i) \/ SshReturn(i)
  PROVE  \E l : /\ legs' = [legs EXCEPT ![i] = l] /\ LegOK(l, machines[i], Tool)
                /\ legs[i].client \in {"ok", "error"} => l.client = legs[i].client
<1> DEFINE o == legs[i]
           m == machines[i]
<1>1. LegOK(o, m, Tool)
  BY DEF CallInv, LegsOK
<1>2. CASE SshStart(i)
  <2>1. /\ o.via = "ssh" /\ o.far = "wire" /\ o.client = "waiting"
        /\ legs' = [legs EXCEPT ![i] = [o EXCEPT !.far = "running"]]
    BY <1>2 DEF SshStart
  <2> HIDE DEF o
  <2>2. LegOK([o EXCEPT !.far = "running"], m, Tool)
    BY <1>1, <2>1 DEF LegOK, Leg, Untried, Reached, Heard, Truthful
  <2> QED
    BY <2>1, <2>2 DEF o
<1>3. CASE SshExit(i)
  <2>1. PICK works \in BOOLEAN : legs' = [legs EXCEPT ![i] = Exited(o, works)]
    BY <1>3 DEF SshExit
  <2>2. o.via = "ssh" /\ o.far = "running"
    BY <1>3 DEF SshExit
  <2> DEFINE n == Exited(o, works)
  <2> HIDE DEF o
  <2>3. o \in Leg /\ o.ran = 0 /\ o.code = "none"
    BY <1>1, <2>2 DEF LegOK, Untried
  <2>4. n \in Leg
    BY <2>3, ExitedLeg
  <2>5. /\ n.client = o.client /\ n.via = o.via /\ n.far = "replied" /\ n.ran = 1
        /\ n.worked = works /\ n.code = "none"
    BY <2>3 DEF Leg, Exited
  <2> HIDE DEF n
  <2>6. LegOK(n, m, Tool)
    BY <1>1, <2>2, <2>4, <2>5 DEF LegOK, Untried, Reached, Heard, Truthful
  <2> QED
    BY <2>1, <2>5, <2>6 DEF o, n
<1>4. CASE SshStatus(i)
  <2>1. legs' = [legs EXCEPT ![i] = StatusRead(o)]
    BY <1>4 DEF SshStatus
  <2>2. "status" \in o.unread /\ o.client = "waiting"
    BY <1>4 DEF SshStatus
  <2> DEFINE n == StatusRead(o)
  <2> HIDE DEF o
  <2>3. o \in Leg /\ o.via = "ssh" /\ o.far = "replied"
    BY <1>1, <2>2 DEF LegOK, Heard
  <2>4. n \in Leg
    BY <2>3, StatusReadLeg
  <2>5. /\ n.client = o.client /\ n.via = o.via /\ n.far = o.far /\ n.ran = o.ran
        /\ n.worked = o.worked /\ n.code = IF o.worked THEN "zero" ELSE "nonzero"
    BY <2>3 DEF Leg, StatusRead
  <2> HIDE DEF n
  <2>6. LegOK(n, m, Tool)
    BY <1>1, <2>2, <2>3, <2>4, <2>5 DEF LegOK, Untried, Reached, Heard, Truthful
  <2> QED
    BY <2>1, <2>2, <2>6 DEF o, n
<1>5. CASE SshReturn(i)
  <2> DEFINE result == CodeResult(Tool, o.code)
  <2>1. /\ o.via = "ssh" /\ o.client = "waiting"
        /\ legs' = [legs EXCEPT ![i] = [o EXCEPT !.client = result]]
    BY <1>5 DEF SshReturn
  <2>2. /\ result \in {"ok", "error"}
        /\ Requests[Tool].code = "checked" /\ o.code = "nonzero" => result = "error"
    BY DEF CodeResult
  <2> HIDE DEF o, result
  <2>3. LegOK([o EXCEPT !.client = result], m, Tool)
    BY <1>1, <2>1, <2>2 DEF LegOK, Leg, Untried, Reached, Heard, Truthful
  <2> QED
    BY <2>1, <2>3 DEF o
<1> QED
  BY <1>2, <1>3, <1>4, <1>5

(* A client that gives up, and what is then cut off. *)
LEMMA LostLeg ==
  ASSUME CallInv, NEW i \in DOMAIN legs, Fail(i) \/ CutOff(i)
  PROVE  \E l : /\ legs' = [legs EXCEPT ![i] = l] /\ LegOK(l, machines[i], Tool)
                /\ legs[i].client \in {"ok", "error"} => l.client = legs[i].client
<1> DEFINE o == legs[i]
           m == machines[i]
<1>1. LegOK(o, m, Tool)
  BY DEF CallInv, LegsOK
<1>2. CASE Fail(i)
  <2>1. o.client = "waiting" /\ legs' = [legs EXCEPT ![i] = [o EXCEPT !.client = "error"]]
    BY <1>2 DEF Fail
  <2> HIDE DEF o
  <2>2. LegOK([o EXCEPT !.client = "error"], m, Tool)
    BY <1>1, <2>1 DEF LegOK, Leg, Untried, Reached, Heard, Truthful
  <2> QED
    BY <2>1, <2>2 DEF o
<1>3. CASE CutOff(i)
  <2>1. PICK ran \in {0} \union (IF o.far = "running" THEN {1} ELSE {}), works \in BOOLEAN :
          legs' = [legs EXCEPT ![i] = Stopped(o, ran, works)]
    BY <1>3 DEF CutOff
  <2>2. o.far \in {"wire", "running"} /\ ran \in {0, 1}
    BY <1>3 DEF CutOff
  <2>3. o.ran = 0 /\ ~o.worked /\ o.unread = {} /\ o.code = "none"
    BY <1>1, <2>2 DEF LegOK, Leg, Untried
  <2> DEFINE n == Stopped(o, ran, works)
  <2> HIDE DEF o
  <2>4. o \in Leg /\ o.status = "none"
    BY <1>1, <2>2 DEF LegOK, Untried
  <2>5. n \in Leg
    BY <2>2, <2>3, <2>4, StoppedLeg
  <2>6. /\ n.client = o.client /\ n.via = o.via /\ n.far = "over" /\ n.ran = ran
        /\ n.code = "none" /\ n.unread = {} /\ n.status = "none"
    BY <2>2, <2>3, <2>4 DEF Leg, Stopped
  <2> HIDE DEF n
  <2>7. LegOK(n, m, Tool)
    <3>1. Truthful(n, Tool)
      BY <1>1, <2>3, <2>6 DEF LegOK, Truthful
    <3> QED
      BY <1>1, <2>2, <2>3, <2>5, <2>6, <3>1 DEF LegOK, Untried, Reached, Heard
  <2> QED
    BY <2>1, <2>6, <2>7 DEF o, n
<1> QED
  BY <1>2, <1>3

LEMMA NextCall == CallInv /\ [Next]_vars => CallInv'
<1> SUFFICES ASSUME CallInv, [Next]_vars PROVE CallInv'
  OBVIOUS
<1>1. DOMAIN legs = DOMAIN machines
  BY DEF CallInv, LegsOK
<1>2. CASE UNCHANGED vars
  BY <1>2 DEF vars, CallInv, LegsOK, AnswerOK, Tool, Known
<1>3. ASSUME NEW i \in DOMAIN legs, LegStep(i) PROVE CallInv'
  <2>1. UNCHANGED <<call, machines, answer>>
    BY <1>3 DEF LegStep, Begin, Receive, Handle, ReadReply, Fail, CutOff, SshStart, SshExit,
       SshStatus, SshReturn
  <2>2. PICK l : /\ legs' = [legs EXCEPT ![i] = l] /\ LegOK(l, machines[i], Tool)
                 /\ legs[i].client \in {"ok", "error"} => l.client = legs[i].client
    <3>1. CASE Begin(i)
      BY <3>1, BeginLeg DEF Begin
    <3> QED
      BY <1>3, <3>1, AgentLeg, SshLeg, LostLeg DEF LegStep
  <2>3. LegsOK'
    BY <1>1, <2>1, <2>2 DEF CallInv, LegsOK, Tool
  <2>4. AnswerOK'
    BY <1>1, <2>1, <2>2 DEF CallInv, AnswerOK, Tool, Known
  <2> QED
    BY <2>3, <2>4 DEF CallInv
<1>4. CASE Answer
  <2>1. UNCHANGED <<call, machines, legs>> /\ answer' \in {"panic", Result}
    BY <1>4 DEF Answer
  <2>2. LegsOK'
    BY <2>1 DEF CallInv, LegsOK, Tool
  <2>3. AnswerOK'
    BY <2>1, ChangingApart DEF AnswerOK, Result, Tool, Known
  <2> QED
    BY <2>2, <2>3 DEF CallInv
<1> QED
  BY <1>2, <1>3, <1>4 DEF Next

THEOREM CallInvariant == Spec => []CallInv
  BY InitCall, NextCall, PTL DEF Spec

(* However a call fails and whatever is lost, no machine carries the         *)
(* operation out twice, for any number of machines.                          *)
THEOREM NothingIsDoneTwice == Spec => []NeverTwice
<1>1. CallInv => NeverTwice
  BY DEF CallInv, LegsOK, LegOK, NeverTwice
<1> QED
  BY <1>1, CallInvariant, PTL

(* An Ok answer of a tool that changes a machine is true, but for an SSH     *)
(* channel that ended before the exit status.                                *)
THEOREM OkAnswersAreTrue == Spec => []OkMeansDone
<1>1. CallInv => OkMeansDone
  BY DEF CallInv, LegsOK, AnswerOK, LegOK, Truthful, OkMeansDone
<1> QED
  BY <1>1, CallInvariant, PTL

(* A fleet tool that answers with an error has reached no machine.           *)
THEOREM FleetErrorsAreClean == Spec => []FleetErrorIsClean
<1>1. CallInv => FleetErrorIsClean
  <2> SUFFICES ASSUME CallInv, answer = "error", Tool \in FleetTools, NEW i \in DOMAIN legs
               PROVE  legs[i].ran = 0
    BY DEF FleetErrorIsClean
  <2>1. i \in DOMAIN machines /\ ~machines[i].known
    BY DEF CallInv, LegsOK, AnswerOK, Known
  <2> QED
    BY <2>1 DEF CallInv, LegsOK, LegOK, Reached, Untried
<1> QED
  BY <1>1, CallInvariant, PTL

(* The arguments of a call: all that the schema requires, none that it does not know. *)
CallOK ==
  /\ Tool \in Calls
  /\ call.given \subseteq Schemas[Tool].needs \union Schemas[Tool].takes

(* A reply that complains of the route or of the shape does so with reason, and  *)
(* a handler runs only for a request that was let through.                      *)
Judged(l, tool, given) ==
  LET request == Requests[tool]
      accepted == Accepts(request.path, request.method, Sent(tool, given))
  IN /\ l.status = "unknown" => request.path \notin DOMAIN Routes
     /\ l.status = "shape" => request.path \in DOMAIN Routes /\ ~accepted
     /\ l.via = "agent" /\ l.far = "running" => accepted

ContractInv ==
  /\ CallOK
  /\ \A i \in DOMAIN legs : Judged(legs[i], Tool, call.given)

LEMMA InitContract == Init => ContractInv
<1> SUFFICES ASSUME Init PROVE ContractInv
  OBVIOUS
<1>1. PICK tool \in Calls : \E given \in SUBSET Schemas[tool].takes, size \in Sizes(tool) :
        call = [tool |-> tool, given |-> Schemas[tool].needs \union given, size |-> size]
  BY DEF Init
<1>2. CallOK
  BY <1>1 DEF CallOK, Tool
<1>3. ASSUME NEW i \in DOMAIN legs PROVE legs[i] = NewLeg
  BY <1>3 DEF Init
<1>4. ASSUME NEW t, NEW given PROVE Judged(NewLeg, t, given)
  BY DEF Judged, NewLeg
<1> QED
  BY <1>2, <1>3, <1>4 DEF ContractInv

(* A leg keeps its verdict in a step that gives it no other and starts no handler. *)
LEMMA SameVerdict ==
  ASSUME NEW o, NEW l, NEW tool, NEW given, Judged(o, tool, given),
         l.status \in {o.status, "200", "500"},
         l.via = "agent" /\ l.far = "running" => o.via = "agent" /\ o.far = "running"
  PROVE  Judged(l, tool, given)
BY DEF Judged

(* A request arrives: it starts a handler only if it is accepted. *)
LEMMA ReceivedVerdict ==
  ASSUME CallInv, NEW i \in DOMAIN legs, Receive(i), Judged(legs[i], Tool, call.given)
  PROVE  Judged(legs'[i], Tool, call.given)
<1> DEFINE o == legs[i]
           refusal == Refusal(Tool, call.given, call.size, machines[i])
           request == Requests[Tool]
           accepted == Accepts(request.path, request.method, Sent(Tool, call.given))
<1>1. /\ o.via = "agent" /\ o.far = "wire"
      /\ legs' = [legs EXCEPT ![i] =
           IF refusal = "none" THEN [o EXCEPT !.far = "running"]
                               ELSE [o EXCEPT !.far = "replied", !.status = refusal]]
  BY DEF Receive
<1>2. o \in Leg /\ o.status = "none"
  BY <1>1 DEF CallInv, LegsOK, LegOK, Untried
<1>3. /\ refusal = "unknown" => request.path \notin DOMAIN Routes
      /\ refusal = "shape" => request.path \in DOMAIN Routes /\ ~accepted
      /\ refusal = "none" => accepted
  BY DEF Refusal
<1> HIDE DEF refusal, accepted
<1>4. CASE refusal = "none"
  <2> DEFINE n == [o EXCEPT !.far = "running"]
  <2>1. legs'[i] = n /\ n.status = "none" /\ accepted
    BY <1>1, <1>2, <1>3, <1>4 DEF Leg
  <2> QED
    BY <2>1 DEF Judged, accepted
<1>5. CASE refusal # "none"
  <2> DEFINE n == [o EXCEPT !.far = "replied", !.status = refusal]
  <2>1. legs'[i] = n /\ n.status = refusal /\ n.far = "replied"
    BY <1>1, <1>2, <1>5 DEF Leg
  <2> QED
    BY <1>3, <2>1 DEF Judged, accepted
<1> QED
  BY <1>4, <1>5

(* No other step of a leg gives a verdict. *)
LEMMA OtherVerdicts ==
  ASSUME CallInv, NEW i \in DOMAIN legs, LegStep(i), ~Receive(i)
  PROVE  /\ legs'[i].status \in {legs[i].status, "200", "500"}
         /\ legs'[i].via = "agent" /\ legs'[i].far = "running" =>
              legs[i].via = "agent" /\ legs[i].far = "running"
<1> DEFINE o == legs[i]
<1>1. o \in Leg
  BY DEF CallInv, LegsOK, LegOK
<1>2. CASE Begin(i)
  <2> DEFINE way == Way(Tool, machines[i])
  <2>1. PICK open \in {FALSE, AsksCircuit(Tool, machines[i])} :
          legs' = [legs EXCEPT ![i] =
            CASE way = "nowhere" \/ open -> [o EXCEPT !.client = "error"]
              [] way = "here" /\ ~open -> [o EXCEPT !.client = "ok"]
              [] OTHER -> [o EXCEPT !.client = "waiting", !.via = way, !.far = "wire"]]
    BY <1>2 DEF Begin
  <2>2. /\ [o EXCEPT !.client = "error"].status = o.status
        /\ [o EXCEPT !.client = "error"].via = o.via
        /\ [o EXCEPT !.client = "error"].far = o.far
        /\ [o EXCEPT !.client = "ok"].status = o.status
        /\ [o EXCEPT !.client = "ok"].via = o.via
        /\ [o EXCEPT !.client = "ok"].far = o.far
        /\ [o EXCEPT !.client = "waiting", !.via = way, !.far = "wire"].status = o.status
        /\ [o EXCEPT !.client = "waiting", !.via = way, !.far = "wire"].far = "wire"
    BY <1>1 DEF Leg
  <2>3. legs'[i] \in {[o EXCEPT !.client = "error"], [o EXCEPT !.client = "ok"],
                      [o EXCEPT !.client = "waiting", !.via = way, !.far = "wire"]}
    <3> HIDE DEF way
    <3> QED
      BY <2>1
  <2> HIDE DEF way
  <2> QED
    BY <2>2, <2>3
<1>3. CASE Handle(i)
  <2>1. PICK works \in BOOLEAN :
          \E status \in IF works THEN {"200"}
                        ELSE FailureStatus(Routes[Requests[Tool].path].fails) :
            legs' = [legs EXCEPT ![i] = Replied(o, works, status)]
    BY <1>3 DEF Handle
  <2>2. PICK status \in {"200", "500"} : legs' = [legs EXCEPT ![i] = Replied(o, works, status)]
    BY <2>1 DEF FailureStatus
  <2>3. Replied(o, works, status).status = status /\ Replied(o, works, status).far = "replied"
    BY <1>1 DEF Replied, Leg
  <2> QED
    BY <2>2, <2>3
<1>4. CASE ReadReply(i)
  BY <1>1, <1>4 DEF ReadReply, Leg
<1>5. CASE Fail(i)
  BY <1>1, <1>5 DEF Fail, Leg
<1>6. CASE CutOff(i)
  <2>1. PICK ran \in {0, 1}, works \in BOOLEAN : legs' = [legs EXCEPT ![i] = Stopped(o, ran, works)]
    BY <1>6 DEF CutOff
  <2>2. Stopped(o, ran, works).status = o.status /\ Stopped(o, ran, works).far = "over"
    BY <1>1 DEF Stopped, Leg
  <2> QED
    BY <2>1, <2>2
<1>7. CASE SshStart(i)
  BY <1>1, <1>7 DEF SshStart, Leg
<1>8. CASE SshExit(i)
  <2>1. PICK works \in BOOLEAN : legs' = [legs EXCEPT ![i] = Exited(o, works)]
    BY <1>8 DEF SshExit
  <2>2. Exited(o, works).status = o.status /\ Exited(o, works).far = "replied"
    BY <1>1 DEF Exited, Leg
  <2> QED
    BY <2>1, <2>2
<1>9. CASE SshStatus(i)
  <2>1. legs' = [legs EXCEPT ![i] = StatusRead(o)]
    BY <1>9 DEF SshStatus
  <2>2. /\ StatusRead(o).status = o.status /\ StatusRead(o).via = o.via
        /\ StatusRead(o).far = o.far
    BY <1>1 DEF StatusRead, Leg
  <2> QED
    BY <2>1, <2>2
<1>10. CASE SshReturn(i)
  BY <1>1, <1>10 DEF SshReturn, Leg
<1> QED
  BY <1>2, <1>3, <1>4, <1>5, <1>6, <1>7, <1>8, <1>9, <1>10 DEF LegStep

LEMMA NextContract == CallInv /\ ContractInv /\ [Next]_vars => ContractInv'
<1> SUFFICES ASSUME CallInv, ContractInv, [Next]_vars PROVE ContractInv'
  OBVIOUS
<1>1. CASE UNCHANGED vars
  BY <1>1 DEF vars, ContractInv, CallOK, Tool
<1>2. CASE Answer
  BY <1>2 DEF Answer, ContractInv, CallOK, Tool
<1>3. ASSUME NEW i \in DOMAIN legs, LegStep(i) PROVE ContractInv'
  <2>1. UNCHANGED <<call, machines, answer>>
    BY <1>3 DEF LegStep, Begin, Receive, Handle, ReadReply, Fail, CutOff, SshStart, SshExit,
       SshStatus, SshReturn
  <2>2. CallOK'
    BY <2>1 DEF ContractInv, CallOK, Tool
  <2>3. PICK l : legs' = [legs EXCEPT ![i] = l]
    <3>1. CASE Begin(i)
      BY <3>1, BeginLeg
    <3> QED
      BY <1>3, <3>1, AgentLeg, SshLeg, LostLeg DEF LegStep
  <2>4. Judged(legs'[i], Tool, call.given)
    <3>1. Judged(legs[i], Tool, call.given)
      BY DEF ContractInv
    <3>2. CASE Receive(i)
      BY <3>1, <3>2, ReceivedVerdict
    <3>3. CASE ~Receive(i)
      BY <1>3, <3>1, <3>3, OtherVerdicts, SameVerdict
    <3> QED
      BY <3>2, <3>3
  <2>5. \A j \in DOMAIN legs' : Judged(legs'[j], Tool, call.given)
    <3> TAKE j \in DOMAIN legs'
    <3>1. j \in DOMAIN legs /\ (j # i => legs'[j] = legs[j])
      BY <2>3
    <3>2. Judged(legs[j], Tool, call.given)
      BY <3>1 DEF ContractInv
    <3> QED
      BY <2>4, <3>1, <3>2
  <2>6. Tool' = Tool /\ call' = call
    BY <2>1 DEF Tool
  <2> QED
    BY <2>2, <2>5, <2>6 DEF ContractInv
<1> QED
  BY <1>1, <1>2, <1>3 DEF Next

THEOREM ContractInvariant == Spec => []ContractInv
  BY InitContract, NextContract, CallInvariant, PTL DEF Spec

(* A request of a tool that is not outdated is accepted, whatever optional   *)
(* arguments the client left out.                                            *)
LEMMA CurrentToolsAreAccepted ==
  ASSUME NEW tool \in Calls \ Outdated, NEW given
  PROVE  /\ Requests[tool].path \in DOMAIN Routes
         /\ Accepts(Requests[tool].path, Requests[tool].method, Sent(tool, given))
<1> DEFINE request == Requests[tool]
           route == Routes[request.path]
<1>1. /\ request.path \in DOMAIN Routes
      /\ request.method = route.method
      /\ \A p \in route.needs :
           /\ p \in DOMAIN request.params
           /\ request.params[p] \in Arms[tool].text \union Arms[tool].number \union {Fixed}
  BY RoutesAreMet
<1>2. route.needs \subseteq Sent(tool, given)
  BY <1>1 DEF Sent
<1> QED
  BY <1>1, <1>2 DEF Accepts

(* An accepted request carries every argument the client gave. *)
LEMMA AcceptedCarriesAll ==
  ASSUME NEW tool \in Calls,
         NEW given \in SUBSET (Schemas[tool].needs \union Schemas[tool].takes),
         Accepts(Requests[tool].path, Requests[tool].method, Sent(tool, given)),
         NEW a \in given
  PROVE  LET route == Routes[Requests[tool].path]
         IN \/ <<tool, a>> \in Dropped
            \/ \E p \in Sent(tool, given) \intersect (route.needs \union route.uses) :
                 Requests[tool].params[p] = a
<1> DEFINE route == Routes[Requests[tool].path]
           params == Requests[tool].params
<1>1. Requests[tool].path \in DOMAIN Routes /\ route.needs \subseteq Sent(tool, given)
  BY DEF Accepts
<1>2. route.needs \subseteq DOMAIN params
  BY <1>1 DEF Sent
<1>3. \/ <<tool, a>> \in Dropped
      \/ /\ a \in Arms[tool].text \union Arms[tool].number \union Arms[tool].maybe
         /\ \E p \in DOMAIN params \intersect (route.needs \union route.uses) : params[p] = a
  BY <1>1, <1>2, ArgumentsAreSent
<1>4. ASSUME a \in Arms[tool].text \union Arms[tool].number \union Arms[tool].maybe,
             NEW p \in DOMAIN params, params[p] = a
      PROVE  p \in Sent(tool, given)
  BY <1>4 DEF Sent, Reads
<1> QED
  BY <1>3, <1>4

(* The two programs agree on routes and parameters: the agent refuses no     *)
(* request for its route or shape, but for the tools of git and of the       *)
(* environment, however many machines a call has.                            *)
THEOREM TheContractHolds == Spec => []ContractHolds
<1>1. ContractInv => ContractHolds
  <2> SUFFICES ASSUME ContractInv, NEW i \in DOMAIN legs, legs[i].status \in {"unknown", "shape"},
                      Tool \notin Outdated
               PROVE  FALSE
    BY DEF ContractHolds
  <2>1. Tool \in Calls \ Outdated /\ Judged(legs[i], Tool, call.given)
    BY DEF ContractInv, CallOK
  <2> QED
    BY <2>1, CurrentToolsAreAccepted DEF Judged
<1> QED
  BY <1>1, ContractInvariant, PTL

(* When a handler runs on an agent, every argument the client gave has       *)
(* reached it, under the name it has there, but for those of Dropped.        *)
THEOREM EveryArgumentArrives == Spec => []ArgumentsArrive
<1>1. ContractInv => ArgumentsArrive
  <2> SUFFICES ASSUME ContractInv, NEW i \in DOMAIN legs,
                      legs[i].via = "agent", legs[i].far = "running", NEW a \in call.given
               PROVE  LET route == Routes[Requests[Tool].path]
                      IN \/ <<Tool, a>> \in Dropped
                         \/ \E p \in Sent(Tool, call.given) \intersect (route.needs \union route.uses) :
                              Requests[Tool].params[p] = a
    BY DEF ArgumentsArrive
  <2>1. /\ Tool \in Calls
        /\ call.given \in SUBSET (Schemas[Tool].needs \union Schemas[Tool].takes)
        /\ Accepts(Requests[Tool].path, Requests[Tool].method, Sent(Tool, call.given))
    BY DEF ContractInv, CallOK, Judged
  <2> QED
    BY <2>1, AcceptedCarriesAll
<1> QED
  BY <1>1, ContractInvariant, PTL

=============================================================================
