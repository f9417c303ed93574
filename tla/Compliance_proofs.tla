------------------------- MODULE Compliance_proofs -------------------------
(***************************************************************************)
(* The compliance test's own logic is right whatever the broker, the       *)
(* connection and the clock do, for every time limit and any number of     *)
(* file descriptors.                                                       *)
(***************************************************************************)
EXTENDS Compliance, FiniteSetTheorems, SequenceTheorems, TLAPS

\* Where the program may be: in the body of a test, or elsewhere.
InTest == {"send", "run", "decode", "timed", "check", "verify"}
InSetup == {"setup_run", "setup_connect"}
Elsewhere == {"setup_new", "teardown", "close", "next", "done"}

\* How many steps of the test have sent their packet.
SentSteps == IF pc = "send" THEN step - 1 ELSE step

\* The step that first asks for an answer; a ping may come at any time.
FirstStep == [Connack |-> 1, Suback |-> 2, Publish |-> 3, Puback |-> 4, Pingresp |-> 0]

\* The types, with the places the program can be at.
HarnessTypes ==
    /\ pc \in InTest \cup InSetup \cup Elsewhere
    /\ test \in 1..Len(Tests) /\ step \in 1..5
    /\ fd \in [0..(Descriptors - 1) -> {"stdin", "output", "socket", "closed"}]
    /\ sock \in -1..(Descriptors - 1)
    /\ umqtt \in {"none", "disconnected", "pending", "connected"}
    /\ record \in [Answer -> 0..Len(Tests)]
    /\ half \in 0..1 /\ elapsed \in 0..(2 * Seconds + 1)
    /\ owed \subseteq Answer /\ inbox \in Seq(Answer)
    /\ peer \in {"none", "up", "eof", "reset"}
    /\ failed \in BOOLEAN /\ trouble \in BOOLEAN

\* A body is at one of its test's steps; only before a send it may be behind the last.
AtAStep ==
    /\ pc \in InTest => step <= Len(Tests[test]) + 1
    /\ pc \in InTest \ {"send"} => step <= Len(Tests[test])
    /\ pc \in InSetup => step = 1

\* No answer is on its way twice.
AnswersComeOnce ==
    /\ \A i, j \in 1..Len(inbox) : inbox[i] = inbox[j] => i = j
    /\ \A i \in 1..Len(inbox) : inbox[i] \notin owed

\* In a body an answer is on its way only when it was asked for and is not there
\* yet, and one that is there was asked for.
AnswersWereAsked ==
    pc \in InTest =>
        /\ \A a \in owed : record[a] = 0 /\ FirstStep[a] <= SentSteps
        /\ \A i \in 1..Len(inbox) : record[inbox[i]] = 0 /\ FirstStep[inbox[i]] <= SentSteps
        /\ \A a \in Answer : record[a] # 0 => FirstStep[a] <= SentSteps

\* What the assertions of the steps before have left behind.
EarlierStepsHeld ==
    pc \in InTest =>
        /\ step > 1 => record["Connack"] # 0
        /\ pc = "send" /\ step = 4 => record["Publish"] # 0

\* A test starts on a new connection without records.
FreshStart ==
    pc \in InSetup =>
        /\ owed = {} /\ inbox = <<>> /\ peer = "none"
        /\ \A a \in Answer : record[a] = 0

\* A record is of the test that runs.
RecordsAreOfThisTest == pc # "setup_new" => \A a \in Answer : record[a] \in {0, test}

\* What trouble there is when things are not as a test expects them.
TroubleIsNoted ==
    /\ pc \in InTest \cup InSetup => ~failed
    /\ pc \in InTest /\ peer = "reset" => trouble
    /\ pc \in InTest /\ record["Connack"] # 0 => umqtt = "connected" \/ trouble
    /\ pc \in InSetup => fd[0] = "stdin" \/ trouble
    /\ pc = "verify" /\ record[Now.wait] = 0 => trouble

\* The standard descriptors are no socket's, unless a failed set-up closes stdin.
DescriptorsAreKept ==
    /\ fd[1] = "output" /\ fd[2] = "output"
    /\ sock \in {-1, 0} \/ sock > 2

\* The read buffer and what is in it.
BufferInv ==
    /\ ReadBuffersAreFreedOnce
    /\ got \in -1..Cardinality(Answer)
    /\ pc = "decode" => got \in 1..Len(inbox)

\* The inductive invariant.
HarnessInv ==
    /\ HarnessTypes /\ AtAStep /\ AnswersComeOnce /\ AnswersWereAsked
    /\ EarlierStepsHeld /\ FreshStart /\ RecordsAreOfThisTest /\ TroubleIsNoted
    /\ DescriptorsAreKept /\ BufferInv
    /\ TestsHaveASocket /\ WaitsLongEnough /\ FailuresHaveACause

-----------------------------------------------------------------------------
(* The table of the tests.                                                 *)

\* The steps of the five tests.
LEMMA TestTable ==
    /\ Len(Tests) = 5
    /\ Len(Tests[1]) = 1 /\ Len(Tests[2]) = 1 /\ Len(Tests[3]) = 2
    /\ Len(Tests[4]) = 4 /\ Len(Tests[5]) = 0
    /\ Tests[1][1] = Connect /\ Tests[2][1] = Connect
    /\ Tests[3][1] = Connect /\ Tests[3][2] = PingStep
    /\ Tests[4][1] = Connect /\ Tests[4][2] = Subscribe
    /\ Tests[4][3] = PublishQos0 /\ Tests[4][4] = PublishQos1
  BY DEF Tests

\* How many steps a test has.
LEMMA TestLength == \A t \in 1..Len(Tests) : Len(Tests[t]) \in 0..4
  BY TestTable

\* What a step is when there is one.
LEMMA StepKinds ==
    ASSUME test \in 1..Len(Tests), step \in 1..5, step <= Len(Tests[test])
    PROVE  \/ step = 1 /\ Now = Connect
           \/ step = 2 /\ Now = PingStep
           \/ step = 2 /\ Now = Subscribe
           \/ step = 3 /\ Now = PublishQos0
           \/ step = 4 /\ Now = PublishQos1
<1>1. test \in 1..5
  BY TestTable
<1>2. CASE test = 1 \/ test = 2
  BY <1>2, TestTable DEF Now
<1>3. CASE test = 3
  BY <1>3, TestTable DEF Now
<1>4. CASE test = 4
  BY <1>4, TestTable DEF Now
<1>5. CASE test = 5
  BY <1>5, TestTable DEF Now
<1> QED BY <1>1, <1>2, <1>3, <1>4, <1>5

\* What the steps send, wait for and require.
LEMMA ConnectFields ==
    /\ Connect.resets = {} /\ Connect.before = {} /\ Connect.owes = {"Connack"}
    /\ Connect.wait = "Connack" /\ Connect.after = {"Connack"} /\ Connect.not = {}
  BY DEF Connect

\* What the ping waits for and requires.
LEMMA PingFields ==
    /\ PingStep.resets = {} /\ PingStep.before = {} /\ PingStep.owes = {}
    /\ PingStep.wait = "Pingresp" /\ PingStep.after = {"Pingresp"} /\ PingStep.not = {}
  BY DEF PingStep

\* What the subscription sends, waits for and requires.
LEMMA SubscribeFields ==
    /\ Subscribe.resets = {} /\ Subscribe.before = {"Suback"} /\ Subscribe.owes = {"Suback"}
    /\ Subscribe.wait = "Suback" /\ Subscribe.after = {"Suback"} /\ Subscribe.not = {}
  BY DEF Subscribe

\* What the QoS 0 publish sends, waits for and requires.
LEMMA PublishQos0Fields ==
    /\ PublishQos0.resets = {} /\ PublishQos0.before = {"Puback", "Publish"}
    /\ PublishQos0.owes = {"Publish"} /\ PublishQos0.wait = "Publish"
    /\ PublishQos0.after = {"Publish"} /\ PublishQos0.not = {"Puback"}
  BY DEF PublishQos0

\* What the QoS 1 publish resets, sends, waits for and requires.
LEMMA PublishQos1Fields ==
    /\ PublishQos1.resets = {"Publish", "Puback"}
    /\ PublishQos1.before = {"Puback", "Publish"}
    /\ PublishQos1.owes = {"Puback", "Publish"} /\ PublishQos1.wait = "Puback"
    /\ PublishQos1.after = {"Puback", "Publish"} /\ PublishQos1.not = {}
  BY DEF PublishQos1

\* The five steps are different ones.
LEMMA StepsDiffer ==
    /\ PingStep # Connect /\ Subscribe # Connect /\ PublishQos0 # Connect
    /\ PublishQos1 # Connect /\ Subscribe # PingStep /\ PublishQos0 # PingStep
    /\ PublishQos1 # PingStep
  BY ConnectFields, PingFields, SubscribeFields, PublishQos0Fields, PublishQos1Fields

\* When the answers are first asked for.
LEMMA FirstSteps ==
    /\ FirstStep["Connack"] = 1 /\ FirstStep["Suback"] = 2 /\ FirstStep["Publish"] = 3
    /\ FirstStep["Puback"] = 4 /\ FirstStep["Pingresp"] = 0
    /\ \A a \in Answer : FirstStep[a] \in 0..4
  BY DEF FirstStep, Answer

-----------------------------------------------------------------------------
(* The inbox.                                                              *)

\* There are finitely many answers, so the inbox is no longer than they are many.
LEMMA AnswerFinite == IsFiniteSet(Answer) /\ Cardinality(Answer) \in Nat
<1>1. IsFiniteSet({"Connack"})
  BY FS_Singleton
<1>2. IsFiniteSet({"Connack"} \cup {"Publish"})
  BY <1>1, FS_AddElement
<1>3. IsFiniteSet(({"Connack"} \cup {"Publish"}) \cup {"Puback"})
  BY <1>2, FS_AddElement
<1>4. IsFiniteSet((({"Connack"} \cup {"Publish"}) \cup {"Puback"}) \cup {"Suback"})
  BY <1>3, FS_AddElement
<1>5. IsFiniteSet(((({"Connack"} \cup {"Publish"}) \cup {"Puback"}) \cup {"Suback"})
                    \cup {"Pingresp"})
  BY <1>4, FS_AddElement
<1>6. Answer = (((({"Connack"} \cup {"Publish"}) \cup {"Puback"}) \cup {"Suback"})
                    \cup {"Pingresp"})
  BY DEF Answer
<1>7. IsFiniteSet(Answer)
  BY <1>5, <1>6
<1> QED BY <1>7, FS_CardinalityType

\* As no answer is there twice, the inbox holds no more than there are answers.
LEMMA InboxIsShort ==
    ASSUME inbox \in Seq(Answer), AnswersComeOnce
    PROVE  Len(inbox) \in Nat /\ Len(inbox) <= Cardinality(Answer)
<1>1. Len(inbox) \in Nat /\ inbox \in [1..Len(inbox) -> Answer]
  OBVIOUS
<1>2. inbox \in Injection(1..Len(inbox), Answer)
  BY <1>1 DEF AnswersComeOnce, Injection, IsInjective
<1>3. IsFiniteSet(1..Len(inbox)) /\ Cardinality(1..Len(inbox)) = Len(inbox)
  BY <1>1, FS_Interval
<1>4. Cardinality(1..Len(inbox)) <= Cardinality(Answer)
  BY <1>2, AnswerFinite, FS_Injection
<1> QED BY <1>1, <1>3, <1>4

\* The lowest closed descriptor is a closed descriptor.
LEMMA MinIsMember ==
    ASSUME NEW S \in SUBSET Nat, S # {}
    PROVE  Min(S) \in S
<1> DEFINE Less == {ss \in Nat \X Nat : ss[1] < ss[2]}
<1>1. IsWellFoundedOn(Less, Nat)
  BY NatLessThanWellFounded DEF OpToRel
<1>2. PICK x \in S : \A y \in S : ~ (<<y, x>> \in Less)
  <2> HIDE DEF Less
  <2> QED BY <1>1, WFMin
<1>3. ASSUME NEW y \in S PROVE x <= y
  <2>1. x \in Nat /\ y \in Nat
    OBVIOUS
  <2>2. ~(y < x)
    BY <1>2, <2>1
  <2> QED BY <2>1, <2>2
<1> QED BY <1>3 DEF Min

\* The inbox before and after an answer is decoded.
LEMMA DecodeTakesFirst ==
    ASSUME HarnessInv, Decode
    PROVE  /\ Head(inbox) = inbox[1] /\ Head(inbox) \in Answer
           /\ inbox' \in Seq(Answer) /\ Len(inbox) \in Nat /\ Len(inbox) >= 1
           /\ Len(inbox') = Len(inbox) - 1
           /\ \A i \in 1..Len(inbox') : i + 1 \in 1..Len(inbox) /\ inbox'[i] = inbox[i + 1]
<1>1. inbox \in Seq(Answer) /\ got \in 1..Len(inbox)
  BY DEF HarnessInv, HarnessTypes, BufferInv, Decode
<1>2. Len(inbox) \in Nat /\ Len(inbox) >= 1 /\ inbox # <<>>
  BY <1>1
<1>3. /\ Head(inbox) \in Answer /\ Tail(inbox) \in Seq(Answer)
      /\ Len(Tail(inbox)) = Len(inbox) - 1
      /\ \A i \in 1..Len(Tail(inbox)) : Tail(inbox)[i] = inbox[i + 1]
  BY <1>1, <1>2, HeadTailProperties
<1>4. Head(inbox) = inbox[1]
  BY <1>1, <1>2
<1>5. inbox' = Tail(inbox)
  BY DEF Decode
<1> QED BY <1>2, <1>3, <1>4, <1>5

\* The inbox after several packets were lost.
LEMMA SeveralAreLost ==
    ASSUME HarnessInv, DecodeSeveral
    PROVE  /\ inbox' \in Seq(Answer) /\ Len(inbox) \in Nat
           /\ \A i \in 1..Len(inbox') : i + got \in 1..Len(inbox) /\ inbox'[i] = inbox[i + got]
<1>1. inbox \in Seq(Answer) /\ got \in 1..Len(inbox) /\ Len(inbox) \in Nat
  BY DEF HarnessInv, HarnessTypes, BufferInv, DecodeSeveral
<1>2. inbox' = SubSeq(inbox, got + 1, Len(inbox))
  BY DEF DecodeSeveral
<1>3. \A i \in (got + 1)..Len(inbox) : inbox[i] \in Answer
  BY <1>1
<1>4. /\ inbox' \in Seq(Answer)
      /\ Len(inbox') = IF got + 1 <= Len(inbox) THEN Len(inbox) - (got + 1) + 1 ELSE 0
      /\ \A i \in 1..(Len(inbox) - (got + 1) + 1) : inbox'[i] = inbox[got + 1 + i - 1]
  BY <1>1, <1>2, <1>3, SubSeqProperties
<1> QED BY <1>1, <1>4

\* The inbox after the broker answered.
LEMMA AnswerIsLast ==
    ASSUME HarnessInv, NEW a \in owed, inbox' = Append(inbox, a)
    PROVE  /\ inbox' \in Seq(Answer) /\ Len(inbox) \in Nat /\ Len(inbox') = Len(inbox) + 1
           /\ inbox'[Len(inbox) + 1] = a
           /\ \A i \in 1..Len(inbox) : inbox'[i] = inbox[i]
<1>1. inbox \in Seq(Answer) /\ a \in Answer
  BY DEF HarnessInv, HarnessTypes
<1> QED BY <1>1, AppendProperties

\* The socket a set-up gets.
LEMMA ConnectGivesASocket ==
    ASSUME HarnessInv, SetupConnect
    PROVE  \/ /\ sock' \in {0, -1} /\ trouble' = TRUE /\ UNCHANGED netVars
           \/ /\ sock' \in 0..(Descriptors - 1) /\ (sock' = 0 \/ sock' > 2)
              /\ fd' = [fd EXCEPT ![sock'] = "socket"] /\ fd[sock'] = "closed"
              /\ peer' = "up" /\ owed' = {} /\ inbox' = <<>> /\ UNCHANGED trouble
<1>1. ConnectToServer
  BY DEF SetupConnect
<1>2. CASE sock' \in {0, -1} /\ trouble' = TRUE /\ UNCHANGED netVars
  BY <1>2
<1>3. CASE /\ Closed # {} /\ sock' = Min(Closed)
           /\ fd' = [fd EXCEPT ![sock'] = "socket"]
           /\ peer' = "up" /\ owed' = {} /\ inbox' = <<>>
           /\ UNCHANGED trouble
  <2>1. /\ fd \in [0..(Descriptors - 1) -> {"stdin", "output", "socket", "closed"}]
        /\ fd[1] = "output" /\ fd[2] = "output" /\ Descriptors \in Nat
    BY DescriptorsAssumption DEF HarnessInv, HarnessTypes, DescriptorsAreKept
  <2>2. Closed \in SUBSET Nat /\ Closed \subseteq 0..(Descriptors - 1)
    BY <2>1 DEF Closed
  <2>3. sock' \in Closed
    BY <1>3, <2>2, MinIsMember
  <2>4. sock' # 1 /\ sock' # 2 /\ fd[sock'] = "closed"
    BY <2>1, <2>3 DEF Closed
  <2>5. sock' \in 0..(Descriptors - 1) /\ (sock' = 0 \/ sock' > 2)
    BY <2>1, <2>2, <2>3, <2>4
  <2> QED BY <1>3, <2>4, <2>5
<1> QED BY <1>1, <1>2, <1>3 DEF ConnectToServer

-----------------------------------------------------------------------------
(* Every action keeps the invariant.                                       *)

\* The set-up, the body and the tear-down keep the types, and so does what happens
\* around them.
LEMMA TypesStep ==
    ASSUME HarnessInv, Next
    PROVE  HarnessTypes'
<1>0. HarnessTypes /\ AtAStep /\ 0 \in 0..Len(Tests) /\ Len(Tests) = 5
  BY TestTable DEF HarnessInv
<1>a. /\ {"teardown", "next", "close", "setup_new", "done"} \subseteq Elsewhere
      /\ {"setup_run", "setup_connect"} \subseteq InSetup
      /\ {"send", "run", "decode", "timed", "check", "verify"} \subseteq InTest
  BY DEF Elsewhere, InSetup, InTest
<1>1. CASE SetupNew
  <2>1. record' \in [Answer -> 0..Len(Tests)] /\ inbox' \in Seq(Answer)
    BY <1>0, <1>1, EmptySeq DEF SetupNew, RecordsReset
  <2>2. /\ pc' \in {"setup_run", "teardown"} /\ umqtt' \in {"none", "disconnected"}
        /\ failed' \in BOOLEAN /\ trouble' \in BOOLEAN
    BY <1>1 DEF SetupNew, Fail
  <2>3. /\ sock' = 0 /\ step' = 1 /\ owed' = {} /\ peer' = "none"
        /\ UNCHANGED <<test, fd, half, elapsed>>
    BY <1>1 DEF SetupNew, timeVars
  <2>4. sock' \in -1..(Descriptors - 1)
    BY <2>3, DescriptorsAssumption
  <2> QED BY <1>0, <1>a, <2>1, <2>2, <2>3, <2>4 DEF HarnessTypes
<1>2. CASE SetupRun
  BY <1>0, <1>a, <1>2 DEF SetupRun, Fail, progVars, netVars, timeVars, resultVars, HarnessTypes
<1>3. CASE SetupConnect
  <2>1. pc' \in {"send", "teardown"} /\ failed' \in BOOLEAN
    BY <1>0, <1>3 DEF SetupConnect, Fail, HarnessTypes
  <2>2. sock' \in -1..(Descriptors - 1)
    <3>1. sock' \in {0, -1} \/ sock' \in 0..(Descriptors - 1)
      BY <1>3, ConnectGivesASocket
    <3> QED BY <3>1, DescriptorsAssumption
  <2>3. trouble' \in BOOLEAN
    BY <1>0, <1>3, ConnectGivesASocket DEF HarnessTypes
  <2>4. /\ fd' \in [0..(Descriptors - 1) -> {"stdin", "output", "socket", "closed"}]
        /\ owed' \subseteq Answer /\ inbox' \in Seq(Answer)
        /\ peer' \in {"none", "up", "eof", "reset"}
    BY <1>0, <1>3, ConnectGivesASocket, EmptySeq DEF HarnessTypes, netVars
  <2> QED BY <1>0, <1>a, <1>3, <2>1, <2>2, <2>3, <2>4 DEF SetupConnect, timeVars, HarnessTypes
<1>4. CASE TestEnds
  BY <1>0, <1>a, <1>4 DEF TestEnds, progVars, netVars, timeVars, resultVars, HarnessTypes
<1>5. CASE Send
  <2>1. record' \in [Answer -> 0..Len(Tests)]
    BY <1>0, <1>5 DEF Send, HarnessTypes
  <2>2. owed' \subseteq Answer
    <3>1. Now.owes \subseteq Answer
      <4>1. step <= Len(Tests[test])
        BY <1>5 DEF Send
      <4> QED BY <1>0, <4>1, StepKinds, ConnectFields, PingFields, SubscribeFields,
                 PublishQos0Fields, PublishQos1Fields DEF HarnessTypes, Answer
    <3> QED BY <1>0, <1>5, <3>1 DEF Send, HarnessTypes
  <2>3. pc' \in {"run", "teardown"} /\ failed' \in BOOLEAN /\ trouble' \in BOOLEAN
    BY <1>0, <1>5 DEF Send, Fail, resultVars, HarnessTypes
  <2>4. umqtt' \in {"none", "disconnected", "pending", "connected"}
    BY <1>0, <1>5 DEF Send, HarnessTypes
  <2>5. half' \in 0..1 /\ elapsed' \in 0..(2 * Seconds + 1)
    BY <1>5, SecondsAssumption DEF Send
  <2>6. UNCHANGED <<test, step, sock, fd, inbox, peer>>
    BY <1>5 DEF Send
  <2> QED BY <1>0, <1>a, <2>1, <2>2, <2>3, <2>4, <2>5, <2>6 DEF HarnessTypes
<1>6. CASE Run
  <2>1. pc' \in {"teardown", "timed", "decode"} /\ failed' \in BOOLEAN
    BY <1>0, <1>6 DEF Run, Fail, HarnessTypes
  <2>2. UNCHANGED <<test, step, sock, record, fd, owed, inbox, peer, umqtt, half, elapsed, trouble>>
    BY <1>6 DEF Run, netVars, timeVars
  <2> QED BY <1>0, <1>a, <2>1, <2>2 DEF HarnessTypes
<1>7. CASE Decode
  <2>1. record' \in [Answer -> 0..Len(Tests)]
    <3>1. record' = [record EXCEPT ![Head(inbox)] = test]
      BY <1>7 DEF Decode
    <3>2. test \in 0..Len(Tests) /\ record \in [Answer -> 0..Len(Tests)]
      BY <1>0 DEF HarnessTypes
    <3> QED BY <3>1, <3>2
  <2>2. inbox' \in Seq(Answer)
    BY <1>7, DecodeTakesFirst
  <2>3. /\ umqtt' \in {"none", "disconnected", "pending", "connected"}
        /\ trouble' \in BOOLEAN
    BY <1>0, <1>7 DEF Decode, HarnessTypes
  <2>4. pc' = "timed" /\ UNCHANGED <<test, step, sock, fd, owed, peer, half, elapsed, failed>>
    BY <1>7 DEF Decode, timeVars
  <2> QED BY <1>0, <1>a, <2>1, <2>2, <2>3, <2>4 DEF HarnessTypes
<1>8. CASE DecodeSeveral
  <2>1. inbox' \in Seq(Answer)
    BY <1>8, SeveralAreLost
  <2>2. /\ pc' = "teardown" /\ failed' = TRUE
        /\ UNCHANGED <<test, step, sock, record, fd, owed, peer, umqtt, half, elapsed, trouble>>
    BY <1>8 DEF DecodeSeveral, Fail, timeVars
  <2> QED BY <1>0, <1>a, <2>1, <2>2 DEF HarnessTypes
<1>9. CASE Timed
  <2>1. owed' \subseteq Answer
    BY <1>0, <1>9 DEF Timed, HarnessTypes, Answer
  <2>2. umqtt' \in {"none", "disconnected", "pending", "connected"}
    BY <1>0, <1>9 DEF Timed, HarnessTypes
  <2>3. pc' \in {"check", "teardown"} /\ failed' \in BOOLEAN /\ trouble' \in BOOLEAN
    BY <1>0, <1>9 DEF Timed, Fail, resultVars, HarnessTypes
  <2>4. UNCHANGED <<test, step, sock, record, fd, inbox, peer, half, elapsed>>
    BY <1>9 DEF Timed, progVars, timeVars
  <2> QED BY <1>0, <1>a, <2>1, <2>2, <2>3, <2>4 DEF HarnessTypes
<1>10. CASE Check
  <2>1. pc' \in {"run", "verify"} /\ trouble' \in BOOLEAN
    BY <1>0, <1>10 DEF Check, HarnessTypes
  <2>2. UNCHANGED <<test, step, sock, record, fd, owed, inbox, peer, umqtt, half, elapsed, failed>>
    BY <1>10 DEF Check, progVars, netVars, timeVars
  <2> QED BY <1>0, <1>a, <2>1, <2>2 DEF HarnessTypes
<1>11. CASE Verify
  <2>1. step' \in 1..5
    <3>1. step <= Len(Tests[test])
      BY <1>a, <1>0, <1>11 DEF Verify, AtAStep
    <3>2. step \in 1..4
      BY <1>0, <3>1, StepKinds DEF HarnessTypes
    <3>3. step' = step + 1 \/ step' = step
      BY <1>11 DEF Verify
    <3> QED BY <3>2, <3>3
  <2>2. pc' \in {"send", "teardown"} /\ failed' \in BOOLEAN
    BY <1>0, <1>11 DEF Verify, Fail, HarnessTypes
  <2>3. UNCHANGED <<test, sock, record, fd, owed, inbox, peer, umqtt, half, elapsed, trouble>>
    BY <1>11 DEF Verify, netVars, timeVars
  <2> QED BY <1>0, <1>a, <2>1, <2>2, <2>3 DEF HarnessTypes
<1>12. CASE TearDown
  <2>1. umqtt' \in {"none", "disconnected", "pending", "connected"}
    BY <1>0, <1>12 DEF TearDown, HarnessTypes
  <2>2. pc' \in {"close", "next"} /\ failed' \in BOOLEAN /\ trouble' \in BOOLEAN
    BY <1>0, <1>12 DEF TearDown, resultVars, HarnessTypes
  <2> QED BY <1>0, <1>a, <1>12, <2>1, <2>2 DEF TearDown, progVars, netVars, timeVars, HarnessTypes
<1>13. CASE TearDownClose
  <2>1. fd' \in [0..(Descriptors - 1) -> {"stdin", "output", "socket", "closed"}]
    BY <1>0, <1>13 DEF TearDownClose, HarnessTypes
  <2>2. inbox' \in Seq(Answer)
    BY <1>13, EmptySeq DEF TearDownClose
  <2> QED BY <1>0, <1>a, <1>13, <2>1, <2>2
          DEF TearDownClose, progVars, timeVars, resultVars, HarnessTypes
<1>14. CASE NextTest
  <2>1. test' \in 1..Len(Tests) /\ pc' \in {"setup_new", "done"}
    BY <1>0, <1>14 DEF NextTest, MoreTests, HarnessTypes
  <2> QED BY <1>0, <1>a, <1>14, <2>1 DEF NextTest, netVars, timeVars, resultVars, HarnessTypes
<1>15. CASE BrokerAnswers
  <2>1. PICK a \in owed : owed' = owed \ {a} /\ inbox' = Append(inbox, a)
    BY <1>15 DEF BrokerAnswers
  <2>2. inbox' \in Seq(Answer)
    BY <2>1, AnswerIsLast
  <2> QED BY <1>0, <1>15, <2>1, <2>2
          DEF BrokerAnswers, progVars, timeVars, resultVars, HarnessTypes
<1>16. CASE ConnectionDrops
  BY <1>0, <1>16 DEF ConnectionDrops, progVars, timeVars, HarnessTypes
<1>17. CASE Tick
  <2>1. elapsed' \in 0..(2 * Seconds + 1)
    BY <1>0, <1>17, SecondsAssumption DEF Tick, HarnessTypes
  <2> QED BY <1>0, <1>17, <2>1 DEF Tick, progVars, netVars, resultVars, HarnessTypes
<1>18. CASE Done
  BY <1>0, <1>18 DEF Done, vars, progVars, netVars, timeVars, resultVars, HarnessTypes
<1> QED BY <1>1, <1>2, <1>3, <1>4, <1>5, <1>6, <1>7, <1>8, <1>9, <1>10, <1>11, <1>12,
           <1>13, <1>14, <1>15, <1>16, <1>17, <1>18 DEF Next, Program

\* The steps that do not touch where the test is, what it recorded and what is on
\* its way.
LEMMA QuietSteps ==
    /\ SetupRun => UNCHANGED <<test, step, record, owed, inbox, peer, fd, sock, umqtt, elapsed>>
    /\ TestEnds => UNCHANGED <<test, step, record, owed, inbox, peer, fd, sock, umqtt, elapsed>>
    /\ Run => UNCHANGED <<test, step, record, owed, inbox, peer, fd, sock, umqtt, elapsed>>
    /\ Check => UNCHANGED <<test, step, record, owed, inbox, peer, fd, sock, umqtt, elapsed>>
    /\ Done => UNCHANGED <<test, step, record, owed, inbox, peer, fd, sock, umqtt, elapsed>>
<1>1. SetupRun => UNCHANGED <<test, step, record, owed, inbox, peer, fd, sock, umqtt, elapsed>>
  BY DEF SetupRun, progVars, netVars, timeVars
<1>2. TestEnds => UNCHANGED <<test, step, record, owed, inbox, peer, fd, sock, umqtt, elapsed>>
  BY DEF TestEnds, progVars, netVars, timeVars
<1>3. Run => UNCHANGED <<test, step, record, owed, inbox, peer, fd, sock, umqtt, elapsed>>
  BY DEF Run, netVars, timeVars
<1>4. Check => UNCHANGED <<test, step, record, owed, inbox, peer, fd, sock, umqtt, elapsed>>
  BY DEF Check, progVars, netVars, timeVars
<1>5. Done => UNCHANGED <<test, step, record, owed, inbox, peer, fd, sock, umqtt, elapsed>>
  BY DEF Done, vars, progVars, netVars, timeVars
<1> QED BY <1>1, <1>2, <1>3, <1>4, <1>5

\* How a step can lead into a body or stay in one.
LEMMA BodyMoves ==
    ASSUME HarnessInv, Next, pc' \in InTest
    PROVE  \/ SetupConnect /\ pc \in InSetup /\ pc' = "send" /\ step = 1 /\ step' = 1
           \/ Send /\ pc = "send" /\ pc' = "run" /\ step' = step
           \/ Verify /\ pc = "verify" /\ pc' = "send" /\ step' = step + 1
           \/ pc = "send" /\ pc' = "send" /\ step' = step /\ (BrokerAnswers \/ ConnectionDrops)
           \/ /\ pc \in InTest \ {"send"} /\ pc' \in InTest \ {"send"} /\ step' = step
              /\ \/ Run \/ Decode \/ Timed \/ Check
                 \/ BrokerAnswers \/ ConnectionDrops \/ Tick
<1>1. CASE SetupNew \/ SetupRun \/ TestEnds \/ DecodeSeveral \/ TearDown \/ TearDownClose
           \/ NextTest \/ Done
  <2>1. pc' \notin InTest
    BY <1>1 DEF SetupNew, SetupRun, TestEnds, DecodeSeveral, TearDown, TearDownClose,
                NextTest, Done, Fail, vars, InTest
  <2> QED BY <2>1
<1>2. CASE SetupConnect
  <2>1. pc = "setup_connect" /\ pc' \in {"send", "teardown"} /\ step' = step
    BY <1>2 DEF SetupConnect, Fail
  <2>2. step = 1
    BY <2>1 DEF HarnessInv, AtAStep, InSetup
  <2> QED BY <1>2, <2>1, <2>2 DEF InTest, InSetup
<1>3. CASE Send
  BY <1>3 DEF Send, Fail, InTest
<1>4. CASE Verify
  BY <1>4 DEF Verify, Fail, InTest
<1>5. CASE Run
  BY <1>5 DEF Run, Fail, InTest
<1>6. CASE Decode
  BY <1>6 DEF Decode, InTest
<1>7. CASE Timed
  BY <1>7 DEF Timed, Fail, progVars, InTest
<1>8. CASE Check
  BY <1>8 DEF Check, progVars, InTest
<1>9. CASE BrokerAnswers \/ ConnectionDrops \/ Tick
  <2>1. pc' = pc /\ step' = step
    BY <1>9 DEF BrokerAnswers, ConnectionDrops, Tick, progVars
  <2>2. CASE pc = "send"
    BY <1>9, <2>1, <2>2 DEF Tick
  <2>3. CASE pc # "send"
    BY <1>9, <2>1, <2>3
  <2> QED BY <2>2, <2>3
<1> QED BY <1>1, <1>2, <1>3, <1>4, <1>5, <1>6, <1>7, <1>8, <1>9 DEF Next, Program

\* A body stays on a step of its test.
LEMMA AtAStepStep ==
    ASSUME HarnessInv, Next
    PROVE  AtAStep'
<1>0. HarnessTypes /\ HarnessTypes' /\ AtAStep /\ step \in Int
  BY TypesStep DEF HarnessInv, HarnessTypes
<1>1. ASSUME pc' \in InTest
      PROVE  /\ step' <= Len(Tests[test'])  + 1
             /\ pc' # "send" => step' <= Len(Tests[test'])
  <2>1. test' = test
    BY <1>1, BodyMoves, QuietSteps DEF SetupConnect, Send, Verify, Decode, Timed, BrokerAnswers,
       ConnectionDrops, Tick, progVars
  <2>2. PICK n \in Nat : n = Len(Tests[test])
    <3>1. test \in 1..Len(Tests)
      BY <1>0 DEF HarnessTypes
    <3>2. Len(Tests[test]) \in Nat
      BY <3>1, TestLength
    <3> WITNESS Len(Tests[test]) \in Nat
    <3> QED OBVIOUS
  <2>3. CASE SetupConnect /\ step' = 1 /\ pc' = "send"
    BY <2>1, <2>2, <2>3
  <2>4. CASE Send /\ step' = step
    <3>1. step <= n
      BY <2>2, <2>4 DEF Send
    <3> QED BY <1>0, <2>1, <2>2, <2>4, <3>1
  <2>5. CASE Verify /\ pc = "verify" /\ pc' = "send" /\ step' = step + 1
    <3>1. step <= n
      BY <1>0, <2>2, <2>5 DEF AtAStep, InTest
    <3> QED BY <1>0, <2>1, <2>2, <2>5, <3>1
  <2>6. CASE pc = "send" /\ pc' = "send" /\ step' = step
    BY <1>0, <2>1, <2>6 DEF AtAStep, InTest
  <2>7. CASE pc \in InTest \ {"send"} /\ pc' \in InTest \ {"send"} /\ step' = step
    BY <1>0, <2>1, <2>7 DEF AtAStep
  <2> QED BY <1>1, <2>3, <2>4, <2>5, <2>6, <2>7, BodyMoves
<1>2. pc' \in InSetup => step' = 1
  <2>1. CASE SetupNew
    BY <2>1 DEF SetupNew
  <2>2. CASE SetupRun
    BY <1>0, <2>2 DEF SetupRun, progVars, AtAStep, InSetup
  <2>3. CASE BrokerAnswers \/ ConnectionDrops \/ Tick \/ Done
    BY <1>0, <2>3 DEF BrokerAnswers, ConnectionDrops, Tick, Done, vars, progVars, AtAStep
  <2>4. CASE ~(SetupNew \/ SetupRun \/ BrokerAnswers \/ ConnectionDrops \/ Tick \/ Done)
    <3>1. pc' \notin InSetup
      BY <2>4 DEF Next, Program, SetupConnect, TestEnds, Send, Run, Decode, DecodeSeveral, Timed,
         Check, Verify, TearDown, TearDownClose, NextTest, Fail, InSetup
    <3> QED BY <3>1
  <2> QED BY <2>1, <2>2, <2>3, <2>4
<1> QED BY <1>1, <1>2 DEF AtAStep

\* What a step takes from the front of the inbox leaves no answer there twice.
LEMMA FrontTaken ==
    ASSUME AnswersComeOnce, NEW k \in Nat, Len(inbox) \in Nat, inbox' \in Seq(Answer),
           \A i \in 1..Len(inbox') : i + k \in 1..Len(inbox) /\ inbox'[i] = inbox[i + k],
           owed' \subseteq owed
    PROVE  AnswersComeOnce'
<1>1. Len(inbox') \in Nat
  OBVIOUS
<1>2. ASSUME NEW i \in 1..Len(inbox'), NEW j \in 1..Len(inbox'), inbox'[i] = inbox'[j]
      PROVE  i = j
  <2>1. i + k \in 1..Len(inbox) /\ j + k \in 1..Len(inbox) /\ inbox[i + k] = inbox[j + k]
    BY <1>2
  <2>2. i + k = j + k
    BY <2>1 DEF AnswersComeOnce
  <2> QED BY <1>1, <2>2
<1>3. ASSUME NEW i \in 1..Len(inbox') PROVE inbox'[i] \notin owed'
  BY <1>3 DEF AnswersComeOnce
<1> QED BY <1>2, <1>3 DEF AnswersComeOnce

\* What a step is about to ask for was not asked for before in this test; only the
\* QoS 1 publish expects an answer that came once already.
LEMMA SendAsksAnew ==
    ASSUME HarnessInv, Send
    PROVE  /\ \A a \in Now.owes : FirstStep[a] = step \/ (a = "Publish" /\ step = 4)
           /\ \A a \in Now.owes : FirstStep[a] <= step
           /\ \A i \in 1..Len(inbox) : inbox[i] \notin Now.owes
<1>1. pc = "send" /\ pc \in InTest /\ step <= Len(Tests[test])
  BY DEF Send, InTest
<1>2. test \in 1..Len(Tests) /\ step \in 1..5
  BY DEF HarnessInv, HarnessTypes
<1>3. \A a \in Now.owes : FirstStep[a] = step \/ (a = "Publish" /\ step = 4)
  BY <1>1, <1>2, StepKinds, FirstSteps, ConnectFields, PingFields, SubscribeFields,
     PublishQos0Fields, PublishQos1Fields
<1>4. \A a \in Now.owes : FirstStep[a] <= step
  BY <1>2, <1>3, FirstSteps
<1>5. ASSUME NEW i \in 1..Len(inbox), inbox[i] \in Now.owes
      PROVE  FALSE
  <2>1. record[inbox[i]] = 0 /\ FirstStep[inbox[i]] <= SentSteps
    BY <1>1 DEF HarnessInv, AnswersWereAsked
  <2>2. FirstStep[inbox[i]] <= step - 1
    BY <1>1, <2>1 DEF SentSteps
  <2>3. inbox[i] = "Publish" /\ step = 4
    BY <1>2, <1>3, <1>5, <2>2
  <2>4. record["Publish"] # 0
    BY <1>1, <2>3 DEF HarnessInv, EarlierStepsHeld
  <2> QED BY <2>1, <2>3, <2>4
<1> QED BY <1>3, <1>4, <1>5

\* No action puts an answer on its way that is on it already.
LEMMA AnswersComeOnceStep ==
    ASSUME HarnessInv, Next
    PROVE  AnswersComeOnce'
<1>0. AnswersComeOnce
  BY DEF HarnessInv
<1>1. CASE inbox' = <<>>
  <2>1. Len(inbox') = 0
    BY <1>1
  <2> QED BY <2>1 DEF AnswersComeOnce
<1>2. CASE UNCHANGED <<inbox, owed>>
  BY <1>0, <1>2 DEF AnswersComeOnce
<1>3. CASE Send
  <2>1. inbox' = inbox /\ (owed' = owed \/ owed' = owed \cup Now.owes)
    BY <1>3 DEF Send
  <2>2. \A i \in 1..Len(inbox) : inbox[i] \notin Now.owes
    BY <1>3, SendAsksAnew
  <2> QED BY <1>0, <2>1, <2>2 DEF AnswersComeOnce
<1>4. CASE Decode
  <2>1. owed' = owed
    BY <1>4 DEF Decode
  <2> QED BY <1>0, <1>4, <2>1, DecodeTakesFirst, FrontTaken
<1>5. CASE DecodeSeveral
  <2>1. owed' = owed /\ got \in Nat
    <3>1. got \in 1..Len(inbox)
      BY <1>5 DEF DecodeSeveral, HarnessInv, BufferInv
    <3> QED BY <1>5, <3>1 DEF DecodeSeveral
  <2> QED BY <1>0, <1>5, <2>1, SeveralAreLost, FrontTaken
<1>6. CASE Timed
  <2>1. inbox \in Seq(Answer)
    BY DEF HarnessInv, HarnessTypes
  <2>2. DOMAIN inbox = 1..Len(inbox)
    BY <2>1
  <2> QED BY <1>0, <1>6, <2>2 DEF Timed, AnswersComeOnce
<1>7. CASE BrokerAnswers
  <2>1. PICK a \in owed : owed' = owed \ {a} /\ inbox' = Append(inbox, a)
    BY <1>7 DEF BrokerAnswers
  <2>2. /\ Len(inbox) \in Nat /\ Len(inbox') = Len(inbox) + 1
        /\ inbox'[Len(inbox) + 1] = a
        /\ \A i \in 1..Len(inbox) : inbox'[i] = inbox[i]
    BY <2>1, AnswerIsLast
  <2>3. \A i \in 1..Len(inbox) : inbox[i] # a
    BY <1>0 DEF AnswersComeOnce
  <2>4. \A i \in 1..Len(inbox') : i = Len(inbox) + 1 \/ i \in 1..Len(inbox)
    BY <2>2
  <2>5. ASSUME NEW i \in 1..Len(inbox'), NEW j \in 1..Len(inbox'), inbox'[i] = inbox'[j]
        PROVE  i = j
    BY <1>0, <2>2, <2>3, <2>4, <2>5 DEF AnswersComeOnce
  <2>6. ASSUME NEW i \in 1..Len(inbox') PROVE inbox'[i] \notin owed'
    BY <1>0, <2>1, <2>2, <2>3, <2>4 DEF AnswersComeOnce
  <2> QED BY <2>5, <2>6 DEF AnswersComeOnce
<1>8. CASE SetupNew \/ TearDownClose
  BY <1>1, <1>8 DEF SetupNew, TearDownClose
<1>9. CASE SetupConnect
  BY <1>1, <1>2, <1>9 DEF SetupConnect, ConnectToServer, netVars
<1>10. CASE Verify \/ TearDown \/ NextTest \/ ConnectionDrops \/ Tick
  BY <1>2, <1>10 DEF Verify, TearDown, NextTest, ConnectionDrops, Tick, netVars
<1>11. CASE SetupRun \/ TestEnds \/ Run \/ Check \/ Done
  BY <1>2, <1>11, QuietSteps
<1> QED BY <1>3, <1>4, <1>5, <1>6, <1>7, <1>8, <1>9, <1>10, <1>11 DEF Next, Program

\* A body that begins has a connection on which nothing was asked.
LEMMA BodyStartsFresh ==
    ASSUME HarnessInv, SetupConnect, pc' = "send"
    PROVE  /\ sock' \in 0..(Descriptors - 1) /\ sock' > 2
           /\ fd' = [fd EXCEPT ![sock'] = "socket"]
           /\ peer' = "up" /\ owed' = {} /\ inbox' = <<>> /\ UNCHANGED trouble
           /\ \A a \in Answer : record'[a] = 0
<1>1. sock' > 0 /\ record' = record /\ pc \in InSetup
  BY DEF SetupConnect, IsSocket, Fail, InSetup
<1>2. sock' \notin {0, -1}
  BY <1>1
<1>3. \A a \in Answer : record'[a] = 0
  BY <1>1 DEF HarnessInv, FreshStart
<1> QED BY <1>1, <1>2, <1>3, ConnectGivesASocket

\* What a step sends is asked for from then on; what was asked for stays so.
LEMMA AnswersWereAskedStep ==
    ASSUME HarnessInv, Next
    PROVE  AnswersWereAsked'
<1> SUFFICES ASSUME pc' \in InTest
             PROVE  /\ \A a \in owed' : record'[a] = 0 /\ FirstStep[a] <= SentSteps'
                    /\ \A i \in 1..Len(inbox') : record'[inbox'[i]] = 0 /\ FirstStep[inbox'[i]] <= SentSteps'
                    /\ \A a \in Answer : record'[a] # 0 => FirstStep[a] <= SentSteps'
  BY DEF AnswersWereAsked
<1>0. /\ step \in 1..5 /\ owed \subseteq Answer /\ inbox \in Seq(Answer) /\ AnswersComeOnce
      /\ record \in [Answer -> 0..Len(Tests)] /\ test \in 1..Len(Tests) /\ AnswersWereAsked
  BY DEF HarnessInv, HarnessTypes
<1>1. \A i \in 1..Len(inbox) : inbox[i] \in Answer
  BY <1>0
<1>2. CASE SetupConnect /\ pc' = "send"
  <2>1. owed' = {} /\ inbox' = <<>> /\ \A a \in Answer : record'[a] = 0
    BY <1>2, BodyStartsFresh
  <2>2. Len(inbox') = 0
    BY <2>1
  <2> QED BY <2>1, <2>2
<1>3. CASE Send /\ pc = "send" /\ pc' = "run" /\ step' = step
  <2>1. SentSteps = step - 1 /\ SentSteps' = step /\ pc \in InTest
    BY <1>3 DEF SentSteps, InTest
  <2>2. \A a \in Answer : FirstStep[a] <= SentSteps => FirstStep[a] <= SentSteps'
    <3>1. \A a \in Answer : FirstStep[a] \in Int
      BY FirstSteps
    <3>2. step \in Int
      BY <1>0
    <3> QED BY <2>1, <3>1, <3>2
  <2>3. \A a \in Answer : record'[a] \in {0, record[a]}
    BY <1>3 DEF Send
  <2>4. inbox' = inbox /\ (owed' = owed \/ owed' = owed \cup Now.owes)
    BY <1>3 DEF Send
  <2>5. ASSUME NEW a \in Now.owes PROVE a \in Answer /\ record'[a] = 0 /\ FirstStep[a] <= SentSteps'
    <3>1. FirstStep[a] <= SentSteps'
      BY <1>3, <2>1, SendAsksAnew
    <3>2. \A b \in Now.before : record'[b] = 0
      BY <1>3 DEF Send, Fail
    <3>3. step <= Len(Tests[test])
      BY <1>3 DEF Send
    <3>4. a \in Answer /\ (a \in Now.before \/ (a = "Connack" /\ step = 1))
      BY <1>0, <3>3, StepKinds, ConnectFields, PingFields, SubscribeFields,
         PublishQos0Fields, PublishQos1Fields DEF Answer
    <3>5. CASE a = "Connack" /\ step = 1
      <4>1. ~(FirstStep["Connack"] <= SentSteps)
        BY <2>1, <3>5, FirstSteps
      <4>2. record[a] = 0
        BY <1>0, <2>1, <3>4, <3>5, <4>1 DEF AnswersWereAsked
      <4> QED BY <2>3, <3>1, <3>4, <4>2
    <3> QED BY <3>1, <3>2, <3>4, <3>5
  <2>6. \A a \in owed' : record'[a] = 0 /\ FirstStep[a] <= SentSteps'
    BY <1>0, <2>1, <2>2, <2>3, <2>4, <2>5 DEF AnswersWereAsked
  <2>7. \A i \in 1..Len(inbox') : record'[inbox'[i]] = 0 /\ FirstStep[inbox'[i]] <= SentSteps'
    <3>1. \A i \in 1..Len(inbox) : record[inbox[i]] = 0 /\ FirstStep[inbox[i]] <= SentSteps
      BY <1>0, <2>1 DEF AnswersWereAsked
    <3>2. \A i \in 1..Len(inbox) : record'[inbox[i]] = 0 /\ FirstStep[inbox[i]] <= SentSteps'
      <4> TAKE i \in 1..Len(inbox)
      <4> DEFINE a == inbox[i]
      <4>1. a \in Answer /\ record[a] = 0 /\ FirstStep[a] <= SentSteps
        BY <1>1, <3>1
      <4> HIDE DEF a
      <4>2. record'[a] = 0 /\ FirstStep[a] <= SentSteps'
        BY <2>2, <2>3, <4>1
      <4> QED BY <2>4, <4>2 DEF a
    <3> QED BY <2>4, <3>2
  <2>8. \A a \in Answer : record'[a] # 0 => FirstStep[a] <= SentSteps'
    BY <1>0, <2>1, <2>2, <2>3 DEF AnswersWereAsked
  <2> QED BY <2>6, <2>7, <2>8
<1>4. CASE /\ pc \in InTest /\ SentSteps' = SentSteps
           /\ \/ UNCHANGED <<record, owed, inbox>>
              \/ Decode \/ Timed \/ BrokerAnswers
  <2>1. SentSteps' = SentSteps
    BY <1>4
  <2>2. /\ \A a \in owed : record[a] = 0 /\ FirstStep[a] <= SentSteps
        /\ \A i \in 1..Len(inbox) : record[inbox[i]] = 0 /\ FirstStep[inbox[i]] <= SentSteps
        /\ \A a \in Answer : record[a] # 0 => FirstStep[a] <= SentSteps
    BY <1>0, <1>4 DEF AnswersWereAsked
  <2>3. CASE UNCHANGED <<record, owed, inbox>>
    BY <1>4, <2>2, <2>3
  <2>4. CASE Decode
    <3>1. /\ inbox[1] \in Answer /\ 1 \in 1..Len(inbox) /\ Len(inbox') \in Nat
          /\ \A i \in 1..Len(inbox') : i + 1 \in 1..Len(inbox) /\ inbox'[i] = inbox[i + 1]
      BY <2>4, DecodeTakesFirst
    <3>2. record' = [record EXCEPT ![inbox[1]] = test] /\ owed' = owed
      BY <2>4, DecodeTakesFirst DEF Decode
    <3>3. inbox[1] \notin owed
      BY <1>0, <3>1 DEF AnswersComeOnce
    <3>4. \A a \in owed' : record'[a] = 0 /\ FirstStep[a] <= SentSteps
      BY <1>0, <2>2, <3>2, <3>3
    <3>5. ASSUME NEW i \in 1..Len(inbox')
          PROVE  record'[inbox'[i]] = 0 /\ FirstStep[inbox'[i]] <= SentSteps
      <4>1. i + 1 \in 1..Len(inbox) /\ inbox'[i] = inbox[i + 1] /\ i + 1 # 1
        BY <3>1
      <4>2. inbox[i + 1] # inbox[1]
        BY <1>0, <3>1, <4>1 DEF AnswersComeOnce
      <4>3. record[inbox[i + 1]] = 0 /\ FirstStep[inbox[i + 1]] <= SentSteps
        BY <2>2, <4>1
      <4>4. record'[inbox[i + 1]] = 0
        BY <1>0, <1>1, <3>2, <4>1, <4>2, <4>3
      <4> QED BY <4>1, <4>3, <4>4
    <3>6. \A a \in Answer : record'[a] # 0 => FirstStep[a] <= SentSteps
      BY <1>0, <2>2, <3>1, <3>2
    <3> QED BY <1>4, <3>4, <3>5, <3>6
  <2>5. CASE Timed
    <3>1. /\ UNCHANGED <<record, inbox>>
          /\ owed' = owed \/ (owed' = owed \cup {"Pingresp"} /\ record["Pingresp"] = 0)
      BY <2>5 DEF Timed, progVars
    <3>2. FirstStep["Pingresp"] <= SentSteps
      BY <1>0, FirstSteps DEF SentSteps
    <3> QED BY <1>4, <2>2, <3>1, <3>2
  <2>6. CASE BrokerAnswers
    <3>1. PICK a \in owed : owed' = owed \ {a} /\ inbox' = Append(inbox, a)
      BY <2>6 DEF BrokerAnswers
    <3>2. record' = record
      BY <2>6 DEF BrokerAnswers, progVars
    <3>3. /\ Len(inbox) \in Nat /\ Len(inbox') = Len(inbox) + 1
          /\ inbox'[Len(inbox) + 1] = a
          /\ \A i \in 1..Len(inbox) : inbox'[i] = inbox[i]
      BY <3>1, AnswerIsLast
    <3>4. \A i \in 1..Len(inbox') : i = Len(inbox) + 1 \/ i \in 1..Len(inbox)
      BY <3>3
    <3>5. \A i \in 1..Len(inbox') : record'[inbox'[i]] = 0 /\ FirstStep[inbox'[i]] <= SentSteps
      BY <2>2, <3>2, <3>3, <3>4
    <3> QED BY <1>4, <2>2, <3>1, <3>2, <3>5
  <2> QED BY <1>4, <2>3, <2>4, <2>5, <2>6
<1>5. CASE Verify /\ pc = "verify" /\ pc' = "send" /\ step' = step + 1
  <2>1. SentSteps' = SentSteps /\ pc \in InTest
    BY <1>0, <1>5 DEF SentSteps, InTest
  <2> QED BY <1>4, <1>5, <2>1 DEF Verify, netVars
<1>6. CASE \/ pc = "send" /\ pc' = "send" /\ step' = step /\ (BrokerAnswers \/ ConnectionDrops)
           \/ /\ pc \in InTest \ {"send"} /\ pc' \in InTest \ {"send"} /\ step' = step
              /\ (Run \/ Decode \/ Timed \/ Check \/ BrokerAnswers \/ ConnectionDrops \/ Tick)
  <2>1. SentSteps' = SentSteps /\ pc \in InTest
    BY <1>6 DEF SentSteps, InTest
  <2>2. Run \/ Check \/ ConnectionDrops \/ Tick => UNCHANGED <<record, owed, inbox>>
    BY QuietSteps DEF ConnectionDrops, Tick, progVars, netVars
  <2> QED BY <1>4, <1>6, <2>1, <2>2
<1> QED BY <1>2, <1>3, <1>5, <1>6, BodyMoves

\* The records of the steps before stay until a later step resets its own.
LEMMA EarlierStepsHeldStep ==
    ASSUME HarnessInv, Next
    PROVE  EarlierStepsHeld'
<1> SUFFICES ASSUME pc' \in InTest
             PROVE  /\ step' > 1 => record'["Connack"] # 0
                    /\ pc' = "send" /\ step' = 4 => record'["Publish"] # 0
  BY DEF EarlierStepsHeld
<1>0. /\ step \in 1..5 /\ record \in [Answer -> 0..Len(Tests)] /\ test \in 1..Len(Tests)
      /\ EarlierStepsHeld /\ "Connack" \in Answer /\ "Publish" \in Answer
  BY DEF HarnessInv, HarnessTypes, Answer
<1>1. CASE SetupConnect /\ step' = 1
  BY <1>1
<1>2. CASE Send /\ pc = "send" /\ pc' = "run" /\ step' = step
  <2>1. step <= Len(Tests[test]) /\ pc \in InTest
    BY <1>2 DEF Send, InTest
  <2>2. "Connack" \notin Now.resets
    BY <1>0, <2>1, StepKinds, ConnectFields, PingFields, SubscribeFields,
       PublishQos0Fields, PublishQos1Fields
  <2>3. record'["Connack"] = record["Connack"]
    BY <1>0, <1>2, <2>2 DEF Send
  <2> QED BY <1>0, <1>2, <2>1, <2>3 DEF EarlierStepsHeld
<1>3. CASE Verify /\ pc = "verify" /\ pc' = "send" /\ step' = step + 1
  <2>1. Holds /\ record' = record /\ pc \in InTest
    BY <1>3 DEF Verify, Fail, InTest
  <2>2. step <= Len(Tests[test])
    BY <1>3, <2>1 DEF HarnessInv, AtAStep
  <2>3. step = 1 => "Connack" \in Now.after
    BY <1>0, <2>2, StepKinds, ConnectFields
  <2>4. step = 3 => "Publish" \in Now.after
    BY <1>0, <2>2, StepKinds, PublishQos0Fields
  <2>5. step = 1 \/ step > 1
    BY <1>0
  <2>6. record["Connack"] # 0
    BY <1>0, <2>1, <2>3, <2>5 DEF Holds, EarlierStepsHeld
  <2>7. step' = 4 => record["Publish"] # 0
    BY <1>0, <1>3, <2>1, <2>4 DEF Holds
  <2> QED BY <2>1, <2>6, <2>7
<1>4. CASE pc = "send" /\ pc' = "send" /\ step' = step /\ (BrokerAnswers \/ ConnectionDrops)
  BY <1>0, <1>4 DEF EarlierStepsHeld, BrokerAnswers, ConnectionDrops, progVars, InTest
<1>5. CASE /\ pc \in InTest \ {"send"} /\ pc' \in InTest \ {"send"} /\ step' = step
           /\ (Run \/ Decode \/ Timed \/ Check \/ BrokerAnswers \/ ConnectionDrops \/ Tick)
  <2>1. record["Connack"] # 0 => record'["Connack"] # 0
    <3>1. CASE Decode
      <4>1. record' = [record EXCEPT ![Head(inbox)] = test] /\ test # 0
        BY <1>0, <3>1 DEF Decode
      <4> QED BY <1>0, <4>1
    <3>2. CASE Run \/ Check
      BY <3>2, QuietSteps
    <3>3. CASE Timed \/ BrokerAnswers \/ ConnectionDrops \/ Tick
      BY <3>3 DEF Timed, BrokerAnswers, ConnectionDrops, Tick, progVars
    <3> QED BY <1>5, <3>1, <3>2, <3>3
  <2> QED BY <1>0, <1>5, <2>1 DEF EarlierStepsHeld
<1> QED BY <1>1, <1>2, <1>3, <1>4, <1>5, BodyMoves

\* How a step can lead into a set-up or stay in one.
LEMMA SetupMoves ==
    ASSUME HarnessInv, Next, pc' \in InSetup
    PROVE  \/ SetupNew /\ failed' = FALSE /\ trouble' = (fd[0] # "stdin")
           \/ SetupRun /\ pc \in InSetup /\ UNCHANGED resultVars
<1>1. CASE SetupNew
  BY <1>1 DEF SetupNew, Fail, InSetup
<1>2. CASE SetupRun
  BY <1>2 DEF SetupRun, Fail, InSetup
<1>3. CASE BrokerAnswers \/ ConnectionDrops
  <2>1. pc' = pc /\ peer = "up"
    BY <1>3 DEF BrokerAnswers, ConnectionDrops
  <2> QED BY <2>1 DEF HarnessInv, FreshStart
<1>4. CASE ~(SetupNew \/ SetupRun \/ BrokerAnswers \/ ConnectionDrops)
  <2>1. pc' \notin InSetup
    BY <1>4 DEF Next, Program, SetupConnect, TestEnds, Send, Run, Decode, DecodeSeveral, Timed,
       Check, Verify, TearDown, TearDownClose, NextTest, Tick, Done, vars, Fail, InSetup
  <2> QED BY <2>1
<1> QED BY <1>1, <1>2, <1>3, <1>4

\* Nothing comes in while a test is set up.
LEMMA FreshStartStep ==
    ASSUME HarnessInv, Next
    PROVE  FreshStart'
<1> SUFFICES ASSUME pc' \in InSetup
             PROVE  /\ owed' = {} /\ inbox' = <<>> /\ peer' = "none"
                    /\ \A a \in Answer : record'[a] = 0
  BY DEF FreshStart
<1>1. CASE SetupNew
  BY <1>1 DEF SetupNew, RecordsReset
<1>2. CASE SetupRun /\ pc \in InSetup
  BY <1>2, QuietSteps DEF HarnessInv, FreshStart
<1> QED BY <1>1, <1>2, SetupMoves

\* The records are cleared before the next test asks for anything.
LEMMA RecordsAreOfThisTestStep ==
    ASSUME HarnessInv, Next
    PROVE  RecordsAreOfThisTest'
<1> SUFFICES ASSUME pc' # "setup_new", NEW a \in Answer
             PROVE  record'[a] \in {0, test'}
  BY DEF RecordsAreOfThisTest
<1>0. /\ RecordsAreOfThisTest /\ record \in [Answer -> 0..Len(Tests)]
  BY DEF HarnessInv, HarnessTypes
<1>1. CASE SetupNew
  BY <1>1 DEF SetupNew, RecordsReset
<1>2. CASE pc # "setup_new" /\ UNCHANGED <<record, test>>
  BY <1>0, <1>2 DEF RecordsAreOfThisTest
<1>3. CASE Send
  BY <1>0, <1>3 DEF Send, RecordsAreOfThisTest
<1>4. CASE Decode
  BY <1>0, <1>4 DEF Decode, RecordsAreOfThisTest
<1>5. CASE SetupRun \/ TestEnds \/ Run \/ Check
  BY <1>2, <1>5, QuietSteps DEF SetupRun, TestEnds, Run, Check
<1>6. CASE SetupConnect \/ DecodeSeveral \/ Timed \/ Verify \/ TearDown \/ TearDownClose
  BY <1>2, <1>6 DEF SetupConnect, DecodeSeveral, Timed, Verify, TearDown, TearDownClose, progVars
<1>7. CASE NextTest
  BY <1>2, <1>7 DEF NextTest
<1>8. CASE BrokerAnswers \/ ConnectionDrops \/ Tick \/ Done
  BY <1>2, <1>8 DEF BrokerAnswers, ConnectionDrops, Tick, Done, vars, progVars
<1> QED BY <1>1, <1>3, <1>4, <1>5, <1>6, <1>7, <1>8 DEF Next, Program

\* What a step within a body leaves alone.
LEMMA BodyKeeps ==
    ASSUME HarnessInv, Next, pc' \in InTest, pc \in InTest
    PROVE  /\ UNCHANGED <<test, fd, sock, failed>>
           /\ trouble => trouble'
           /\ peer' = peer \/ trouble'
<1>1. CASE SetupConnect
  BY <1>1 DEF SetupConnect, InTest
<1>2. CASE Send /\ pc' = "run"
  BY <1>2 DEF Send, Fail, resultVars
<1>3. CASE Verify /\ pc' = "send"
  BY <1>3 DEF Verify, Fail, netVars
<1>4. CASE Run \/ Check
  <2>1. failed' = failed
    BY <1>4 DEF Run, Check, Fail, InTest
  <2>2. Run => trouble' = trouble
    BY DEF Run
  <2>3. Check /\ trouble => trouble'
    BY DEF Check
  <2> QED BY <1>4, <2>1, <2>2, <2>3, QuietSteps
<1>5. CASE Decode
  BY <1>5 DEF Decode
<1>6. CASE Timed
  BY <1>6 DEF Timed, Fail, resultVars, progVars, InTest
<1>7. CASE BrokerAnswers \/ ConnectionDrops \/ Tick
  BY <1>7 DEF BrokerAnswers, ConnectionDrops, Tick, progVars, netVars, resultVars
<1> QED BY <1>1, <1>2, <1>3, <1>4, <1>5, <1>6, <1>7, BodyMoves

\* What the program is about to check or has checked is of the step it is at.
LEMMA NowKept == UNCHANGED <<test, step>> => Now' = Now
  BY DEF Now

\* How the program can be at the assertions after RunUntil.
LEMMA VerifyMoves ==
    ASSUME HarnessInv, Next, pc' = "verify"
    PROVE  /\ UNCHANGED <<test, step, record, half, elapsed>> /\ Now' = Now /\ pc \in InTest
           /\ \/ Check /\ pc = "check"
              \/ pc = "verify" /\ (BrokerAnswers \/ ConnectionDrops)
<1>1. pc' \in InTest
  BY DEF InTest
<1>2. \/ Check /\ pc = "check"
      \/ pc = "verify" /\ (BrokerAnswers \/ ConnectionDrops)
  <2>1. ~(pc' = "run" \/ pc' = "send")
    OBVIOUS
  <2>2. CASE Run \/ Decode \/ Timed
    BY <2>2 DEF Run, Decode, Timed, Fail
  <2>3. CASE Check
    BY <2>3 DEF Check
  <2>4. CASE BrokerAnswers \/ ConnectionDrops
    BY <2>4 DEF BrokerAnswers, ConnectionDrops
  <2>5. CASE Tick
    BY <2>5 DEF Tick
  <2> QED BY <1>1, <2>1, <2>2, <2>3, <2>4, <2>5, BodyMoves
<1>3. UNCHANGED <<test, step, record, half, elapsed>> /\ pc \in InTest
  BY <1>2 DEF Check, BrokerAnswers, ConnectionDrops, progVars, timeVars, InTest
<1> QED BY <1>2, <1>3, NowKept

\* An answer that a step has not asked for yet is not there.
LEMMA NotAskedNotThere ==
    ASSUME HarnessInv, pc \in InTest, NEW a \in Answer, ~(FirstStep[a] <= SentSteps)
    PROVE  record[a] = 0
  BY DEF HarnessInv, AnswersWereAsked

\* Whatever departs from what a test expects is noted as trouble.
LEMMA TroubleIsNotedStep ==
    ASSUME HarnessInv, Next
    PROVE  TroubleIsNoted'
<1>0. /\ TroubleIsNoted /\ failed \in BOOLEAN /\ trouble \in BOOLEAN
      /\ record \in [Answer -> 0..Len(Tests)] /\ test \in 1..Len(Tests) /\ step \in 1..5
      /\ "Connack" \in Answer
  BY DEF HarnessInv, HarnessTypes, Answer
<1>1. ASSUME pc' \in InSetup PROVE ~failed' /\ (fd'[0] = "stdin" \/ trouble')
  <2>1. CASE SetupNew /\ failed' = FALSE /\ trouble' = (fd[0] # "stdin")
    BY <2>1 DEF SetupNew
  <2>2. CASE SetupRun /\ pc \in InSetup /\ UNCHANGED resultVars
    BY <1>0, <2>2, QuietSteps DEF resultVars, TroubleIsNoted
  <2> QED BY <1>1, <2>1, <2>2, SetupMoves
<1>2. ASSUME pc' \in InTest, pc \in InSetup, SetupConnect, pc' = "send"
      PROVE  ~failed' /\ peer' # "reset" /\ record'["Connack"] = 0
  <2>1. failed' = failed
    BY <1>2 DEF SetupConnect, Fail
  <2>2. peer' = "up" /\ record'["Connack"] = 0
    BY <1>0, <1>2, BodyStartsFresh
  <2> QED BY <1>0, <1>2, <2>1, <2>2 DEF TroubleIsNoted
<1>3. ASSUME pc' \in InTest, pc \in InTest
      PROVE  /\ ~failed' /\ (peer' = "reset" => trouble')
             /\ record'["Connack"] # 0 => umqtt' = "connected" \/ trouble'
  <2>1. ~failed' /\ (peer' = "reset" => trouble')
    BY <1>0, <1>3, BodyKeeps DEF TroubleIsNoted
  <2>2. record["Connack"] # 0 => umqtt = "connected" \/ trouble
    BY <1>0, <1>3 DEF TroubleIsNoted
  <2>3. trouble => trouble'
    BY <1>3, BodyKeeps
  <2>4. CASE record'["Connack"] = record["Connack"] /\ umqtt' = umqtt
    BY <2>1, <2>2, <2>3, <2>4
  <2>5. CASE SetupConnect
    BY <1>3, <2>5 DEF SetupConnect, InTest
  <2>6. CASE Send /\ pc = "send" /\ pc' = "run"
    <3>1. step <= Len(Tests[test])
      BY <2>6 DEF Send
    <3>2. CASE Now = Connect
      <4>1. step = 1
        BY <1>0, <3>1, <3>2, StepKinds, StepsDiffer
      <4>2. record["Connack"] = 0
        BY <1>0, <1>3, <2>6, <4>1, FirstSteps, NotAskedNotThere DEF SentSteps
      <4>3. record'["Connack"] = 0
        BY <1>0, <2>6, <4>2 DEF Send
      <4> QED BY <2>1, <4>3
    <3>3. CASE Now # Connect
      <4>1. "Connack" \notin Now.resets
        BY <1>0, <3>1, StepKinds, ConnectFields, PingFields, SubscribeFields,
           PublishQos0Fields, PublishQos1Fields
      <4>2. record'["Connack"] = record["Connack"] /\ umqtt' = umqtt
        BY <1>0, <2>6, <3>3, <4>1 DEF Send
      <4> QED BY <2>4, <4>2
    <3> QED BY <3>2, <3>3
  <2>7. CASE Verify
    BY <2>4, <2>7 DEF Verify
  <2>8. CASE Run \/ Check
    BY <2>4, <2>8, QuietSteps
  <2>9. CASE Decode
    <3>1. Head(inbox) = "Connack" => umqtt' = "connected" \/ trouble'
      BY <2>9 DEF Decode
    <3>2. Head(inbox) # "Connack" => record'["Connack"] = record["Connack"] /\ umqtt' = umqtt
      BY <1>0, <2>9 DEF Decode
    <3> QED BY <2>1, <2>4, <3>1, <3>2
  <2>10. CASE Timed
    BY <1>3, <2>4, <2>10 DEF Timed, Fail, progVars, InTest
  <2>11. CASE BrokerAnswers \/ ConnectionDrops \/ Tick
    BY <2>4, <2>11 DEF BrokerAnswers, ConnectionDrops, Tick, progVars
  <2> QED BY <1>3, <2>5, <2>6, <2>7, <2>8, <2>9, <2>10, <2>11, BodyMoves
<1>4. ASSUME pc' = "verify", record'[(Now').wait] = 0 PROVE trouble'
  <2>1. Now' = Now /\ record' = record
    BY <1>4, VerifyMoves
  <2>2. record[Now.wait] = 0
    BY <1>4, <2>1
  <2>3. CASE Check
    BY <1>4, <2>2, <2>3 DEF Check
  <2>4. CASE pc = "verify" /\ (BrokerAnswers \/ ConnectionDrops)
    BY <1>0, <2>2, <2>4 DEF TroubleIsNoted, BrokerAnswers, ConnectionDrops, resultVars
  <2> QED BY <1>4, <2>3, <2>4, VerifyMoves
<1>5. ASSUME pc' \in InTest
      PROVE  pc \in InTest \/ (pc \in InSetup /\ SetupConnect /\ pc' = "send")
  BY <1>5, BodyMoves DEF InTest
<1> QED BY <1>1, <1>2, <1>3, <1>4, <1>5 DEF TroubleIsNoted

\* No action closes or takes the descriptors of the standard output.
LEMMA DescriptorsAreKeptStep ==
    ASSUME HarnessInv, Next
    PROVE  DescriptorsAreKept'
<1>0. /\ fd \in [0..(Descriptors - 1) -> {"stdin", "output", "socket", "closed"}]
      /\ fd[1] = "output" /\ fd[2] = "output" /\ (sock \in {-1, 0} \/ sock > 2)
      /\ 1 \in 0..(Descriptors - 1) /\ 2 \in 0..(Descriptors - 1)
  BY DescriptorsAssumption DEF HarnessInv, HarnessTypes, DescriptorsAreKept
<1>1. CASE UNCHANGED <<fd, sock>>
  BY <1>0, <1>1 DEF DescriptorsAreKept
<1>2. CASE SetupNew
  BY <1>0, <1>2 DEF SetupNew, DescriptorsAreKept
<1>3. CASE SetupConnect
  <2>1. CASE sock' \in {0, -1} /\ UNCHANGED netVars
    BY <1>0, <2>1 DEF netVars, DescriptorsAreKept
  <2>2. CASE /\ sock' = 0 \/ sock' > 2
             /\ fd' = [fd EXCEPT ![sock'] = "socket"]
    <3>1. sock' # 1 /\ sock' # 2
      BY <2>2
    <3>2. fd'[1] = "output" /\ fd'[2] = "output"
      BY <1>0, <2>2, <3>1
    <3> QED BY <2>2, <3>2 DEF DescriptorsAreKept
  <2> QED BY <1>3, <2>1, <2>2, ConnectGivesASocket
<1>4. CASE TearDownClose
  <2>1. fd' = [d \in DOMAIN fd |-> IF d = sock THEN "closed" ELSE fd[d]] /\ sock' = sock
    BY <1>4 DEF TearDownClose, progVars
  <2>2. sock # 1 /\ sock # 2
    BY <1>0
  <2>3. fd'[1] = "output" /\ fd'[2] = "output"
    BY <1>0, <2>1, <2>2
  <2> QED BY <1>0, <2>1, <2>3 DEF DescriptorsAreKept
<1>5. CASE SetupRun \/ TestEnds \/ Run \/ Check \/ Done
  BY <1>1, <1>5, QuietSteps
<1>6. CASE Send \/ Decode \/ DecodeSeveral \/ Timed \/ Verify \/ TearDown \/ NextTest
  BY <1>1, <1>6 DEF Send, Decode, DecodeSeveral, Timed, Verify, TearDown, NextTest,
                    progVars, netVars
<1>7. CASE BrokerAnswers \/ ConnectionDrops \/ Tick
  BY <1>1, <1>7 DEF BrokerAnswers, ConnectionDrops, Tick, progVars, netVars
<1> QED BY <1>2, <1>3, <1>4, <1>5, <1>6, <1>7 DEF Next, Program

\* A read buffer is allocated for what a read returns and freed by its decoding.
LEMMA BufferInvStep ==
    ASSUME HarnessInv, Next
    PROVE  BufferInv'
<1>0. /\ buffers = (IF pc = "decode" THEN 1 ELSE 0) /\ got \in -1..Cardinality(Answer)
      /\ pc = "decode" => got \in 1..Len(inbox)
      /\ inbox \in Seq(Answer) /\ AnswersComeOnce /\ Cardinality(Answer) \in Nat
  BY AnswerFinite DEF HarnessInv, HarnessTypes, BufferInv, ReadBuffersAreFreedOnce
<1>1. Len(inbox) \in Nat /\ Len(inbox) <= Cardinality(Answer)
  BY <1>0, InboxIsShort
<1>2. CASE pc # "decode" /\ pc' # "decode" /\ buffers' = buffers /\ (got' = got \/ got' = 0)
  <2>1. buffers' = 0 /\ got' \in -1..Cardinality(Answer)
    BY <1>0, <1>2
  <2> QED BY <1>2, <2>1 DEF BufferInv, ReadBuffersAreFreedOnce
<1>3. CASE Run
  <2>1. inbox' = inbox
    BY <1>3, QuietSteps
  <2>2. got' \in {-1} \/ got' \in {0} \/ got' \in 1..Len(inbox)
    BY <1>3 DEF Run, ReadFromServer
  <2>3. got' \in -1..Cardinality(Answer)
    BY <1>0, <1>1, <2>2
  <2>4. pc' = "decode" <=> got' > 0
    BY <1>3, <2>3 DEF Run, Fail
  <2>5. buffers' = (IF pc' = "decode" THEN 1 ELSE 0)
    BY <1>0, <1>3, <2>4 DEF Run, HandsOver
  <2>6. pc' = "decode" => got' \in 1..Len(inbox')
    BY <2>1, <2>2, <2>4
  <2> QED BY <2>3, <2>5, <2>6 DEF BufferInv, ReadBuffersAreFreedOnce
<1>4. CASE Decode \/ DecodeSeveral
  <2>1. pc = "decode" /\ pc' # "decode" /\ buffers' = buffers - 1 /\ got' = got
    BY <1>4 DEF Decode, DecodeSeveral, Fail
  <2> QED BY <1>0, <2>1 DEF BufferInv, ReadBuffersAreFreedOnce
<1>5. CASE UNCHANGED <<pc, buffers, got, inbox>>
  BY <1>0, <1>5 DEF BufferInv, ReadBuffersAreFreedOnce
<1>6. CASE BrokerAnswers
  <2>1. PICK a \in owed : inbox' = Append(inbox, a)
    BY <1>6 DEF BrokerAnswers
  <2>2. Len(inbox') = Len(inbox) + 1
    BY <2>1, AnswerIsLast
  <2>3. UNCHANGED <<pc, buffers, got>>
    BY <1>6 DEF BrokerAnswers, progVars
  <2>4. pc' = "decode" => got' \in 1..Len(inbox')
    BY <1>0, <1>1, <2>2, <2>3
  <2> QED BY <1>0, <2>3, <2>4 DEF BufferInv, ReadBuffersAreFreedOnce
<1>7. CASE ConnectionDrops \/ Tick \/ Done
  BY <1>5, <1>7 DEF ConnectionDrops, Tick, Done, vars, progVars, netVars
<1>8. CASE SetupNew \/ SetupRun \/ SetupConnect \/ TestEnds \/ Send
  BY <1>2, <1>8 DEF SetupNew, SetupRun, SetupConnect, TestEnds, Send, Fail, progVars
<1>9. CASE Timed \/ Check \/ Verify
  BY <1>2, <1>9 DEF Timed, Check, Verify, Fail, progVars
<1>10. CASE TearDown \/ TearDownClose \/ NextTest
  BY <1>2, <1>10 DEF TearDown, TearDownClose, NextTest, progVars
<1> QED BY <1>3, <1>4, <1>6, <1>7, <1>8, <1>9, <1>10 DEF Next, Program

\* The socket of a body is its own until the tear-down closes it.
LEMMA TestsHaveASocketStep ==
    ASSUME HarnessInv, Next
    PROVE  TestsHaveASocket'
<1> SUFFICES ASSUME pc' \in InTest
             PROVE  sock' > 2 /\ fd'[sock'] = "socket"
  BY DEF TestsHaveASocket, InTest
<1>0. fd \in [0..(Descriptors - 1) -> {"stdin", "output", "socket", "closed"}]
  BY DEF HarnessInv, HarnessTypes
<1>1. CASE SetupConnect /\ pc' = "send"
  <2>1. /\ sock' \in 0..(Descriptors - 1) /\ sock' > 2
        /\ fd' = [fd EXCEPT ![sock'] = "socket"]
    BY <1>1, BodyStartsFresh
  <2> QED BY <1>0, <2>1
<1>2. CASE pc \in InTest
  <2>1. sock > 2 /\ fd[sock] = "socket"
    BY <1>2 DEF HarnessInv, TestsHaveASocket, InTest
  <2> QED BY <1>2, <2>1, BodyKeeps
<1> QED BY <1>1, <1>2, BodyMoves DEF InTest

\* RunUntil ends its wait by the clock, which may have been about to change when
\* the wait began.
LEMMA WaitsLongEnoughStep ==
    ASSUME HarnessInv, Next
    PROVE  WaitsLongEnough'
<1> SUFFICES ASSUME pc' = "verify", record'[(Now').wait] = 0
             PROVE  elapsed' >= 2 * Seconds - 1
  BY DEF WaitsLongEnough
<1>1. record[Now.wait] = 0 /\ elapsed' = elapsed
  BY VerifyMoves
<1>2. half \in 0..1 /\ elapsed \in 0..(2 * Seconds + 1) /\ Seconds \in Nat
  BY SecondsAssumption DEF HarnessInv, HarnessTypes
<1>3. CASE Check
  <2>1. ~((half + elapsed) \div 2 < Seconds)
    BY <1>1, <1>3 DEF Check, TimeIsLeft
  <2>2. half + elapsed >= 2 * Seconds
    BY <1>2, <2>1
  <2> QED BY <1>1, <1>2, <2>2
<1>4. CASE pc = "verify"
  BY <1>1, <1>4 DEF HarnessInv, WaitsLongEnough
<1> QED BY <1>3, <1>4, VerifyMoves

\* The records a step requires to be null are null when nothing was asked early.
LEMMA BeforeIsClear ==
    ASSUME HarnessInv, Send
    PROVE  \A a \in Now.before : record'[a] = 0
<1> SUFFICES ASSUME NEW a \in Now.before
             PROVE  record'[a] = 0
  OBVIOUS
<1>0. /\ pc = "send" /\ pc \in InTest /\ step <= Len(Tests[test])
      /\ test \in 1..Len(Tests) /\ step \in 1..5
  BY DEF HarnessInv, HarnessTypes, Send, InTest
<1>1. a \in Answer /\ (a \in Now.resets \/ FirstStep[a] > step - 1)
  BY <1>0, StepKinds, FirstSteps, ConnectFields, PingFields, SubscribeFields,
     PublishQos0Fields, PublishQos1Fields DEF Answer
<1>2. record' = [b \in Answer |-> IF b \in Now.resets THEN 0 ELSE record[b]]
  BY DEF Send
<1>3. CASE a \in Now.resets
  BY <1>1, <1>2, <1>3
<1>4. CASE FirstStep[a] > step - 1
  <2>1. FirstStep[a] \in Int
    BY <1>1, FirstSteps
  <2>2. ~(FirstStep[a] <= SentSteps)
    BY <1>0, <1>4, <2>1 DEF SentSteps
  <2>3. record[a] = 0
    BY <1>0, <1>1, <2>2, NotAskedNotThere
  <2> QED BY <1>1, <1>2, <2>3
<1> QED BY <1>1, <1>3, <1>4

\* The assertions after RunUntil fail only in trouble, or because the PUBACK came
\* before the PUBLISH.
LEMMA VerifyFails ==
    ASSUME HarnessInv, pc = "verify", ~Holds, ~trouble
    PROVE  Now = PublishQos1 /\ record["Puback"] # 0 /\ record["Publish"] = 0
<1>0. /\ pc \in InTest /\ step <= Len(Tests[test]) /\ SentSteps = step
      /\ test \in 1..Len(Tests) /\ step \in 1..5
  BY DEF HarnessInv, HarnessTypes, AtAStep, InTest, SentSteps
<1>1. record[Now.wait] # 0
  BY DEF HarnessInv, TroubleIsNoted
<1>2. record["Connack"] # 0 => umqtt = "connected"
  BY <1>0 DEF HarnessInv, TroubleIsNoted
<1>3. step > 1 => record["Connack"] # 0
  BY <1>0 DEF HarnessInv, EarlierStepsHeld
<1>4. CASE step = 1 /\ Now = Connect
  BY <1>1, <1>2, <1>4, ConnectFields DEF Holds
<1>5. CASE step = 2 /\ Now = PingStep
  BY <1>1, <1>2, <1>3, <1>5, PingFields DEF Holds
<1>6. CASE step = 2 /\ Now = Subscribe
  BY <1>1, <1>6, SubscribeFields, StepsDiffer DEF Holds
<1>7. CASE step = 3 /\ Now = PublishQos0
  <2>1. record["Puback"] = 0
    BY <1>0, <1>7, FirstSteps, NotAskedNotThere DEF Answer
  <2> QED BY <1>1, <1>7, <2>1, PublishQos0Fields, StepsDiffer DEF Holds
<1>8. CASE step = 4 /\ Now = PublishQos1
  BY <1>1, <1>8, PublishQos1Fields, StepsDiffer DEF Holds
<1> QED BY <1>0, <1>4, <1>5, <1>6, <1>7, <1>8, StepKinds

\* A test fails for no other reason than trouble, several packets at once or the
\* order of the two answers to the QoS 1 publish.
LEMMA FailuresHaveACauseStep ==
    ASSUME HarnessInv, Next
    PROVE  FailuresHaveACause'
<1> SUFFICES ASSUME pc' = "teardown", failed', ~trouble'
             PROVE  \/ got' > 1
                    \/ /\ Now' = PublishQos1
                       /\ record'["Puback"] # 0 /\ record'["Publish"] = 0
  BY DEF FailuresHaveACause
<1>0. TroubleIsNoted /\ failed \in BOOLEAN /\ trouble \in BOOLEAN
  BY DEF HarnessInv, HarnessTypes
<1>1. CASE SetupNew \/ SetupRun
  BY <1>0, <1>1 DEF SetupNew, SetupRun, Fail, resultVars
<1>2. CASE SetupConnect
  <2>1. pc \in InSetup /\ ~(sock' > 0)
    BY <1>2 DEF SetupConnect, IsSocket, InSetup
  <2>2. /\ sock' \in 0..(Descriptors - 1) /\ (sock' = 0 \/ sock' > 2)
        /\ fd[sock'] = "closed" /\ trouble' = trouble
    BY <1>2, ConnectGivesASocket
  <2>3. sock' = 0
    BY <2>1, <2>2
  <2>4. trouble
    BY <1>0, <2>1, <2>2, <2>3 DEF TroubleIsNoted
  <2> QED BY <2>2, <2>4
<1>3. CASE TestEnds
  <2>1. failed' = failed /\ pc \in InTest
    BY <1>3 DEF TestEnds, resultVars, InTest
  <2> QED BY <1>0, <2>1 DEF TroubleIsNoted
<1>4. CASE Send
  <2>1. \A a \in Now.before : record'[a] = 0
    BY <1>4, BeforeIsClear
  <2> QED BY <1>4, <2>1 DEF Send
<1>5. CASE Run
  <2>1. got' < 0 /\ trouble' = trouble /\ pc \in InTest
    BY <1>5 DEF Run, InTest
  <2>2. got' \in ReadFromServer
    BY <1>5 DEF Run
  <2>3. peer = "reset"
    <3>1. inbox \in Seq(Answer)
      BY DEF HarnessInv, HarnessTypes
    <3>2. peer # "reset" => got' = 0 \/ got' \in 1..Len(inbox)
      BY <2>2 DEF ReadFromServer
    <3> QED BY <2>1, <3>1, <3>2
  <2> QED BY <1>0, <2>1, <2>3 DEF TroubleIsNoted
<1>6. CASE DecodeSeveral
  BY <1>6 DEF DecodeSeveral
<1>7. CASE Timed
  BY <1>7 DEF Timed
<1>8. CASE Verify
  <2>1. pc = "verify" /\ ~Holds /\ UNCHANGED <<test, step, record, trouble>>
    BY <1>8 DEF Verify
  <2>2. Now = PublishQos1 /\ record["Puback"] # 0 /\ record["Publish"] = 0
    BY <2>1, VerifyFails
  <2> QED BY <2>1, <2>2, NowKept
<1>9. CASE BrokerAnswers \/ ConnectionDrops \/ Tick \/ Done
  <2>1. UNCHANGED <<pc, test, step, record, got, failed>>
    BY <1>9 DEF BrokerAnswers, ConnectionDrops, Tick, Done, vars, progVars, resultVars
  <2>2. ~ConnectionDrops
    BY DEF ConnectionDrops
  <2>3. trouble' = trouble
    BY <1>9, <2>2 DEF BrokerAnswers, Tick, Done, vars, resultVars
  <2>4. FailuresHaveACause
    BY DEF HarnessInv
  <2> QED BY <2>1, <2>3, <2>4, NowKept DEF FailuresHaveACause
<1>10. CASE Decode \/ Check \/ TearDown \/ TearDownClose \/ NextTest
  BY <1>10 DEF Decode, Check, TearDown, TearDownClose, NextTest
<1> QED BY <1>1, <1>2, <1>3, <1>4, <1>5, <1>6, <1>7, <1>8, <1>9, <1>10 DEF Next, Program

-----------------------------------------------------------------------------
(* The theorems.                                                           *)

\* The group of tests starts with no test's state.
LEMMA HarnessInvInit == Init => HarnessInv
<1> SUFFICES ASSUME Init
             PROVE  HarnessInv
  OBVIOUS
<1>1. HarnessTypes
  <2>1. test \in 1..Len(Tests) /\ step \in 1..5 /\ record \in [Answer -> 0..Len(Tests)]
    BY TestTable DEF Init
  <2>2. fd \in [0..(Descriptors - 1) -> {"stdin", "output", "socket", "closed"}]
    BY DEF Init
  <2>3. sock \in -1..(Descriptors - 1) /\ half \in 0..1 /\ elapsed \in 0..(2 * Seconds + 1)
    BY DescriptorsAssumption, SecondsAssumption DEF Init
  <2>4. owed \subseteq Answer /\ inbox \in Seq(Answer)
    BY EmptySeq DEF Init
  <2>5. pc \in Elsewhere
    BY DEF Init, Elsewhere
  <2> QED BY <2>1, <2>2, <2>3, <2>4, <2>5 DEF Init, HarnessTypes
<1>2. pc = "setup_new" /\ pc \notin InTest /\ pc \notin InSetup
  BY DEF Init, InTest, InSetup
<1>3. AtAStep /\ AnswersWereAsked /\ EarlierStepsHeld /\ FreshStart /\ RecordsAreOfThisTest
  BY <1>2 DEF AtAStep, AnswersWereAsked, EarlierStepsHeld, FreshStart, RecordsAreOfThisTest
<1>4. AnswersComeOnce
  <2>1. Len(inbox) = 0
    BY DEF Init
  <2> QED BY <2>1 DEF AnswersComeOnce
<1>5. TroubleIsNoted /\ WaitsLongEnough /\ FailuresHaveACause
  BY <1>2 DEF TroubleIsNoted, WaitsLongEnough, FailuresHaveACause
<1>6. TestsHaveASocket
  BY <1>2 DEF TestsHaveASocket
<1>7. DescriptorsAreKept
  BY DescriptorsAssumption DEF Init, DescriptorsAreKept
<1>8. BufferInv
  BY <1>2, AnswerFinite DEF Init, BufferInv, ReadBuffersAreFreedOnce
<1> QED BY <1>1, <1>3, <1>4, <1>5, <1>6, <1>7, <1>8 DEF HarnessInv

\* Every step keeps the invariant.
LEMMA HarnessInvStep == HarnessInv /\ [Next]_vars => HarnessInv'
<1>1. ASSUME HarnessInv, Next PROVE HarnessInv'
  BY <1>1, TypesStep, AtAStepStep, AnswersComeOnceStep, AnswersWereAskedStep,
     EarlierStepsHeldStep, FreshStartStep, RecordsAreOfThisTestStep, TroubleIsNotedStep,
     DescriptorsAreKeptStep, BufferInvStep, TestsHaveASocketStep, WaitsLongEnoughStep,
     FailuresHaveACauseStep DEF HarnessInv
<1>2. ASSUME HarnessInv, UNCHANGED vars PROVE HarnessInv'
  <2>1. Now' = Now /\ SentSteps' = SentSteps
    BY <1>2 DEF vars, progVars, Now, SentSteps
  <2>2. HarnessTypes'
    BY <1>2 DEF HarnessInv, HarnessTypes, vars, progVars, netVars, timeVars, resultVars
  <2>3. AtAStep' /\ AnswersComeOnce' /\ FreshStart' /\ RecordsAreOfThisTest'
    BY <1>2 DEF HarnessInv, AtAStep, AnswersComeOnce, FreshStart, RecordsAreOfThisTest,
       vars, progVars, netVars
  <2>4. AnswersWereAsked' /\ EarlierStepsHeld'
    BY <1>2, <2>1 DEF HarnessInv, AnswersWereAsked, EarlierStepsHeld, vars, progVars, netVars
  <2>5. TroubleIsNoted' /\ WaitsLongEnough' /\ FailuresHaveACause'
    BY <1>2, <2>1 DEF HarnessInv, TroubleIsNoted, WaitsLongEnough, FailuresHaveACause,
       vars, progVars, netVars, timeVars, resultVars
  <2>6. DescriptorsAreKept' /\ BufferInv' /\ TestsHaveASocket'
    BY <1>2 DEF HarnessInv, DescriptorsAreKept, BufferInv, ReadBuffersAreFreedOnce,
       TestsHaveASocket, vars, progVars, netVars
  <2> QED BY <2>2, <2>3, <2>4, <2>5, <2>6 DEF HarnessInv
<1> QED BY <1>1, <1>2

\* The invariant of the harness: what is asked, recorded, open and allocated at
\* every place of set-up, body and tear-down.
THEOREM HarnessInvariant == Spec => []HarnessInv
  BY HarnessInvInit, HarnessInvStep, PTL DEF Spec

\* The state of the harness keeps its types; the inbox is bounded by the number of
\* answers, so one read returns no more.
THEOREM ComplianceTypes == Spec => []TypeOK
<1>1. HarnessInv => TypeOK
  <2> SUFFICES ASSUME HarnessInv
               PROVE  TypeOK
    OBVIOUS
  <2>1. buffers \in 0..1 /\ got \in -1..Cardinality(Answer)
    BY DEF HarnessInv, BufferInv, ReadBuffersAreFreedOnce
  <2> QED BY <2>1 DEF HarnessInv, HarnessTypes, TypeOK
<1> QED BY <1>1, HarnessInvariant, PTL

\* What a test takes for the broker's answer was answered in that test.
THEOREM AnswersBelongToTheTest == Spec => []AnswersAreOfThisTest
<1>1. HarnessInv => AnswersAreOfThisTest
  <2> SUFFICES ASSUME HarnessInv, pc = "verify", NEW a \in Now.after
               PROVE  record[a] \in {0, test}
    BY DEF AnswersAreOfThisTest
  <2>1. step <= Len(Tests[test]) /\ test \in 1..Len(Tests) /\ step \in 1..5
    BY DEF HarnessInv, HarnessTypes, AtAStep, InTest
  <2>2. a \in Answer
    BY <2>1, StepKinds, ConnectFields, PingFields, SubscribeFields,
       PublishQos0Fields, PublishQos1Fields DEF Answer
  <2> QED BY <2>2 DEF HarnessInv, RecordsAreOfThisTest
<1> QED BY <1>1, HarnessInvariant, PTL

\* netReadPacket and umqtt free every read buffer once.
THEOREM BuffersAreFreedOnce == Spec => []ReadBuffersAreFreedOnce
<1>1. HarnessInv => ReadBuffersAreFreedOnce
  BY DEF HarnessInv, BufferInv
<1> QED BY <1>1, HarnessInvariant, PTL

\* A test body talks to an open socket of its own.
THEOREM BodiesHaveASocket == Spec => []TestsHaveASocket
<1>1. HarnessInv => TestsHaveASocket
  BY DEF HarnessInv
<1> QED BY <1>1, HarnessInvariant, PTL

\* RunUntil does not give up more than a second early, for every time limit.
THEOREM RunUntilWaits == Spec => []WaitsLongEnough
<1>1. HarnessInv => WaitsLongEnough
  BY DEF HarnessInv
<1> QED BY <1>1, HarnessInvariant, PTL

\* Against a broker that answers in time, a test fails only over several packets in
\* one read or over a PUBACK that overtakes the PUBLISH.
THEOREM FailuresAreExplained == Spec => []FailuresHaveACause
<1>1. HarnessInv => FailuresHaveACause
  BY DEF HarnessInv
<1> QED BY <1>1, HarnessInvariant, PTL
=============================================================================
