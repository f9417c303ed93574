----------------------------- MODULE Compliance -----------------------------
(***************************************************************************)
(* The compliance test: the test cases of compliance/test_connect.c with   *)
(* their set-up and tear-down, the socket transport they give to umqtt, and*)
(* the helpers of umqtt_compliance_test.c.                                 *)
(*                                                                         *)
(* The program is sequential; what happens around it is not.  The broker   *)
(* answers when and in which order it likes, or drops the connection; any  *)
(* system call may fail; time passes.  Unity is external: a failed         *)
(* assertion leaves the set-up and the test at once, and the tear-down runs*)
(* all the same; one that fails in the tear-down leaves that.  umqtt is    *)
(* external too: its status and what it asks of the transport.             *)
(***************************************************************************)
EXTENDS Integers, Sequences, FiniteSetsExt

CONSTANTS
    Seconds,    \* the limit given to RunUntil (5, 10 and 20)
    Descriptors \* how many file descriptors the process may have

ASSUME SecondsAssumption == Seconds \in Nat \ {0}
ASSUME DescriptorsAssumption == Descriptors \in Nat /\ Descriptors > 3

\* The callbacks that record an answer; 0 stands for a null handle, otherwise
\* the number of the test that was running.
Answer == {"Connack", "Publish", "Puback", "Suback", "Pingresp"}

\* A step of a test: the records it resets, those it then requires to be null,
\* whether it sends and checks the result, the answers a broker owes to what
\* was sent, the record RunUntil waits for, and those it afterwards requires
\* to be set and to be null.
Connect == [resets |-> {}, before |-> {}, sends |-> TRUE, checked |-> TRUE,
            owes |-> {"Connack"}, wait |-> "Connack", after |-> {"Connack"}, not |-> {}]
PingStep == [resets |-> {}, before |-> {}, sends |-> FALSE, checked |-> TRUE,
             owes |-> {}, wait |-> "Pingresp", after |-> {"Pingresp"}, not |-> {}]
Subscribe == [resets |-> {}, before |-> {"Suback"}, sends |-> TRUE, checked |-> TRUE,
              owes |-> {"Suback"}, wait |-> "Suback", after |-> {"Suback"}, not |-> {}]
PublishQos0 == [resets |-> {}, before |-> {"Puback", "Publish"}, sends |-> TRUE,
                checked |-> FALSE, owes |-> {"Publish"}, wait |-> "Publish",
                after |-> {"Publish"}, not |-> {"Puback"}]
\* Its message id is checked, which a publish that fails leaves 0.
\* (Bug: it relies on the records of the QoS 0 publish being gone.)
PublishQos1NoReset ==
    [resets |-> {}, before |-> {"Puback", "Publish"}, sends |-> TRUE, checked |-> TRUE,
     owes |-> {"Puback", "Publish"}, wait |-> "Puback", after |-> {"Puback", "Publish"},
     not |-> {}]
PublishQos1 == [resets |-> {"Publish", "Puback"}, before |-> {"Puback", "Publish"},
                sends |-> TRUE, checked |-> TRUE, owes |-> {"Puback", "Publish"},
                wait |-> "Puback", after |-> {"Puback", "Publish"}, not |-> {}]

\* SimpleConnect, ComplexConnect, Ping, SubPub and the ignored Unsubscribe.
Tests == << <<Connect>>, <<Connect>>, <<Connect, PingStep>>,
            <<Connect, Subscribe, PublishQos0, PublishQos1>>, <<>> >>

VARIABLES
    test, step,     \* the test that runs, and its step
    pc,             \* what the program does next
    fd,             \* external: the descriptor table
    sock,
    umqtt,          \* external: status of the instance u, "none" if null
    record,         \* the ..._h variables of the callbacks
    buffers,        \* read buffers allocated and not freed
    got,            \* how many packets the last read returned
    half, elapsed,  \* half seconds: of the clock when RunUntil began, since then
    owed, inbox,    \* external: answers the broker will send, has sent
    peer,           \* external: the state of the connection
    failed,         \* whether the test that runs has failed
    trouble         \* history: whether anything went wrong around it

progVars == <<test, step, sock, record, buffers, got>>
netVars == <<fd, owed, inbox, peer>>
timeVars == <<half, elapsed>>
resultVars == <<failed, trouble>>
vars == <<pc, progVars, netVars, umqtt, timeVars, resultVars>>

Init ==
    /\ test = 1 /\ step = 1 /\ pc = "setup_new"
    /\ fd = [d \in 0..(Descriptors - 1) |->
                IF d = 0 THEN "stdin" ELSE IF d < 3 THEN "output" ELSE "closed"]
    /\ sock = 0 /\ umqtt = "none" /\ buffers = 0 /\ got = 0
    /\ record = [a \in Answer |-> 0]
    /\ half = 0 /\ elapsed = 0
    /\ owed = {} /\ inbox = <<>> /\ peer = "none"
    /\ failed = FALSE /\ trouble = FALSE

\* An assertion fails.
Fail == failed' = TRUE /\ pc' = "teardown"

-----------------------------------------------------------------------------
(* TEST_SETUP.                                                             *)

\* (Bug: the records of the last test are kept.)
RecordsKept == record
RecordsReset == [a \in Answer |-> 0]

\* Reset the stubs; umqtt_New, which may find no memory.
SetupNew ==
    /\ pc = "setup_new"
    /\ record' = RecordsReset
    /\ sock' = 0 /\ step' = 1 /\ got' = 0
    /\ \/ umqtt' = "disconnected" /\ pc' = "setup_run"
          /\ failed' = FALSE /\ trouble' = (fd[0] # "stdin")
       \/ umqtt' = "none" /\ Fail /\ trouble' = TRUE
    /\ owed' = {} /\ inbox' = <<>> /\ peer' = "none"
    /\ UNCHANGED <<test, buffers, fd, timeVars>>

\* umqtt_Run gives the instance its first tick.
SetupRun ==
    /\ pc = "setup_run"
    /\ \/ pc' = "setup_connect" /\ UNCHANGED resultVars
       \/ Fail /\ trouble' = TRUE
    /\ UNCHANGED <<progVars, netVars, umqtt, timeVars>>

\* socket() takes the lowest descriptor that is closed.
Closed == {d \in DOMAIN fd : fd[d] = "closed"}

\* ConnectToServer: 0 when the name does not resolve, negative when a later
\* call fails (the socket is closed again), otherwise the socket.
ConnectToServer ==
    \/ /\ sock' \in {0, -1}
       /\ trouble' = TRUE
       /\ UNCHANGED netVars
    \/ /\ Closed # {}
       /\ sock' = Min(Closed)
       /\ fd' = [fd EXCEPT ![sock'] = "socket"]
       /\ peer' = "up" /\ owed' = {} /\ inbox' = <<>>
       /\ UNCHANGED trouble

\* (Bug: whatever comes back is used.)
IsSocketUnchecked(s) == TRUE
IsSocket(s) == s > 0

SetupConnect ==
    /\ pc = "setup_connect"
    /\ ConnectToServer
    /\ IF IsSocket(sock') THEN pc' = "send" /\ UNCHANGED failed ELSE Fail
    /\ UNCHANGED <<test, step, record, buffers, got, umqtt, timeVars>>

-----------------------------------------------------------------------------
(* The test cases.                                                         *)

Now == Tests[test][step]

\* The rest of the test: nothing is left of it, or one of its steps.
TestEnds ==
    /\ pc = "send" /\ step > Len(Tests[test])
    /\ pc' = "teardown"
    /\ UNCHANGED <<progVars, netVars, umqtt, timeVars, resultVars>>

\* The step's umqtt function writes a packet (WriteToServer): it goes out or,
\* for lack of memory or of a connection, it does not.  Then RunUntil starts.
Send ==
    /\ pc = "send" /\ step <= Len(Tests[test])
    /\ record' = [a \in Answer |-> IF a \in Now.resets THEN 0 ELSE record[a]]
    /\ half' \in {0, 1} /\ elapsed' = 0
    /\ \/ /\ \E a \in Now.before : record'[a] # 0
          /\ Fail
          /\ UNCHANGED <<owed, umqtt, trouble>>
       \/ /\ \A a \in Now.before : record'[a] = 0
          /\ \/ /\ pc' = "run"
                /\ owed' = owed \cup Now.owes
                /\ umqtt' = IF Now = Connect THEN "pending" ELSE umqtt
                /\ UNCHANGED resultVars
             \/ /\ Now.sends
                /\ IF Now.checked THEN Fail ELSE pc' = "run" /\ UNCHANGED failed
                /\ trouble' = TRUE
                /\ UNCHANGED <<owed, umqtt>>
    /\ UNCHANGED <<test, step, sock, buffers, got, fd, inbox, peer>>

\* ReadFromServer: an error, nothing (also at the end of the stream), or as many
\* packets as the stream gives at once.
ReadFromServer ==
    IF peer = "reset" THEN {-1} ELSE IF inbox = <<>> THEN {0} ELSE 1..Len(inbox)

\* netReadPacket frees the buffer it allocated unless there is something in
\* it; umqtt frees that.  (Bug: it never does.)
HandsOverAlways(ret) == TRUE
HandsOver(ret) == ret > 0

\* RunUntil calls umqtt_Run, which calls netReadPacket.
Run ==
    /\ pc = "run"
    /\ got' \in ReadFromServer
    /\ buffers' = buffers + (IF HandsOver(got') THEN 1 ELSE 0)
    /\ \/ got' < 0 /\ Fail
       \/ got' = 0 /\ pc' = "timed" /\ UNCHANGED failed
       \/ got' > 0 /\ pc' = "decode" /\ UNCHANGED failed
    /\ UNCHANGED <<test, step, sock, record, netVars, umqtt, timeVars, trouble>>

\* umqtt takes the buffer for one packet: it decodes it, calls the callback and
\* frees the buffer.  The broker may refuse the connection.
Decode ==
    /\ pc = "decode" /\ got = 1
    /\ pc' = "timed"
    /\ record' = [record EXCEPT ![Head(inbox)] = test]
    /\ inbox' = Tail(inbox)
    /\ buffers' = buffers - 1
    /\ \/ umqtt' = (IF Head(inbox) = "Connack" THEN "connected" ELSE umqtt)
          /\ UNCHANGED trouble
       \/ Head(inbox) = "Connack" /\ umqtt' = "disconnected" /\ trouble' = TRUE
    /\ UNCHANGED <<test, step, sock, got, fd, owed, peer, timeVars, failed>>

\* Several packets have not the length the first one says: umqtt_Run reports a
\* packet error, and all of them are lost.
DecodeSeveral ==
    /\ pc = "decode" /\ got > 1
    /\ Fail
    /\ inbox' = SubSeq(inbox, got + 1, Len(inbox))
    /\ buffers' = buffers - 1
    /\ UNCHANGED <<test, step, sock, record, got, fd, owed, peer, umqtt, timeVars, trouble>>

\* It may ping (once in a test), fail to, or give up on an answer.
Timed ==
    /\ pc = "timed"
    /\ \/ pc' = "check" /\ UNCHANGED <<owed, umqtt, resultVars>>
       \/ /\ umqtt = "connected" /\ record["Pingresp"] = 0
          /\ \A i \in DOMAIN inbox : inbox[i] # "Pingresp"
          /\ owed' = owed \cup {"Pingresp"}
          /\ pc' = "check"
          /\ UNCHANGED <<umqtt, resultVars>>
       \/ /\ Fail /\ trouble' = TRUE
          /\ umqtt' = IF umqtt = "pending" THEN "disconnected" ELSE umqtt
          /\ UNCHANGED owed
    /\ UNCHANGED <<progVars, fd, inbox, peer, timeVars>>

\* time() counts whole seconds.  (Bugs: a second too few; no limit.)
TimeIsLeftButOne == (half + elapsed) \div 2 < Seconds - 1
TimeIsLeftAlways == TRUE
TimeIsLeft == (half + elapsed) \div 2 < Seconds

\* RunUntil goes on until the record is set or the time is over.
Check ==
    /\ pc = "check"
    /\ pc' = IF record[Now.wait] = 0 /\ TimeIsLeft THEN "run" ELSE "verify"
    /\ trouble' = (trouble \/ (record[Now.wait] = 0 /\ ~TimeIsLeft))
    /\ UNCHANGED <<progVars, netVars, umqtt, timeVars, failed>>

\* The assertions after RunUntil.
Holds == /\ \A a \in Now.after : record[a] # 0
         /\ \A a \in Now.not : record[a] = 0
         /\ Now \in {Connect, PingStep} => umqtt = "connected"

Verify ==
    /\ pc = "verify"
    /\ IF Holds
       THEN pc' = "send" /\ step' = step + 1 /\ UNCHANGED failed
       ELSE Fail /\ UNCHANGED step
    /\ UNCHANGED <<test, sock, record, buffers, got, netVars, umqtt, timeVars, trouble>>

-----------------------------------------------------------------------------
(* TEST_TEAR_DOWN.                                                         *)

\* umqtt_Disconnect, if there is a session; when it fails the rest is skipped.
TearDown ==
    /\ pc = "teardown"
    /\ \/ /\ pc' = "close"
          /\ umqtt' = IF umqtt = "connected" THEN "disconnected" ELSE umqtt
          /\ UNCHANGED resultVars
       \/ /\ umqtt = "connected"
          /\ pc' = "next" /\ failed' = TRUE /\ trouble' = TRUE
          /\ UNCHANGED umqtt
    /\ UNCHANGED <<progVars, netVars, timeVars>>

\* umqtt_Delete and DisconnectServer: close(sock), whatever it is.
TearDownClose ==
    /\ pc = "close"
    /\ pc' = "next"
    /\ umqtt' = "none"
    /\ fd' = [d \in DOMAIN fd |-> IF d = sock THEN "closed" ELSE fd[d]]
    /\ owed' = {} /\ inbox' = <<>> /\ peer' = "none"
    /\ UNCHANGED <<progVars, timeVars, resultVars>>

\* (Bug: one test too many.)
MoreTestsOffByOne == test <= Len(Tests)
MoreTests == test < Len(Tests)

\* The group runner goes on to the next test.
NextTest ==
    /\ pc = "next"
    /\ IF MoreTests THEN test' = test + 1 /\ pc' = "setup_new"
                    ELSE pc' = "done" /\ UNCHANGED test
    /\ UNCHANGED <<step, sock, record, buffers, got, netVars, umqtt, timeVars, resultVars>>

-----------------------------------------------------------------------------
(* Around the program.                                                     *)

BrokerAnswers ==
    /\ peer = "up"
    /\ \E a \in owed : owed' = owed \ {a} /\ inbox' = Append(inbox, a)
    /\ UNCHANGED <<pc, progVars, fd, peer, umqtt, timeVars, resultVars>>

ConnectionDrops ==
    /\ peer = "up"
    /\ peer' \in {"eof", "reset"}
    /\ trouble' = TRUE
    /\ UNCHANGED <<pc, progVars, fd, owed, inbox, umqtt, timeVars, failed>>

\* Bounded: after Seconds and a half nothing depends on it.
Tick ==
    /\ pc \in {"run", "decode", "timed", "check"}
    /\ elapsed < 2 * Seconds + 1
    /\ elapsed' = elapsed + 1
    /\ UNCHANGED <<pc, progVars, netVars, umqtt, half, resultVars>>

Program ==
    \/ SetupNew \/ SetupRun \/ SetupConnect
    \/ TestEnds \/ Send \/ Run \/ Decode \/ DecodeSeveral \/ Timed \/ Check \/ Verify
    \/ TearDown \/ TearDownClose \/ NextTest

Done == pc = "done" /\ UNCHANGED vars

Next == Program \/ BrokerAnswers \/ ConnectionDrops \/ Tick \/ Done

Spec == Init /\ [][Next]_vars

\* The process is scheduled and the clock runs; the broker need not answer.
FairSpec == Spec /\ WF_vars(Program) /\ WF_vars(Tick)

-----------------------------------------------------------------------------
\* The state of the harness.
TypeOK ==
    /\ test \in 1..Len(Tests) /\ step \in 1..5
    /\ fd \in [0..(Descriptors - 1) -> {"stdin", "output", "socket", "closed"}]
    /\ sock \in -1..(Descriptors - 1)
    /\ umqtt \in {"none", "disconnected", "pending", "connected"}
    /\ record \in [Answer -> 0..Len(Tests)]
    /\ buffers \in 0..1 /\ got \in -1..Cardinality(Answer)
    /\ half \in 0..1 /\ elapsed \in 0..(2 * Seconds + 1)
    /\ owed \subseteq Answer /\ inbox \in Seq(Answer)
    /\ peer \in {"none", "up", "eof", "reset"}
    /\ failed \in BOOLEAN /\ trouble \in BOOLEAN

\* What a test takes for the broker's answer was answered in that test: no
\* record of an earlier one is left, however that one ended.
AnswersAreOfThisTest ==
    pc = "verify" => \A a \in Now.after : record[a] \in {0, test}

\* netReadPacket and umqtt agree on who frees the read buffer: on every path
\* through a call of umqtt_Run it is freed once.
ReadBuffersAreFreedOnce == buffers = IF pc = "decode" THEN 1 ELSE 0

\* A test talks to a socket that is open and its own, never to a descriptor a
\* failed ConnectToServer returned.
TestsHaveASocket ==
    pc \in {"send", "run", "decode", "timed", "check", "verify"} =>
        sock > 2 /\ fd[sock] = "socket"

\* RunUntil gives up on an answer only when more than Seconds - 1 have passed,
\* although time() counts whole seconds and may be about to change.
WaitsLongEnough ==
    pc = "verify" /\ record[Now.wait] = 0 => elapsed >= 2 * Seconds - 1

\* The whole group of tests ends, also when the broker never answers.
AllTestsEnd == <>(pc = "done")

\* Against a broker that answers in time a test fails for two reasons only: one
\* read returned several packets, or the PUBACK of the QoS 1 publish overtook the
\* PUBLISH that SubPub requires but does not wait for.  No reset, leftover record
\* or early answer makes it fail.
FailuresHaveACause ==
    pc = "teardown" /\ failed /\ ~trouble =>
        \/ got > 1
        \/ /\ Now = PublishQos1
           /\ record["Puback"] # 0 /\ record["Publish"] = 0
=============================================================================
