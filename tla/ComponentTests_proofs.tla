------------------------ MODULE ComponentTests_proofs ------------------------
(***************************************************************************)
(* Proofs about ComponentTests, for any tests of the four kinds in any     *)
(* order and number.                                                       *)
(***************************************************************************)
EXTENDS ComponentTests, SequenceTheorems, TLAPS

Kind == Tests[test]

\* Where a test waits for its event, and its last step.
ReceivedOf(kind) == IF kind = "callback" THEN 4 ELSE 3
Received == ReceivedOf(Kind)
Last     == Len(Steps[Kind])

\* Does a notification run that has its flag still to set?
BeforeFlag == running # NotRunning /\ ~Doing("notify")

Types ==
  /\ test \in 1 .. Len(Tests) + 1 /\ pc \in Nat /\ pc >= 1
  /\ ~AllRun => pc <= Last + 1
  /\ AllRun => pc = 1
  /\ subscriptionId \in BOOLEAN /\ eventReceived \in BOOLEAN /\ expired \in BOOLEAN
  /\ waiter \in {"awake", "asleep"}
  /\ failed \subseteq 1 .. Len(Tests) + 1
  /\ registry \subseteq DOMAIN Tests /\ due \subseteq DOMAIN Tests
  /\ wire \in Seq([by : DOMAIN Tests, decodes : BOOLEAN])
  /\ inHand \in 0 .. Len(Tests) /\ told \in 0 .. Len(Tests)
  /\ due # {} => inHand \in DOMAIN Tests
  /\ running = NotRunning \/ /\ running \in [of : DOMAIN Tests, at : 1 .. 3, by : DOMAIN Tests]
                             /\ running.at <= Len(NotificationSteps(Tests[running.of]))

\* There is no subscription but that of the test that runs, and none before
\* its first step and after its last, even after failures.
OwnRegistry ==
  /\ registry \subseteq {test}
  /\ AllRun \/ pc = 1 \/ pc > Last => registry = {}

\* An event that can set the flag belongs to the test that runs, which waits
\* for it; there is one at most, on the wire, in hand or being notified.
OwnEvent ==
  /\ \A i \in 1 .. Len(wire) :
       wire[i].decodes => ~AllRun /\ wire[i].by = test /\ pc = Received
  /\ \A i, j \in 1 .. Len(wire) : wire[i].decodes /\ wire[j].decodes => i = j
  /\ due # {} => ~AllRun /\ due = {test} /\ inHand = test /\ pc = Received
  /\ BeforeFlag => ~AllRun /\ running.of = test /\ running.by = test /\ pc = Received
  /\ due # {} => running = NotRunning
  /\ due # {} \/ BeforeFlag => ~eventReceived
  /\ due # {} \/ BeforeFlag \/ eventReceived =>
       \A i \in 1 .. Len(wire) : ~wire[i].decodes

\* The flag, once it is set, is set by the test's own event, and not any more
\* when a malformed event has been triggered; a waiter that sleeps by then is
\* about to be notified by the same notification.
OwnFlag ==
  /\ eventReceived => ~AllRun /\ told = test /\ pc >= Received
  /\ eventReceived /\ Kind \in {"history", "settings"} => pc <= 4
  /\ waiter = "asleep" /\ eventReceived => Doing("notify") /\ running.of = test
  /\ ~AllRun /\ Kind = "callback" /\ pc >= 3 => subscriptionId

Own == OwnEvent /\ OwnFlag

IInv == Types /\ OwnRegistry /\ (failed = {} => Own)

-----------------------------------------------------------------------------
(***************************************************************************)
(* The tables.                                                             *)
(***************************************************************************)
\* Where each step stands in the tests that have it.
StepPlaces(k, i) ==
  /\ Steps[k][i] = "subscribe" => i = 1
  /\ Steps[k][i] = "assign" => k = "callback" /\ i = 2
  /\ Steps[k][i] = "trigger" => i = ReceivedOf(k) - 1
  /\ Steps[k][i] = "received" => i = ReceivedOf(k)
  /\ Steps[k][i] = "setUp" => i >= 4 /\ k \in {"history", "settings"}
  /\ Steps[k][i] \in {"triggerBad", "triggerRefused"} => i >= 5 /\ k \in {"history", "settings"}
  /\ Steps[k][i] = "notReceived" => i >= 6 /\ k \in {"history", "settings"}
  /\ Steps[k][i] \in {"unsubscribe", "notRegistered"} => i = Len(Steps[k])
  /\ i = Len(Steps[k]) => Steps[k][i] \in {"unsubscribe", "notRegistered"}
  /\ k \in {"history", "settings"} => Len(Steps[k]) >= 7

\* What StepPlaces says holds of every step of every kind of test.
LEMMA StepFacts ==
  ASSUME NEW k \in Kinds
  PROVE  /\ Len(Steps[k]) \in ReceivedOf(k) + 1 .. 10
         /\ \A i \in 1 .. Len(Steps[k]) : StepPlaces(k, i)
<1>1. CASE k = "receive"
  <2>1. Steps[k] = ReceiveSteps
    BY <1>1 DEF Steps
  <2>2. Len(ReceiveSteps) = 4
    BY DEF ReceiveSteps
  <2>3. /\ ReceiveSteps[1] = "subscribe" /\ ReceiveSteps[2] = "trigger"
        /\ ReceiveSteps[3] = "received" /\ ReceiveSteps[4] = "unsubscribe"
    BY DEF ReceiveSteps
  <2>4. ReceivedOf(k) = 3
    BY <1>1 DEF ReceivedOf
  <2>5. \A i \in 1 .. 4 : i \in {1, 2, 3, 4}
    OBVIOUS
  <2>6. \A i \in 1 .. 4 : StepPlaces(k, i)
    BY <1>1, <2>1, <2>2, <2>3, <2>4, <2>5 DEF StepPlaces
  <2> QED BY <2>1, <2>2, <2>4, <2>6
<1>2. CASE k = "callback"
  <2>1. Steps[k] = CallbackSteps
    BY <1>2 DEF Steps
  <2>2. Len(CallbackSteps) = 5
    BY DEF CallbackSteps
  <2>3. /\ CallbackSteps[1] = "subscribe" /\ CallbackSteps[2] = "assign"
        /\ CallbackSteps[3] = "trigger" /\ CallbackSteps[4] = "received"
        /\ CallbackSteps[5] = "notRegistered"
    BY DEF CallbackSteps
  <2>4. ReceivedOf(k) = 4
    BY <1>2 DEF ReceivedOf
  <2>5. \A i \in 1 .. 5 : i \in {1, 2, 3, 4, 5}
    OBVIOUS
  <2>6. \A i \in 1 .. 5 : StepPlaces(k, i)
    BY <1>2, <2>1, <2>2, <2>3, <2>4, <2>5 DEF StepPlaces
  <2> QED BY <2>1, <2>2, <2>4, <2>6
<1>3. CASE k = "history"
  <2>1. Steps[k] = HistorySteps
    BY <1>3 DEF Steps
  <2>2. Len(HistorySteps) = 7
    BY DEF HistorySteps
  <2>3. /\ HistorySteps[1] = "subscribe" /\ HistorySteps[2] = "trigger"
        /\ HistorySteps[3] = "received" /\ HistorySteps[4] = "setUp"
        /\ HistorySteps[5] = "triggerBad" /\ HistorySteps[6] = "notReceived"
        /\ HistorySteps[7] = "unsubscribe"
    BY DEF HistorySteps
  <2>4. ReceivedOf(k) = 3
    BY <1>3 DEF ReceivedOf
  <2>5. \A i \in 1 .. 7 : i \in {1, 2, 3, 4, 5, 6, 7}
    OBVIOUS
  <2>6. \A i \in 1 .. 7 : StepPlaces(k, i)
    BY <1>3, <2>1, <2>2, <2>3, <2>4, <2>5 DEF StepPlaces
  <2> QED BY <2>1, <2>2, <2>4, <2>6
<1>4. CASE k = "settings"
  <2>1. Steps[k] = SettingsSteps
    BY <1>4 DEF Steps
  <2>2. Len(SettingsSteps) = 10
    BY DEF SettingsSteps
  <2>3. /\ SettingsSteps[1] = "subscribe" /\ SettingsSteps[2] = "trigger"
        /\ SettingsSteps[3] = "received" /\ SettingsSteps[4] = "setUp"
        /\ SettingsSteps[5] = "triggerRefused" /\ SettingsSteps[6] = "notReceived"
        /\ SettingsSteps[7] = "setUp" /\ SettingsSteps[8] = "triggerRefused"
        /\ SettingsSteps[9] = "notReceived" /\ SettingsSteps[10] = "unsubscribe"
    BY DEF SettingsSteps
  <2>4. ReceivedOf(k) = 3
    BY <1>4 DEF ReceivedOf
  <2>5. \A i \in 1 .. 10 : i \in {1, 2, 3, 4, 5, 6, 7, 8, 9, 10}
    OBVIOUS
  <2>6. \A i \in 1 .. 10 : StepPlaces(k, i)
    BY <1>4, <2>1, <2>2, <2>3, <2>4, <2>5 DEF StepPlaces
  <2> QED BY <2>1, <2>2, <2>4, <2>6
<1> QED BY <1>1, <1>2, <1>3, <1>4 DEF Kinds

\* A notification sets the flag in the step before its last, which notifies.
LEMMA NotificationFacts ==
  ASSUME NEW k \in Kinds
  PROVE  LET steps == NotificationSteps(k)
         IN  /\ Len(steps) \in {2, 3} /\ DOMAIN steps = 1 .. Len(steps)
             /\ steps[1] \in {"unsubscribe", "flag"}
             /\ steps[2] \in {"flag", "notify"}
             /\ steps[Len(steps)] = "notify"
             /\ \A i \in 1 .. Len(steps) :
                  /\ steps[i] = "unsubscribe" => k = "callback" /\ i = 1 /\ steps[2] = "flag"
                  /\ steps[i] = "flag" => i + 1 = Len(steps)
                  /\ steps[i] = "notify" => i = Len(steps)
<1>1. CASE k = "callback"
  <2>1. NotificationSteps(k) = <<"unsubscribe", "flag", "notify">>
    BY <1>1 DEF NotificationSteps
  <2>2. \A i \in 1 .. 3 : i \in {1, 2, 3}
    OBVIOUS
  <2> QED BY <1>1, <2>1, <2>2
<1>2. CASE k # "callback"
  <2>1. NotificationSteps(k) = <<"flag", "notify">>
    BY <1>2 DEF NotificationSteps
  <2>2. \A i \in 1 .. 2 : i \in {1, 2}
    OBVIOUS
  <2> QED BY <1>2, <2>1, <2>2
<1> QED BY <1>1, <1>2

\* A test that has not come to its end is at a step of its kind.
LEMMA KindFacts ==
  ASSUME Types, ~AllRun
  PROVE  /\ test \in DOMAIN Tests /\ Kind \in Kinds
         /\ Received \in {3, 4} /\ Last \in Received + 1 .. 10
         /\ pc \in 1 .. Last + 1
<1>1. Len(Tests) \in Nat /\ DOMAIN Tests = 1 .. Len(Tests)
  BY TestsAssumption
<1>2. test \in DOMAIN Tests
  BY <1>1 DEF Types, AllRun
<1>3. Kind \in Kinds
  BY <1>2, TestsAssumption DEF Kind
<1>4. Received \in {3, 4}
  BY DEF Received, ReceivedOf
<1>5. Last \in Received + 1 .. 10
  BY <1>3, StepFacts DEF Received, Last
<1>6. pc \in 1 .. Last + 1
  BY <1>5, <1>4 DEF Types
<1> QED BY <1>2, <1>3, <1>4, <1>5, <1>6

\* A test that is at a step is where that step stands.
LEMMA PlaceOf ==
  ASSUME Types, NEW step, At(step)
  PROVE  /\ ~AllRun /\ pc \in 1 .. Last
         /\ Steps[Kind][pc] = step /\ StepPlaces(Kind, pc)
<1>1. ~AllRun /\ pc <= Last /\ Steps[Kind][pc] = step
  BY DEF At, Last, Kind
<1>2. Kind \in Kinds /\ Last \in Nat /\ pc \in 1 .. Last
  BY <1>1, KindFacts
<1> QED BY <1>1, <1>2, StepFacts DEF Last

\* A notification that runs is at a step of its kind.
LEMMA RunningFacts ==
  ASSUME Types, running # NotRunning
  PROVE  /\ running \in [of : DOMAIN Tests, at : 1 .. 3, by : DOMAIN Tests]
         /\ Tests[running.of] \in Kinds
         /\ running.at \in 1 .. Len(NotificationSteps(Tests[running.of]))
<1>1. running \in [of : DOMAIN Tests, at : 1 .. 3, by : DOMAIN Tests]
  BY DEF Types
<1>2. Tests[running.of] \in Kinds
  BY <1>1, TestsAssumption
<1>3. Len(NotificationSteps(Tests[running.of])) \in {2, 3}
  BY <1>2, NotificationFacts
<1> QED BY <1>1, <1>2, <1>3 DEF Types

\* The notification's next step, after the one that it is at.
LEMMA GoesOn ==
  ASSUME Types, running # NotRunning, NotificationGoesOn
  PROVE  /\ Doing("notify") => running' = NotRunning
         /\ ~Doing("notify") =>
              /\ running' # NotRunning
              /\ running' = [running EXCEPT !.at = @ + 1]
              /\ running' \in [of : DOMAIN Tests, at : 1 .. 3, by : DOMAIN Tests]
              /\ running'.at <= Len(NotificationSteps(Tests[running.of]))
<1> DEFINE steps == NotificationSteps(Tests[running.of])
<1>1. /\ running \in [of : DOMAIN Tests, at : 1 .. 3, by : DOMAIN Tests]
      /\ running.at \in 1 .. Len(steps)
  BY RunningFacts
<1>2. /\ Len(steps) \in {2, 3} /\ steps[Len(steps)] = "notify"
      /\ \A i \in 1 .. Len(steps) : steps[i] = "notify" => i = Len(steps)
  BY RunningFacts, NotificationFacts
<1>3. Doing("notify") <=> running.at = Len(steps)
  BY <1>1, <1>2 DEF Doing
<1>4. CASE Doing("notify")
  BY <1>3, <1>4 DEF NotificationGoesOn
<1>5. CASE ~Doing("notify")
  <2>1. running' = [running EXCEPT !.at = @ + 1]
    BY <1>3, <1>5 DEF NotificationGoesOn
  <2>2. running.at + 1 \in 1 .. 3 /\ running.at + 1 <= Len(steps)
    BY <1>1, <1>2, <1>3, <1>5
  <2>3. running' \in [of : DOMAIN Tests, at : 1 .. 3, by : DOMAIN Tests] /\ running'.at = running.at + 1
    BY <1>1, <2>1, <2>2
  <2>4. running' # NotRunning
    BY <1>1, <2>2, <2>3 DEF NotRunning
  <2> QED BY <1>5, <2>1, <2>2, <2>3, <2>4
<1> QED BY <1>4, <1>5

-----------------------------------------------------------------------------
(***************************************************************************)
(* The types.                                                              *)
(***************************************************************************)
\* A run begins well typed.
LEMMA InitTypes == Init => Types
<1> SUFFICES ASSUME Init PROVE Types
  OBVIOUS
<1>1. Len(Tests) \in Nat /\ DOMAIN Tests = 1 .. Len(Tests)
  BY TestsAssumption
<1>2. ~AllRun => Last \in Nat
  <2> SUFFICES ASSUME ~AllRun PROVE Last \in Nat
    OBVIOUS
  <2>1. Tests[test] \in Kinds
    BY <1>1, TestsAssumption DEF Init, AllRun
  <2> QED BY <2>1, StepFacts DEF Last, Kind, ReceivedOf
<1>3. /\ test \in 1 .. Len(Tests) + 1 /\ pc \in Nat /\ pc >= 1
      /\ ~AllRun => pc <= Last + 1
      /\ AllRun => pc = 1
      /\ inHand \in 0 .. Len(Tests) /\ told \in 0 .. Len(Tests)
      /\ wire \in Seq([by : DOMAIN Tests, decodes : BOOLEAN])
  BY <1>1, <1>2 DEF Init
<1> QED BY <1>3, Zenon DEF Init, Types

\* The step of a test to its next one.
LEMMA GoOnTypes ==
  ASSUME Types, NEW step, At(step), GoOn
  PROVE  /\ test' = test /\ Kind' = Kind /\ Last' = Last /\ Received' = Received
         /\ AllRun' = AllRun /\ ~AllRun'
         /\ pc' = pc + 1 /\ pc' \in Nat /\ pc' >= 1 /\ pc' <= Last' + 1
<1>1. test' = test /\ pc' = pc + 1
  BY DEF GoOn
<1>2. ~AllRun /\ pc \in 1 .. Last /\ Last \in Nat
  BY PlaceOf, KindFacts
<1>3. Kind' = Kind /\ Last' = Last /\ Received' = Received /\ AllRun' = AllRun
  BY <1>1 DEF Kind, Last, Received, AllRun
<1> QED BY <1>1, <1>2, <1>3

\* Every step keeps the types.
LEMMA NextTypes == Types /\ [Next]_vars => Types'
<1> SUFFICES ASSUME Types, [Next]_vars PROVE Types'
  OBVIOUS
<1> USE DEF testVars, waitVars, threadVars
<1>a. DOMAIN Tests = 1 .. Len(Tests) /\ Len(Tests) \in Nat
  BY TestsAssumption
<1>1. CASE Subscribe
  <2>1. At("subscribe") /\ GoOn
    BY <1>1 DEF Subscribe
  <2>2. test \in DOMAIN Tests
    BY <2>1, PlaceOf, KindFacts
  <2>3. registry' \subseteq DOMAIN Tests /\ failed' \subseteq 1 .. Len(Tests) + 1
    BY <1>1, <1>a, <2>2 DEF Subscribe, Expect, Types
  <2> QED BY <1>1, <2>1, <2>3, GoOnTypes DEF Subscribe, Types
<1>2. CASE AssignId
  <2>1. At("assign") /\ GoOn
    BY <1>2 DEF AssignId
  <2> QED BY <1>2, <2>1, GoOnTypes DEF AssignId, Types
<1>3. CASE TriggerEvent
  <2>1. PICK step : At(step) /\ GoOn
    BY <1>3 DEF TriggerEvent
  <2>2. test \in DOMAIN Tests
    BY <2>1, PlaceOf, KindFacts
  <2>3. \A good \in BOOLEAN : Sent(good) \in Seq([by : DOMAIN Tests, decodes : BOOLEAN])
    <3> SUFFICES ASSUME NEW good \in BOOLEAN
                 PROVE  Sent(good) \in Seq([by : DOMAIN Tests, decodes : BOOLEAN])
      OBVIOUS
    <3>1. [by |-> test, decodes |-> good] \in [by : DOMAIN Tests, decodes : BOOLEAN]
      BY <2>2
    <3> QED BY <3>1, AppendProperties DEF Sent, Types
  <2>4. wire' \in Seq([by : DOMAIN Tests, decodes : BOOLEAN])
    BY <1>3, <2>3 DEF TriggerEvent, Types
  <2> QED BY <1>3, <2>1, <2>4, GoOnTypes DEF TriggerEvent, Types
<1>4. CASE SetUp
  <2>1. At("setUp") /\ GoOn
    BY <1>4 DEF SetUp
  <2> QED BY <1>4, <2>1, GoOnTypes DEF SetUp, Types
<1>5. CASE FallAsleep
  BY <1>5 DEF FallAsleep, Types, AllRun, Last, Kind
<1>6. CASE VerifyEventReceived
  <2>1. At("received") /\ GoOn
    BY <1>6 DEF VerifyEventReceived
  <2>2. test \in 1 .. Len(Tests) + 1
    BY DEF Types
  <2>3. failed' \subseteq 1 .. Len(Tests) + 1
    BY <1>6, <2>2 DEF VerifyEventReceived, Expect, Types
  <2> QED BY <1>6, <2>1, <2>3, GoOnTypes DEF VerifyEventReceived, WaitEnded, Types
<1>7. CASE VerifyEventNotReceived
  <2>1. At("notReceived") /\ GoOn
    BY <1>7 DEF VerifyEventNotReceived
  <2>2. test \in 1 .. Len(Tests) + 1
    BY DEF Types
  <2>3. failed' \subseteq 1 .. Len(Tests) + 1
    BY <1>7, <2>2 DEF VerifyEventNotReceived, Expect, Types
  <2> QED BY <1>7, <2>1, <2>3, GoOnTypes DEF VerifyEventNotReceived, WaitEnded, Types
<1>8. CASE Unsubscribe
  <2>1. PICK step : At(step) /\ GoOn
    BY <1>8 DEF Unsubscribe
  <2>2. test \in 1 .. Len(Tests) + 1
    BY DEF Types
  <2>3. failed' \subseteq 1 .. Len(Tests) + 1
    BY <1>8, <2>2 DEF Unsubscribe, Expect, Types
  <2> QED BY <1>8, <2>1, <2>3, GoOnTypes DEF Unsubscribe, Types
<1>9. CASE NextTest
  <2>1. ~AllRun /\ test' = test + 1 /\ pc' = 1
    BY <1>9 DEF NextTest
  <2>2. test' \in 1 .. Len(Tests) + 1
    BY <1>a, <2>1 DEF Types, AllRun
  <2>3. ~AllRun' => pc' <= Last' + 1
    <3> SUFFICES ASSUME ~AllRun' PROVE pc' <= Last' + 1
      OBVIOUS
    <3>1. Tests[test'] \in Kinds
      BY <1>a, <2>2, TestsAssumption DEF AllRun
    <3>2. Len(Steps[Tests[test']]) \in Nat
      BY <3>1, StepFacts DEF ReceivedOf
    <3> QED BY <2>1, <3>2 DEF Last, Kind
  <2>4. subscriptionId' \in BOOLEAN /\ eventReceived' \in BOOLEAN
    BY <1>9, Zenon DEF NextTest
  <2> QED BY <1>9, <2>1, <2>2, <2>3, <2>4 DEF NextTest, Types
<1>10. CASE TakeInHand
  <2>1. wire # << >> /\ wire' = Tail(wire) /\ inHand' = Head(wire).by
    BY <1>10 DEF TakeInHand
  <2>2. wire' \in Seq([by : DOMAIN Tests, decodes : BOOLEAN]) /\ inHand' \in DOMAIN Tests
    <3>1. wire \in Seq([by : DOMAIN Tests, decodes : BOOLEAN])
      BY DEF Types
    <3>2. /\ Head(wire) \in [by : DOMAIN Tests, decodes : BOOLEAN]
          /\ Tail(wire) \in Seq([by : DOMAIN Tests, decodes : BOOLEAN])
      BY <2>1, <3>1, HeadTailProperties
    <3> QED BY <2>1, <3>2
  <2>3. due' \subseteq DOMAIN Tests
    BY <1>10 DEF TakeInHand, Types
  <2>4. inHand' \in 0 .. Len(Tests)
    BY <1>a, <2>2
  <2> QED BY <1>10, <2>2, <2>3, <2>4 DEF TakeInHand, Types, AllRun, Last, Kind
<1>11. CASE Notify
  <2>1. PICK t \in due : /\ due' = due \ {t}
                         /\ running' = [of |-> t, at |-> 1, by |-> inHand] \/ UNCHANGED running
    BY <1>11 DEF Notify
  <2>2. t \in DOMAIN Tests /\ inHand \in DOMAIN Tests
    BY DEF Types
  <2>3. 1 <= Len(NotificationSteps(Tests[t]))
    BY <2>2, TestsAssumption, NotificationFacts
  <2>4. [of |-> t, at |-> 1, by |-> inHand] \in [of : DOMAIN Tests, at : 1 .. 3, by : DOMAIN Tests]
    BY <2>2
  <2>5. running' = NotRunning \/
          /\ running' \in [of : DOMAIN Tests, at : 1 .. 3, by : DOMAIN Tests]
          /\ running'.at <= Len(NotificationSteps(Tests[running'.of]))
    BY <2>1, <2>3, <2>4 DEF Types
  <2> QED BY <1>11, <2>1, <2>5 DEF Notify, Types, AllRun, Last, Kind
<1>b. ASSUME running # NotRunning, NotificationGoesOn
      PROVE  running' = NotRunning \/
               /\ running' \in [of : DOMAIN Tests, at : 1 .. 3, by : DOMAIN Tests]
               /\ running'.at <= Len(NotificationSteps(Tests[running'.of]))
  <2>1. CASE Doing("notify")
    BY <1>b, <2>1, GoesOn
  <2>2. CASE ~Doing("notify")
    <3>1. running'.of = running.of
      BY <1>b, <2>2, GoesOn, RunningFacts
    <3> QED BY <1>b, <2>2, <3>1, GoesOn
  <2> QED BY <2>1, <2>2
<1>12. CASE UnsubscribeInCallback
  <2>1. running # NotRunning /\ NotificationGoesOn
    BY <1>12 DEF UnsubscribeInCallback, Doing
  <2>2. failed' \subseteq 1 .. Len(Tests) + 1 /\ registry' \subseteq DOMAIN Tests
    <3>1. test \in 1 .. Len(Tests) + 1
      BY DEF Types
    <3>2. failed' \in {failed, failed \cup {test}} /\ registry' \subseteq registry
      BY <1>12 DEF UnsubscribeInCallback, Expect
    <3> QED BY <3>1, <3>2 DEF Types
  <2> QED BY <1>12, <1>b, <2>1, <2>2 DEF UnsubscribeInCallback, Types, AllRun, Last, Kind
<1>13. CASE SetFlag
  <2>1. running # NotRunning /\ NotificationGoesOn
    BY <1>13 DEF SetFlag, Doing
  <2>2. told' \in 0 .. Len(Tests) /\ eventReceived' \in BOOLEAN
    <3>1. running.by \in 0 .. Len(Tests)
      BY <1>a, <2>1, RunningFacts
    <3>2. told' \in {told, running.by}
      BY <1>13, Zenon DEF SetFlag
    <3>3. eventReceived' = TRUE \/ eventReceived' = eventReceived
      BY <1>13, Zenon DEF SetFlag
    <3>4. eventReceived' \in BOOLEAN
      BY <3>3, Zenon DEF Types
    <3> QED BY <3>1, <3>2, <3>4 DEF Types
  <2> QED BY <1>13, <1>b, <2>1, <2>2 DEF SetFlag, Types, AllRun, Last, Kind
<1>14. CASE NotifyOne
  <2>1. running # NotRunning /\ NotificationGoesOn
    BY <1>14 DEF NotifyOne, Doing
  <2> QED BY <1>14, <1>b, <2>1 DEF NotifyOne, Types, AllRun, Last, Kind
<1>15. CASE TimeUp
  BY <1>15 DEF TimeUp, Types, AllRun, Last, Kind
<1>16. CASE WakeSpuriously
  BY <1>16 DEF WakeSpuriously, Types, AllRun, Last, Kind
<1>17. CASE UNCHANGED vars
  BY <1>17 DEF vars, Types, AllRun, Last, Kind
<1> QED BY <1>1, <1>2, <1>3, <1>4, <1>5, <1>6, <1>7, <1>8, <1>9, <1>10, <1>11, <1>12,
           <1>13, <1>14, <1>15, <1>16, <1>17 DEF Next, Test, Notification

-----------------------------------------------------------------------------
(***************************************************************************)
(* The registry.                                                           *)
(***************************************************************************)
\* A step of the test that is neither its first nor its last one.
LEMMA OwnRegistryGoOn ==
  ASSUME Types, OwnRegistry, NEW step, At(step), GoOn,
         step \notin {"subscribe", "unsubscribe", "notRegistered"}, UNCHANGED registry
  PROVE  OwnRegistry'
<1>1. ~AllRun /\ pc \in 1 .. Last /\ Steps[Kind][pc] = step /\ StepPlaces(Kind, pc)
  BY PlaceOf
<1>2. pc # Last
  BY <1>1 DEF StepPlaces, Last
<1>3. test' = test /\ AllRun' = AllRun /\ pc' = pc + 1 /\ Last' = Last
  BY GoOnTypes
<1>4. Last \in Int /\ pc \in Int
  BY <1>1, KindFacts
<1> QED BY <1>1, <1>2, <1>3, <1>4 DEF OwnRegistry

\* Every step keeps the registry to the test that runs, whether or not a test
\* has failed: only Subscribe adds to it, and the last step of every kind of
\* test removes what it added.
LEMMA NextRegistry == Types /\ OwnRegistry /\ [Next]_vars => OwnRegistry'
<1> SUFFICES ASSUME Types, OwnRegistry, [Next]_vars PROVE OwnRegistry'
  OBVIOUS
<1> USE DEF testVars, waitVars, threadVars
<1>1. CASE Subscribe
  <2>1. At("subscribe") /\ GoOn /\ registry' \subseteq registry \cup {test}
    BY <1>1 DEF Subscribe
  <2>2. /\ pc = 1 /\ Last \in Nat /\ 4 <= Last /\ ~AllRun
    BY <2>1, PlaceOf, KindFacts DEF StepPlaces
  <2>3. test' = test /\ ~AllRun' /\ pc' = 2 /\ Last' = Last
    BY <2>1, <2>2, GoOnTypes
  <2> QED BY <2>1, <2>2, <2>3 DEF OwnRegistry
<1>2. CASE AssignId \/ SetUp
  <2>1. PICK step \in {"assign", "setUp"} : At(step)
    BY <1>2 DEF AssignId, SetUp
  <2> QED BY <1>2, <2>1, OwnRegistryGoOn DEF AssignId, SetUp
<1>3. CASE TriggerEvent
  <2>1. PICK step \in {"trigger", "triggerBad", "triggerRefused"} : At(step)
    BY <1>3 DEF TriggerEvent
  <2> QED BY <1>3, <2>1, OwnRegistryGoOn DEF TriggerEvent
<1>4. CASE VerifyEventReceived \/ VerifyEventNotReceived
  <2>1. PICK step \in {"received", "notReceived"} : At(step)
    BY <1>4 DEF VerifyEventReceived, VerifyEventNotReceived
  <2> QED BY <1>4, <2>1, OwnRegistryGoOn DEF VerifyEventReceived, VerifyEventNotReceived
<1>5. CASE Unsubscribe
  <2>1. PICK step : At(step) /\ GoOn
    BY <1>5 DEF Unsubscribe
  <2>2. test' = test /\ registry' = {}
    BY <1>5, <2>1, GoOnTypes DEF Unsubscribe, OwnRegistry
  <2> QED BY <2>2 DEF OwnRegistry
<1>6. CASE NextTest
  <2>1. ~AllRun /\ pc > Last /\ registry' = registry
    BY <1>6 DEF NextTest, Last, Kind
  <2> QED BY <2>1 DEF OwnRegistry
<1>7. CASE FallAsleep \/ Notification \/ TimeUp \/ WakeSpuriously \/ UNCHANGED vars
  <2>1. UNCHANGED <<test, pc>> /\ registry' \subseteq registry
    BY <1>7 DEF FallAsleep, Notification, TakeInHand, Notify, UnsubscribeInCallback, SetFlag,
       NotifyOne, TimeUp, WakeSpuriously, vars
  <2>2. AllRun' = AllRun /\ Last' = Last
    BY <2>1 DEF AllRun, Last, Kind
  <2> QED BY <2>1, <2>2 DEF OwnRegistry
<1> QED BY <1>1, <1>2, <1>3, <1>4, <1>5, <1>6, <1>7 DEF Next, Test

-----------------------------------------------------------------------------
(***************************************************************************)
(* As long as no test has failed.                                          *)
(***************************************************************************)
\* Outside its wait, no event that could set the flag is on its way.
LEMMA NothingPending ==
  ASSUME OwnEvent, AllRun \/ pc # Received \/ eventReceived
  PROVE  due = {} /\ ~BeforeFlag /\ \A i \in 1 .. Len(wire) : ~wire[i].decodes
BY DEF OwnEvent

\* A step of the test leaves the thread as it is.
LEMMA SameThread ==
  ASSUME UNCHANGED running
  PROVE  BeforeFlag' = BeforeFlag /\ Doing("notify")' = Doing("notify")
BY DEF BeforeFlag, Doing

\* A thread with nothing in hand stays so while nothing that decodes is sent.
LEMMA StillNothing ==
  ASSUME due = {}, ~BeforeFlag, UNCHANGED <<due, running>>,
         \A i \in 1 .. Len(wire') : ~wire'[i].decodes
  PROVE  OwnEvent'
<1>1. due' = {} /\ ~BeforeFlag'
  BY SameThread
<1> QED BY <1>1 DEF OwnEvent

\* What a step leaves alone keeps belonging to the running test.
LEMMA SameOwn ==
  ASSUME OwnEvent, UNCHANGED <<test, pc, eventReceived, wire, due, inHand, running>>
  PROVE  OwnEvent'
<1>1. Kind' = Kind /\ Received' = Received /\ AllRun' = AllRun
  BY DEF Kind, Received, AllRun
<1> QED BY <1>1, SameThread DEF OwnEvent

\* A run begins with nothing registered, sent or set.
LEMMA InitOwn == Init => OwnRegistry /\ Own
<1> SUFFICES ASSUME Init PROVE OwnRegistry /\ Own
  OBVIOUS
<1>1. registry = {} /\ due = {} /\ Len(wire) = 0 /\ ~BeforeFlag /\ ~eventReceived /\ pc = 1
  BY DEF Init, BeforeFlag
<1>2. OwnRegistry /\ OwnFlag
  BY <1>1 DEF OwnRegistry, OwnFlag
<1>3. OwnEvent
  BY <1>1 DEF OwnEvent
<1> QED BY <1>2, <1>3 DEF Own

\* What a test's thread does.
LEMMA TestOwn == Types /\ Own /\ Test /\ failed' = {} => Own'
<1> SUFFICES ASSUME Types, Own, Test, failed' = {} PROVE Own'
  OBVIOUS
<1> USE DEF testVars, waitVars, threadVars
<1>a. OwnEvent /\ OwnFlag
  BY DEF Own
<1>b. ASSUME NEW step, At(step)
      PROVE  /\ ~AllRun /\ pc \in 1 .. Last /\ pc \in Int /\ Last \in Int
             /\ Steps[Kind][pc] = step /\ StepPlaces(Kind, pc)
             /\ Kind \in Kinds /\ Received \in {3, 4} /\ Received < Last
             /\ Received = ReceivedOf(Kind)
  BY <1>b, PlaceOf, KindFacts DEF Received
<1>1. CASE Subscribe
  <2>1. At("subscribe") /\ GoOn
    BY <1>1 DEF Subscribe
  <2>2. pc = 1 /\ ~AllRun /\ Received \in {3, 4} /\ Received < Last /\ Last \in Int
    BY <1>b, <2>1 DEF StepPlaces
  <2>3. test' = test /\ AllRun' = AllRun /\ pc' = 2 /\ Last' = Last /\ Kind' = Kind
    BY <2>1, <2>2, GoOnTypes
  <2>4. OwnEvent'
    BY <1>1, <1>a, <2>2, NothingPending, StillNothing DEF Subscribe
  <2>5. ~eventReceived'
    BY <1>1, <1>a, <2>2 DEF Subscribe, OwnFlag
  <2>6. OwnFlag'
    BY <2>3, <2>5 DEF OwnFlag
  <2> QED BY <2>4, <2>6 DEF Own
<1>2. CASE AssignId
  <2>1. At("assign") /\ GoOn
    BY <1>2 DEF AssignId
  <2>2. pc = 2 /\ ~AllRun /\ Received \in {3, 4}
    BY <1>b, <2>1 DEF StepPlaces
  <2>3. OwnEvent'
    BY <1>2, <1>a, <2>2, NothingPending, StillNothing DEF AssignId
  <2>4. ~eventReceived' /\ subscriptionId'
    BY <1>2, <1>a, <2>2 DEF AssignId, OwnFlag
  <2>5. OwnFlag'
    BY <2>4 DEF OwnFlag
  <2> QED BY <2>3, <2>5 DEF Own
<1>3. CASE TriggerEvent
  <2>1. PICK step \in {"trigger", "triggerBad", "triggerRefused"} :
          At(step) /\ (step # "trigger" => wire' \in {wire, Sent(FALSE)})
    BY <1>3 DEF TriggerEvent
  <2>2. GoOn /\ UNCHANGED <<subscriptionId, eventReceived, waiter, registry, due, inHand, running>>
    BY <1>3 DEF TriggerEvent
  <2>3. /\ ~AllRun /\ pc \in Int /\ Received \in {3, 4} /\ StepPlaces(Kind, pc)
        /\ Steps[Kind][pc] = step /\ Received = ReceivedOf(Kind)
    BY <1>b, <2>1
  <2>4. pc # Received /\ ~eventReceived
    <3>1. CASE step = "trigger"
      BY <1>a, <2>3, <3>1 DEF StepPlaces, OwnFlag
    <3>2. CASE step # "trigger"
      BY <1>a, <2>1, <2>3, <3>2 DEF StepPlaces, OwnFlag, ReceivedOf
    <3> QED BY <3>1, <3>2
  <2>5. /\ test' = test /\ AllRun' = AllRun /\ pc' = pc + 1 /\ Last' = Last /\ Kind' = Kind
        /\ Received' = Received
    BY <2>1, <2>2, GoOnTypes
  <2>6. due = {} /\ ~BeforeFlag /\ \A i \in 1 .. Len(wire) : ~wire[i].decodes
    BY <1>a, <2>4, NothingPending
  <2>7. ASSUME NEW good \in BOOLEAN, wire' \in {wire, Sent(good)}
        PROVE  /\ \A i \in 1 .. Len(wire') : wire'[i].decodes => good /\ wire'[i].by = test
               /\ \A i, j \in 1 .. Len(wire') : wire'[i].decodes /\ wire'[j].decodes => i = j
    <3>1. CASE wire' = wire
      BY <2>6, <3>1
    <3>2. CASE wire' = Sent(good)
      <4>1. /\ wire \in Seq([by : DOMAIN Tests, decodes : BOOLEAN])
            /\ [by |-> test, decodes |-> good] \in [by : DOMAIN Tests, decodes : BOOLEAN]
        BY <2>3, KindFacts DEF Types
      <4>2. /\ Len(wire') = Len(wire) + 1 /\ Len(wire) \in Nat
            /\ \A i \in 1 .. Len(wire) : wire'[i] = wire[i]
            /\ wire'[Len(wire) + 1] = [by |-> test, decodes |-> good]
        BY <3>2, <4>1, AppendProperties DEF Sent
      <4>3. \A i \in 1 .. Len(wire') : i \in 1 .. Len(wire) \/ i = Len(wire) + 1
        BY <4>2
      <4> QED BY <2>6, <4>2, <4>3
    <3> QED BY <2>7, <3>1, <3>2
  <2>8. OwnEvent'
    <3>1. CASE step = "trigger"
      <4>1. wire' \in {wire, Sent(TRUE)} \/ wire' \in {wire, Sent(FALSE)}
        BY <1>3 DEF TriggerEvent
      <4>2. /\ \A i \in 1 .. Len(wire') : wire'[i].decodes => wire'[i].by = test
            /\ \A i, j \in 1 .. Len(wire') : wire'[i].decodes /\ wire'[j].decodes => i = j
        BY <2>7, <4>1
      <4>3. pc' = Received'
        BY <2>3, <2>5, <3>1 DEF StepPlaces
      <4>4. due' = {} /\ ~BeforeFlag' /\ ~eventReceived'
        BY <2>2, <2>4, <2>6, SameThread
      <4> QED BY <2>3, <2>5, <4>2, <4>3, <4>4 DEF OwnEvent
    <3>2. CASE step # "trigger"
      <4>1. \A i \in 1 .. Len(wire') : ~wire'[i].decodes
        BY <2>1, <2>7, <3>2
      <4> QED BY <2>2, <2>6, <4>1, StillNothing
    <3> QED BY <3>1, <3>2
  <2>9. OwnFlag'
    <3>1. ~eventReceived'
      BY <2>2, <2>4
    <3>2. Kind = "callback" /\ pc' >= 3 => subscriptionId
      <4> SUFFICES ASSUME Kind = "callback", pc' >= 3 PROVE subscriptionId
        OBVIOUS
      <4>1. step = "trigger"
        BY <2>1, <2>3 DEF StepPlaces
      <4>2. pc = 3
        BY <2>3, <4>1 DEF StepPlaces, ReceivedOf
      <4> QED BY <1>a, <2>3, <4>2 DEF OwnFlag
    <3> QED BY <2>2, <2>5, <3>1, <3>2 DEF OwnFlag
  <2> QED BY <2>8, <2>9 DEF Own
<1>4. CASE SetUp
  <2>1. At("setUp") /\ GoOn
    BY <1>4 DEF SetUp
  <2>2. pc >= 4 /\ pc # Received /\ ~AllRun /\ Kind # "callback"
    BY <1>b, <2>1 DEF StepPlaces, ReceivedOf
  <2>3. OwnEvent'
    BY <1>4, <1>a, <2>2, NothingPending, StillNothing DEF SetUp
  <2>4. ~eventReceived' /\ Kind' = Kind
    BY <1>4, <2>1, GoOnTypes DEF SetUp
  <2>5. OwnFlag'
    BY <2>2, <2>4 DEF OwnFlag
  <2> QED BY <2>3, <2>5 DEF Own
<1>5. CASE FallAsleep
  <2>1. OwnEvent'
    BY <1>5, <1>a, SameOwn DEF FallAsleep
  <2>2. ~eventReceived' /\ Kind' = Kind /\ AllRun' = AllRun
    BY <1>5 DEF FallAsleep, Kind, AllRun
  <2>3. OwnFlag'
    BY <1>5, <1>a, <2>2 DEF FallAsleep, OwnFlag
  <2> QED BY <2>1, <2>3 DEF Own
<1>6. CASE VerifyEventReceived
  <2>1. At("received") /\ GoOn /\ waiter = "awake"
    BY <1>6 DEF VerifyEventReceived, WaitEnded
  <2>2. eventReceived
    BY <1>6 DEF VerifyEventReceived, Expect
  <2>3. /\ pc = Received /\ ~AllRun /\ Received \in {3, 4} /\ Received = ReceivedOf(Kind)
    BY <1>b, <2>1 DEF StepPlaces
  <2>4. /\ test' = test /\ AllRun' = AllRun /\ pc' = pc + 1 /\ Kind' = Kind
        /\ Received' = Received
    BY <2>1, GoOnTypes
  <2>5. OwnEvent'
    BY <1>6, <1>a, <2>2, NothingPending, StillNothing DEF VerifyEventReceived
  <2>6. UNCHANGED <<subscriptionId, eventReceived, waiter, told>>
    BY <1>6 DEF VerifyEventReceived
  <2>7. OwnFlag'
    BY <1>a, <2>1, <2>2, <2>3, <2>4, <2>6 DEF OwnFlag, ReceivedOf
  <2> QED BY <2>5, <2>7 DEF Own
<1>7. CASE VerifyEventNotReceived
  <2>1. At("notReceived") /\ GoOn
    BY <1>7 DEF VerifyEventNotReceived
  <2>2. pc >= 6 /\ pc # Received /\ ~AllRun /\ Kind \in {"history", "settings"} /\ pc \in Int
    BY <1>b, <2>1 DEF StepPlaces, ReceivedOf
  <2>3. OwnEvent'
    BY <1>7, <1>a, <2>2, NothingPending, StillNothing DEF VerifyEventNotReceived
  <2>4. ~eventReceived' /\ Kind' = Kind
    BY <1>7, <1>a, <2>1, <2>2, GoOnTypes DEF VerifyEventNotReceived, OwnFlag
  <2>5. OwnFlag'
    BY <2>2, <2>4 DEF OwnFlag
  <2> QED BY <2>3, <2>5 DEF Own
<1>8. CASE Unsubscribe
  <2>1. PICK step \in {"unsubscribe", "notRegistered"} : At(step)
    BY <1>8 DEF Unsubscribe
  <2>2. GoOn /\ registry' = registry \ {test}
        /\ UNCHANGED <<subscriptionId, eventReceived, waiter, wire, due, inHand, running, told>>
    BY <1>8 DEF Unsubscribe
  <2>3. /\ pc = Last /\ ~AllRun /\ Received \in {3, 4} /\ Received < Last /\ Last \in Int
        /\ Kind \in {"history", "settings"} => Last >= 7
    BY <1>b, <2>1 DEF StepPlaces, Last
  <2>4. /\ test' = test /\ AllRun' = AllRun /\ pc' = pc + 1 /\ Kind' = Kind
        /\ Received' = Received
    BY <2>1, <2>2, GoOnTypes
  <2>5. OwnEvent'
    BY <1>a, <2>2, <2>3, NothingPending, StillNothing
  <2>6. eventReceived => Kind \notin {"history", "settings"}
    BY <1>a, <2>3 DEF OwnFlag
  <2>7. Doing("notify")' = Doing("notify")
    BY <2>2, SameThread
  <2>8. running' = running /\ waiter' = waiter /\ told' = told /\ eventReceived' = eventReceived
    BY <2>2
  <2>9. OwnFlag'
    BY <1>a, <2>2, <2>3, <2>4, <2>6, <2>7, <2>8 DEF OwnFlag
  <2> QED BY <2>5, <2>9 DEF Own
<1>9. CASE NextTest
  <2>1. /\ ~AllRun /\ pc > Last /\ pc' = 1 /\ eventReceived' = FALSE
        /\ UNCHANGED <<wire, due, inHand, running>>
    BY <1>9 DEF NextTest, Last, Kind
  <2>2. pc # Received
    BY <2>1, KindFacts
  <2>3. OwnEvent'
    BY <1>a, <2>1, <2>2, NothingPending, StillNothing
  <2>4. OwnFlag'
    BY <2>1 DEF OwnFlag
  <2> QED BY <2>3, <2>4 DEF Own
<1> QED BY <1>1, <1>2, <1>3, <1>4, <1>5, <1>6, <1>7, <1>8, <1>9 DEF Test

\* What the transport's thread does.
LEMMA NotificationOwn == Types /\ OwnRegistry /\ Own /\ Notification /\ failed' = {} => Own'
<1> SUFFICES ASSUME Types, OwnRegistry, Own, Notification, failed' = {} PROVE Own'
  OBVIOUS
<1> USE DEF testVars, waitVars, threadVars
<1>a. OwnEvent /\ OwnFlag
  BY DEF Own
<1>b. UNCHANGED <<test, pc, subscriptionId>>
  BY DEF Notification, TakeInHand, Notify, UnsubscribeInCallback, SetFlag, NotifyOne
<1>c. Kind' = Kind /\ Last' = Last /\ Received' = Received /\ AllRun' = AllRun
  BY <1>b DEF Kind, Last, Received, AllRun
<1>1. CASE TakeInHand
  <2>1. /\ wire # << >> /\ due = {} /\ running = NotRunning
        /\ wire' = Tail(wire) /\ inHand' = Head(wire).by
        /\ UNCHANGED <<eventReceived, waiter, registry, running, told>>
        /\ due' \subseteq registry /\ (~Head(wire).decodes => due' = {})
    BY <1>1 DEF TakeInHand
  <2>2. /\ Len(wire) \in Nat /\ Len(wire) >= 1 /\ Head(wire) = wire[1]
        /\ Len(wire') = Len(wire) - 1 /\ \A i \in 1 .. Len(wire') : wire'[i] = wire[i + 1]
    <3>1. wire \in Seq([by : DOMAIN Tests, decodes : BOOLEAN])
      BY DEF Types
    <3>2. Head(wire) = wire[1] /\ Len(wire) \in Nat /\ Len(wire) >= 1
      BY <2>1, <3>1
    <3> QED BY <2>1, <3>1, <3>2, HeadTailProperties
  <2>3. \A i \in 1 .. Len(wire') : i + 1 \in 1 .. Len(wire) /\ i + 1 # 1
    BY <2>2
  <2>4. ~BeforeFlag'
    BY <2>1 DEF BeforeFlag
  <2>5. OwnEvent'
    <3>1. CASE wire[1].decodes
      <4>1. ~AllRun /\ wire[1].by = test /\ pc = Received /\ ~eventReceived
        BY <1>a, <2>2, <3>1 DEF OwnEvent
      <4>2. \A i \in 1 .. Len(wire') : ~wire'[i].decodes
        BY <1>a, <2>2, <2>3, <3>1 DEF OwnEvent
      <4>3. due' \subseteq {test} /\ inHand' = test
        BY <1>a, <2>1, <2>2, <4>1 DEF OwnRegistry
      <4> QED BY <1>b, <1>c, <2>1, <2>4, <4>1, <4>2, <4>3 DEF OwnEvent
    <3>2. CASE ~wire[1].decodes
      <4>1. due' = {}
        BY <2>1, <2>2, <3>2
      <4>2. \A i \in 1 .. Len(wire') :
              wire'[i].decodes => ~AllRun /\ wire'[i].by = test /\ pc = Received /\ ~eventReceived
        BY <1>a, <2>2, <2>3 DEF OwnEvent
      <4>3. \A i, j \in 1 .. Len(wire') : wire'[i].decodes /\ wire'[j].decodes => i = j
        <5> SUFFICES ASSUME NEW i \in 1 .. Len(wire'), NEW j \in 1 .. Len(wire'),
                            wire'[i].decodes, wire'[j].decodes
                     PROVE  i = j
          OBVIOUS
        <5>1. wire[i + 1].decodes /\ wire[j + 1].decodes
          BY <2>2
        <5>2. i + 1 = j + 1
          BY <1>a, <2>3, <5>1 DEF OwnEvent
        <5> QED BY <2>2, <5>2
      <4> QED BY <1>b, <1>c, <2>1, <2>4, <4>1, <4>2, <4>3 DEF OwnEvent
    <3> QED BY <3>1, <3>2
  <2>6. OwnFlag'
    BY <1>a, <1>b, <1>c, <2>1, SameThread DEF OwnFlag
  <2> QED BY <2>5, <2>6 DEF Own
<1>2. CASE Notify
  <2>1. PICK t \in due : /\ due' = due \ {t}
                         /\ \/ running' = [of |-> t, at |-> 1, by |-> inHand]
                            \/ running' = running
    BY <1>2 DEF Notify
  <2>2. /\ running = NotRunning
        /\ UNCHANGED <<eventReceived, waiter, registry, wire, inHand, told>>
    BY <1>2 DEF Notify
  <2>3. /\ ~AllRun /\ t = test /\ due' = {} /\ inHand = test /\ pc = Received /\ ~eventReceived
        /\ \A i \in 1 .. Len(wire) : ~wire[i].decodes
    BY <1>a, <2>1 DEF OwnEvent
  <2>4. BeforeFlag' => running'.of = test /\ running'.by = test
    BY <2>1, <2>2, <2>3 DEF BeforeFlag
  <2>5. OwnEvent'
    BY <1>b, <1>c, <2>2, <2>3, <2>4 DEF OwnEvent
  <2>6. OwnFlag'
    BY <1>a, <1>b, <1>c, <2>2, <2>3 DEF OwnFlag
  <2> QED BY <2>5, <2>6 DEF Own
<1>3. CASE UnsubscribeInCallback
  <2>1. running # NotRunning /\ Doing("unsubscribe") /\ NotificationGoesOn
        /\ UNCHANGED <<eventReceived, waiter, wire, due, told>>
    BY <1>3 DEF UnsubscribeInCallback, Doing
  <2>2. ~Doing("notify") /\ Tests[running.of] = "callback"
    BY <2>1, RunningFacts, NotificationFacts DEF Doing
  <2>3. /\ ~AllRun /\ running.of = test /\ running.by = test /\ pc = Received /\ due = {}
        /\ ~eventReceived /\ \A i \in 1 .. Len(wire) : ~wire[i].decodes
    BY <1>a, <2>1, <2>2 DEF OwnEvent, BeforeFlag
  <2>4. running'.of = test /\ running'.by = test
    BY <2>1, <2>2, <2>3, GoesOn, RunningFacts
  <2>5. OwnEvent'
    BY <1>b, <1>c, <2>1, <2>3, <2>4 DEF OwnEvent
  <2>6. OwnFlag'
    BY <1>a, <1>b, <1>c, <2>1, <2>3 DEF OwnFlag
  <2> QED BY <2>5, <2>6 DEF Own
<1>4. CASE SetFlag
  <2>1. running # NotRunning /\ Doing("flag") /\ NotificationGoesOn
        /\ UNCHANGED <<waiter, registry, wire, due>>
    BY <1>4 DEF SetFlag, Doing
  <2>2. /\ ~Doing("notify")
        /\ running.at + 1 = Len(NotificationSteps(Tests[running.of]))
        /\ NotificationSteps(Tests[running.of])[running.at + 1] = "notify"
    BY <2>1, RunningFacts, NotificationFacts DEF Doing
  <2>3. /\ ~AllRun /\ running.of = test /\ running.by = test /\ pc = Received /\ due = {}
        /\ \A i \in 1 .. Len(wire) : ~wire[i].decodes
    BY <1>a, <2>1, <2>2 DEF OwnEvent, BeforeFlag
  <2>4. eventReceived' = TRUE /\ told' = test
    BY <1>4, <2>3 DEF SetFlag
  <2>5. running' # NotRunning /\ running'.of = test /\ running'.at = running.at + 1
    BY <2>1, <2>2, <2>3, GoesOn, RunningFacts
  <2>6. Doing("notify")' /\ ~BeforeFlag'
    BY <2>2, <2>3, <2>5 DEF Doing, BeforeFlag
  <2>7. OwnEvent'
    BY <1>b, <1>c, <2>1, <2>3, <2>6 DEF OwnEvent
  <2>8. Received \in {3, 4} /\ (Kind \in {"history", "settings"} => Received = 3)
    BY DEF Received, ReceivedOf
  <2>9. OwnFlag'
    BY <1>a, <1>b, <1>c, <2>3, <2>4, <2>5, <2>6, <2>8 DEF OwnFlag
  <2> QED BY <2>7, <2>9 DEF Own
<1>5. CASE NotifyOne
  <2>1. running # NotRunning /\ Doing("notify") /\ NotificationGoesOn
        /\ UNCHANGED <<eventReceived, registry, wire, due, inHand, told>>
        /\ (running.of = test => waiter' = "awake") /\ waiter' \in {"awake", waiter}
    BY <1>5 DEF NotifyOne, Doing
  <2>2. running' = NotRunning
    BY <2>1, GoesOn
  <2>3. ~BeforeFlag' /\ due = {}
    BY <1>a, <2>1, <2>2 DEF BeforeFlag, OwnEvent
  <2>4. OwnEvent'
    BY <1>a, <1>b, <1>c, <2>1, <2>3 DEF OwnEvent
  <2>5. OwnFlag'
    BY <1>a, <1>b, <1>c, <2>1 DEF OwnFlag
  <2> QED BY <2>4, <2>5 DEF Own
<1> QED BY <1>1, <1>2, <1>3, <1>4, <1>5 DEF Notification

\* A failure is not forgotten.
LEMMA FailedGrows == [Next]_vars => failed \subseteq failed'
BY DEF Next, vars, Test, Notification, Subscribe, AssignId, TriggerEvent, SetUp, FallAsleep,
       VerifyEventReceived, VerifyEventNotReceived, Unsubscribe, NextTest, TakeInHand, Notify,
       UnsubscribeInCallback, SetFlag, NotifyOne, TimeUp, WakeSpuriously, Expect

\* The invariant holds at first.
LEMMA InitIInv == Init => IInv
BY InitTypes, InitOwn DEF IInv

\* Every step keeps the invariant.
LEMMA NextIInv == IInv /\ [Next]_vars => IInv'
<1> SUFFICES ASSUME IInv, [Next]_vars PROVE IInv'
  OBVIOUS
<1>1. Types /\ Types' /\ OwnRegistry /\ OwnRegistry'
  BY NextTypes, NextRegistry DEF IInv
<1>2. ASSUME failed' = {} PROVE Own'
  <2>1. failed = {} /\ Own
    BY <1>2, FailedGrows DEF IInv
  <2>2. CASE Test
    BY <1>1, <1>2, <2>1, <2>2, TestOwn
  <2>3. CASE Notification
    BY <1>1, <1>2, <2>1, <2>3, NotificationOwn
  <2>4. CASE TimeUp \/ WakeSpuriously \/ UNCHANGED vars
    <3>1. /\ UNCHANGED <<test, pc, subscriptionId, registry, eventReceived, wire, due, inHand, running, told>>
          /\ waiter' \in {"awake", waiter}
      BY <2>4 DEF TimeUp, WakeSpuriously, vars, testVars, waitVars, threadVars
    <3>2. OwnEvent'
      BY <2>1, <3>1, SameOwn DEF Own
    <3>3. Kind' = Kind /\ Received' = Received /\ AllRun' = AllRun
      BY <3>1 DEF Kind, Received, AllRun
    <3>4. OwnFlag'
      BY <2>1, <3>1, <3>3, SameThread DEF Own, OwnFlag
    <3> QED BY <3>2, <3>4 DEF Own
  <2> QED BY <2>2, <2>3, <2>4 DEF Next
<1> QED BY <1>1, <1>2 DEF IInv

\* The invariant holds in every state.
LEMMA Invariant == Spec => []IInv
BY InitIInv, NextIInv, PTL DEF Spec

-----------------------------------------------------------------------------
(***************************************************************************)
(* The properties.                                                         *)
(***************************************************************************)
\* Every state is well typed, and no test leaves a subscription behind, whether
\* or not it fails.
THEOREM TestsTypeCorrect == Spec => []TypeOK
<1>1. IInv => TypeOK
  <2> SUFFICES ASSUME IInv PROVE TypeOK
    OBVIOUS
  <2>1. Types
    BY DEF IInv
  <2>2. pc \in 1 .. Len(SettingsSteps) + 1
    <3>1. Len(SettingsSteps) = 10
      BY DEF SettingsSteps
    <3>2. CASE ~AllRun
      BY <2>1, <3>1, <3>2, KindFacts
    <3>3. CASE AllRun
      BY <2>1, <3>1, <3>3 DEF Types
    <3> QED BY <3>2, <3>3
  <2>3. running # NotRunning =>
          /\ running.of \in DOMAIN Tests /\ running.by \in DOMAIN Tests
          /\ running.at \in DOMAIN NotificationSteps(Tests[running.of])
    <3>1. running # NotRunning =>
            DOMAIN NotificationSteps(Tests[running.of]) = 1 .. Len(NotificationSteps(Tests[running.of]))
      BY <2>1, RunningFacts, NotificationFacts
    <3> QED BY <2>1, <3>1, RunningFacts
  <2> QED BY <2>1, <2>2, <2>3 DEF Types, TypeOK, IInv, OwnRegistry
<1> QED BY <1>1, Invariant, PTL

\* No wake-up is lost, in any sequence of tests.
THEOREM SleeperIsNotifiedAlways == Spec => []SleeperIsNotified
<1>1. IInv => SleeperIsNotified
  <2> SUFFICES ASSUME IInv, waiter = "asleep", eventReceived, failed = {}
               PROVE  /\ running # NotRunning
                      /\ LET steps == NotificationSteps(Tests[running.of])
                         IN  \E i \in running.at .. Len(steps) : steps[i] = "notify"
    BY DEF SleeperIsNotified
  <2>1. Doing("notify")
    BY DEF IInv, Own, OwnFlag
  <2>2. running # NotRunning /\ NotificationSteps(Tests[running.of])[running.at] = "notify"
    BY <2>1 DEF Doing
  <2>3. running.at \in running.at .. Len(NotificationSteps(Tests[running.of]))
    BY <2>2, RunningFacts, NotificationFacts DEF IInv
  <2> QED BY <2>2, <2>3
<1> QED BY <1>1, Invariant, PTL

\* As long as no test has failed, the notification that unsubscribes itself
\* has its id, and its test is not over.
THEOREM IdKnownInCallbackAlways == Spec => []IdKnownInCallback
<1>1. IInv => IdKnownInCallback
  <2> SUFFICES ASSUME IInv, Doing("unsubscribe"), failed = {}
               PROVE  running.of = test /\ subscriptionId
    BY DEF IdKnownInCallback
  <2>1. Types /\ OwnEvent /\ OwnFlag /\ running # NotRunning
    BY DEF IInv, Own, Doing
  <2>2. ~Doing("notify") /\ Tests[running.of] = "callback"
    BY <2>1, RunningFacts, NotificationFacts DEF Doing
  <2>3. ~AllRun /\ running.of = test /\ pc = Received
    BY <2>1, <2>2 DEF OwnEvent, BeforeFlag
  <2>4. Kind = "callback" /\ pc = 4
    BY <2>2, <2>3 DEF Kind, Received, ReceivedOf
  <2> QED BY <2>1, <2>3, <2>4 DEF OwnFlag
<1> QED BY <1>1, Invariant, PTL

\* As long as no test has failed, only the call of notify_one() outlives the
\* fixture it is made on.
THEOREM FixtureOutlivedByNotifyAloneAlways == Spec => []FixtureOutlivedByNotifyAlone
<1>1. IInv => FixtureOutlivedByNotifyAlone
  BY DEF IInv, Own, OwnEvent, BeforeFlag, FixtureOutlivedByNotifyAlone
<1> QED BY <1>1, Invariant, PTL

\* What a test sees after its wait, up to the first failure, is its own event.
THEOREM VerifiedByItsOwnEventAlways == Spec => VerifiedByItsOwnEvent
<1>1. IInv /\ [Next]_vars => [At("received") /\ pc' # pc /\ failed' = {} => told = test]_vars
  <2> SUFFICES ASSUME IInv, Next, At("received"), pc' # pc, failed' = {} PROVE told = test
    OBVIOUS
  <2>1. VerifyEventReceived
    <3>1. ~AllRun /\ pc <= Len(Steps[Tests[test]]) /\ Steps[Tests[test]][pc] = "received"
      BY DEF At
    <3> QED BY <3>1, KindFacts
            DEF At, Next, Test, Notification, Subscribe, AssignId, TriggerEvent, SetUp, FallAsleep,
                VerifyEventNotReceived, Unsubscribe, NextTest, TakeInHand, Notify,
                UnsubscribeInCallback, SetFlag, NotifyOne, TimeUp, WakeSpuriously, testVars, IInv, Last, Kind
  <2>2. failed = {} /\ eventReceived
    BY <2>1 DEF VerifyEventReceived, Expect
  <2> QED BY <2>2 DEF IInv, Own, OwnFlag
<1> QED BY <1>1, Invariant, PTL DEF Spec, VerifiedByItsOwnEvent

\* A malformed event is not taken for one that was received.
THEOREM MalformedEventUnnoticedAlways == Spec => MalformedEventUnnoticed
<1>1. IInv /\ [Next]_vars =>
        [At("notReceived") /\ pc' # pc /\ failed = {} => failed' = {}]_vars
  <2> SUFFICES ASSUME IInv, Next, At("notReceived"), pc' # pc, failed = {} PROVE failed' = {}
    OBVIOUS
  <2>1. VerifyEventNotReceived
    <3>1. ~AllRun /\ pc <= Len(Steps[Tests[test]]) /\ Steps[Tests[test]][pc] = "notReceived"
      BY DEF At
    <3> QED BY <3>1, KindFacts
            DEF At, Next, Test, Notification, Subscribe, AssignId, TriggerEvent, SetUp, FallAsleep,
                VerifyEventReceived, Unsubscribe, NextTest, TakeInHand, Notify,
                UnsubscribeInCallback, SetFlag, NotifyOne, TimeUp, WakeSpuriously, testVars, IInv, Last, Kind
  <2>2. pc >= 6 /\ Kind \in {"history", "settings"} /\ pc \in Int
    BY PlaceOf DEF IInv, StepPlaces
  <2>3. ~eventReceived
    BY <2>2 DEF IInv, Own, OwnFlag
  <2> QED BY <2>1, <2>3 DEF VerifyEventNotReceived, Expect
<1> QED BY <1>1, Invariant, PTL DEF Spec, MalformedEventUnnoticed

-----------------------------------------------------------------------------
(***************************************************************************)
(* What holds of TestsEnd in every step; that the tests are scheduled and  *)
(* the clock runs is for TLC.                                              *)
(***************************************************************************)
\* Only a test that waits sleeps or has a time that may be up; and when it is
\* up, the test is awake: no wake-up is needed for the wait to end.
Waits ==
  /\ expired => waiter = "awake"
  /\ expired \/ waiter = "asleep" => At("received") \/ At("notReceived")

\* A step of a test that is not at its wait begins awake, with its time ahead.
LEMMA NotAtWait ==
  ASSUME Waits, Types, ~At("received"), ~At("notReceived")
  PROVE  waiter = "awake" /\ ~expired
BY DEF Waits, Types

\* A test is at one step.
LEMMA AtOne ==
  ASSUME NEW step, NEW other, At(step), At(other)
  PROVE  step = other
BY DEF At

\* Every step keeps to it, those of the notification and the clock included.
LEMMA NextWaits == Types /\ Waits /\ [Next]_vars => Waits'
<1> SUFFICES ASSUME Types, Waits, [Next]_vars PROVE Waits'
  OBVIOUS
<1> USE DEF testVars, waitVars, threadVars
<1>1. ASSUME waiter' = "awake", ~expired' PROVE Waits'
  BY <1>1 DEF Waits
<1>2. ASSUME UNCHANGED <<test, pc, expired>>, waiter' \in {waiter, "awake"} PROVE Waits'
  <2>1. At("received")' = At("received") /\ At("notReceived")' = At("notReceived")
    BY <1>2 DEF At, AllRun
  <2> QED BY <1>2, <2>1 DEF Waits
<1>3. ASSUME NEW step \in {"subscribe", "assign", "trigger", "triggerBad", "triggerRefused",
                           "setUp", "unsubscribe", "notRegistered"},
             At(step), UNCHANGED waitVars
      PROVE  Waits'
  BY <1>1, <1>3, NotAtWait, AtOne
<1>4. CASE Subscribe \/ AssignId \/ SetUp \/ Unsubscribe
  BY <1>3, <1>4 DEF Subscribe, AssignId, SetUp, Unsubscribe
<1>5. CASE TriggerEvent
  BY <1>3, <1>5 DEF TriggerEvent
<1>6. CASE FallAsleep
  <2>1. At("received")' = At("received") /\ At("notReceived")' = At("notReceived")
    BY <1>6 DEF FallAsleep, At, AllRun
  <2> QED BY <1>6, <2>1 DEF FallAsleep, Waits
<1>7. CASE VerifyEventReceived \/ VerifyEventNotReceived
  BY <1>1, <1>7 DEF VerifyEventReceived, VerifyEventNotReceived, WaitEnded
<1>8. CASE NextTest
  <2>1. ~At("received") /\ ~At("notReceived")
    BY <1>8, KindFacts DEF NextTest, At, Last, Kind
  <2> QED BY <1>1, <1>8, <2>1, NotAtWait DEF NextTest
<1>9. CASE Notification
  BY <1>2, <1>9 DEF Notification, TakeInHand, Notify, UnsubscribeInCallback, SetFlag, NotifyOne
<1>10. CASE TimeUp
  <2>1. At("received")' = At("received") /\ At("notReceived")' = At("notReceived")
    BY <1>10 DEF TimeUp, At, AllRun
  <2> QED BY <1>10, <2>1 DEF TimeUp, Waits
<1>11. CASE WakeSpuriously \/ UNCHANGED vars
  BY <1>2, <1>11 DEF WakeSpuriously, vars
<1> QED BY <1>4, <1>5, <1>6, <1>7, <1>8, <1>9, <1>10, <1>11 DEF Next, Test

\* It holds in every state.
LEMMA WaitsInvariant == Spec => [](Types /\ Waits)
<1>1. Init => Waits
  BY DEF Init, Waits
<1> QED BY <1>1, InitTypes, NextTypes, NextWaits, PTL DEF Spec

\* The most steps of the tests that are left: none has more than ten, and one
\* to the next test.
StepsLeft == 11 * (Len(Tests) + 1 - test) + 11 - pc

\* There is no end to them below 0.
LEMMA StepsLeftType == Types => StepsLeft \in Nat
<1> SUFFICES ASSUME Types PROVE StepsLeft \in Nat
  OBVIOUS
<1>1. Len(Tests) \in Nat /\ test \in 1 .. Len(Tests) + 1
  BY TestsAssumption DEF Types
<1>2. pc \in 1 .. 11
  <2>1. CASE AllRun
    BY <2>1 DEF Types
  <2>2. CASE ~AllRun
    BY <2>2, KindFacts
  <2> QED BY <2>1, <2>2
<1> QED BY <1>1, <1>2 DEF StepsLeft

\* A step of a test brings the end nearer, but for falling asleep, which a test
\* can only do while its time is not up.
LEMMA TestStepsCount ==
  ASSUME Types, Test
  PROVE  StepsLeft' < StepsLeft \/ (FallAsleep /\ ~expired /\ StepsLeft' = StepsLeft)
<1>1. Len(Tests) \in Nat /\ test \in Nat /\ pc \in Nat
  BY TestsAssumption DEF Types
<1>2. CASE FallAsleep
  BY <1>2 DEF FallAsleep, testVars, StepsLeft
<1>3. CASE NextTest
  <2>1. ~AllRun /\ test' = test + 1 /\ pc' = 1
    BY <1>3 DEF NextTest
  <2>2. pc <= 11
    BY <2>1, KindFacts
  <2> QED BY <1>1, <2>1, <2>2 DEF StepsLeft
<1>4. CASE GoOn
  BY <1>1, <1>4 DEF GoOn, StepsLeft
<1> QED BY <1>2, <1>3, <1>4 DEF Test, Subscribe, AssignId, TriggerEvent, SetUp,
           VerifyEventReceived, VerifyEventNotReceived, Unsubscribe

\* The tests only go forward, whatever the server, the notifications and the
\* clock do, and the tests that wait have nothing to wait for when their time
\* is up: a wait whose time is up stays so, awake, until the test's own next
\* step, and that step is the one that ends it.
THEOREM TestsGoForward ==
  Spec => /\ [](StepsLeft \in Nat /\ Waits)
          /\ [][IF Test
                THEN StepsLeft' < StepsLeft \/ (FallAsleep /\ ~expired /\ StepsLeft' = StepsLeft)
                ELSE StepsLeft' = StepsLeft /\ (expired => expired')]_vars
<1>1. ASSUME Next, ~Test
      PROVE  StepsLeft' = StepsLeft /\ (expired => expired')
  <2>1. UNCHANGED <<test, pc>> /\ (expired => expired')
    BY <1>1 DEF Next, Notification, TakeInHand, Notify, UnsubscribeInCallback, SetFlag,
       NotifyOne, TimeUp, WakeSpuriously, testVars, waitVars
  <2> QED BY <2>1 DEF StepsLeft
<1>2. Types /\ [Next]_vars =>
        [IF Test
         THEN StepsLeft' < StepsLeft \/ (FallAsleep /\ ~expired /\ StepsLeft' = StepsLeft)
         ELSE StepsLeft' = StepsLeft /\ (expired => expired')]_vars
  BY <1>1, TestStepsCount
<1> QED BY <1>2, StepsLeftType, WaitsInvariant, PTL DEF Spec
=============================================================================
