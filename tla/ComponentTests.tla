--------------------------- MODULE ComponentTests ---------------------------
(***************************************************************************)
(* The component tests of subscriptions: each subscribes, has the mock     *)
(* server send an event, waits for a flag that the notification sets on    *)
(* the transport's thread, and unsubscribes.  main() runs one after the    *)
(* other, each with a fixture of its own.                                  *)
(*                                                                         *)
(* The mock server may lose an event or send it late; the registry and the *)
(* thread are the transport's, as weak as in FireboltClient.  A            *)
(* notification that outlives its test uses a fixture that is gone: what   *)
(* that does is left open as far as the next fixture goes, which may lie   *)
(* at the same place.                                                      *)
(***************************************************************************)
EXTENDS Naturals, Sequences

CONSTANT Tests   \* the tests in the order they run in: a sequence of kinds

Kinds == {"receive", "callback", "history", "settings"}

ASSUME TestsAssumption == Tests \in Seq(Kinds)

VARIABLES
  test,           \* the test that runs, by its place in Tests
  pc,             \* the step it is at
  subscriptionId, \* has the local variable of that name been assigned?
  eventReceived,  \* the fixture's flag
  waiter,         \* "awake", or "asleep" on the fixture's condition variable
  expired,        \* has EventWaitTime run out?
  failed,         \* tests with a failure
  registry,       \* tests whose subscription is registered
  wire,           \* events on their way
  due,            \* subscriptions to be told of the event in hand
  inHand,         \* the test that had the event in hand sent
  running,        \* the notification that runs, or NotRunning
  told            \* the test whose event set eventReceived last (history)

testVars   == <<test, pc, subscriptionId>>
waitVars   == <<waiter, expired>>
threadVars == <<due, inHand, running>>
vars == <<testVars, eventReceived, waitVars, failed, registry, wire, threadVars, told>>

Method ==
  [receive  |-> "Presentation.onFocusedChanged",
   callback |-> "Presentation.onFocusedChanged",
   history  |-> "Lifecycle2.onStateChanged",
   settings |-> "Accessibility.onVoiceGuidanceSettingsChanged"]

\* A bug of ReceiveSteps: the test forgets to unsubscribe.
ReceiveStepsLeaking == <<"subscribe", "trigger", "received">>

ReceiveSteps == <<"subscribe", "trigger", "received", "unsubscribe">>

\* A bug of CallbackSteps: the id is stored when it is needed next.
CallbackStepsLate == <<"subscribe", "trigger", "assign", "received", "notRegistered">>

CallbackSteps == <<"subscribe", "assign", "trigger", "received", "notRegistered">>

\* A bug of HistorySteps: the flag is not reset.
HistoryStepsUnreset ==
  <<"subscribe", "trigger", "received", "triggerBad", "notReceived", "unsubscribe">>

HistorySteps ==
  <<"subscribe", "trigger", "received",
    "setUp", "triggerBad", "notReceived", "unsubscribe">>

SettingsSteps ==
  <<"subscribe", "trigger", "received",
    "setUp", "triggerRefused", "notReceived",
    "setUp", "triggerRefused", "notReceived", "unsubscribe">>

Steps ==
  [receive |-> ReceiveSteps, callback |-> CallbackSteps,
   history |-> HistorySteps, settings |-> SettingsSteps]

\* A bug of NotificationSteps: the flag is set outside the lock, after the
\* notice to the waiter.
NotificationStepsSwapped(kind) ==
  IF kind = "callback" THEN <<"unsubscribe", "notify", "flag">> ELSE <<"notify", "flag">>

\* The notification's steps: the flag is set under the lock, the waiter is
\* notified after it.
NotificationSteps(kind) ==
  IF kind = "callback" THEN <<"unsubscribe", "flag", "notify">> ELSE <<"flag", "notify">>

NotRunning == [of |-> 0, at |-> 0, by |-> 0]
AllRun     == test > Len(Tests)
At(step)   == ~AllRun /\ pc <= Len(Steps[Tests[test]]) /\ Steps[Tests[test]][pc] = step
Doing(step) == running # NotRunning /\ NotificationSteps(Tests[running.of])[running.at] = step

Init ==
  /\ test = 1 /\ pc = 1 /\ subscriptionId = FALSE
  /\ eventReceived = FALSE /\ waiter = "awake" /\ expired = FALSE
  /\ failed = {} /\ registry = {} /\ wire = << >>
  /\ due = {} /\ inHand = 0 /\ running = NotRunning
  /\ told = 0

GoOn == pc' = pc + 1 /\ UNCHANGED test
Expect(holds) == failed' = IF holds THEN failed ELSE failed \cup {test}

-----------------------------------------------------------------------------
(***************************************************************************)
(* The test, on main's thread.                                             *)
(***************************************************************************)
\* A subscription that fails is a failure, and the test goes on.
Subscribe ==
  /\ At("subscribe") /\ GoOn
  /\ \/ registry' = registry \cup {test} /\ UNCHANGED failed
     \/ UNCHANGED registry /\ Expect(FALSE)
  /\ UNCHANGED <<subscriptionId, eventReceived, waitVars, wire, threadVars, told>>

\* After a failed subscription what is assigned is no id of one.
AssignId ==
  /\ At("assign") /\ GoOn
  /\ subscriptionId' = TRUE
  /\ UNCHANGED <<eventReceived, waitVars, failed, registry, wire, threadVars, told>>

Sent(good) == Append(wire, [by |-> test, decodes |-> good])

\* triggerEvent() does not look at the mock server's answer: the event may be
\* lost.  The server is configured to refuse what its OpenRPC document does
\* not allow; of such events, an unknown state would not decode either, while
\* the client takes a rate that is out of bounds.
TriggerEvent ==
  /\ \/ At("trigger") /\ wire' \in {wire, Sent(TRUE)}
     \/ At("triggerBad") /\ wire' \in {wire, Sent(FALSE)}
     \/ At("triggerRefused") /\ UNCHANGED wire
  /\ GoOn
  /\ UNCHANGED <<subscriptionId, eventReceived, waitVars, failed, registry, threadVars, told>>

SetUp ==
  /\ At("setUp") /\ GoOn
  /\ eventReceived' = FALSE
  /\ UNCHANGED <<subscriptionId, waitVars, failed, registry, wire, threadVars, told>>

\* wait_for() looks at the flag under the lock and goes to sleep in the same
\* step, or comes to an end.
FallAsleep ==
  /\ At("received") \/ At("notReceived")
  /\ waiter = "awake" /\ ~eventReceived /\ ~expired
  /\ waiter' = "asleep"
  /\ UNCHANGED <<testVars, eventReceived, expired, failed, registry, wire, threadVars, told>>

WaitEnded == waiter = "awake" /\ (eventReceived \/ expired) /\ expired' = FALSE

\* A bug of VerifyEventReceived: wait_for() without the condition.
VerifyWakeUp ==
  /\ At("received") /\ waiter = "awake" /\ GoOn
  /\ expired' = FALSE
  /\ Expect(~expired)
  /\ UNCHANGED <<subscriptionId, eventReceived, waiter, registry, wire, threadVars, told>>

VerifyEventReceived ==
  /\ At("received") /\ WaitEnded /\ GoOn
  /\ Expect(eventReceived)
  /\ UNCHANGED <<subscriptionId, eventReceived, waiter, registry, wire, threadVars, told>>

VerifyEventNotReceived ==
  /\ At("notReceived") /\ WaitEnded /\ GoOn
  /\ Expect(~eventReceived)
  /\ UNCHANGED <<subscriptionId, eventReceived, waiter, registry, wire, threadVars, told>>

\* The last call of a test, with the result it asks for.
Unsubscribe ==
  /\ At("unsubscribe") \/ At("notRegistered")
  /\ GoOn
  /\ Expect(At("unsubscribe") <=> test \in registry)
  /\ registry' = registry \ {test}
  /\ UNCHANGED <<subscriptionId, eventReceived, waitVars, wire, threadVars, told>>

\* The fixture goes, and the next test has one that SetUp() has prepared.
NextTest ==
  /\ ~AllRun /\ pc > Len(Steps[Tests[test]])
  /\ test' = test + 1 /\ pc' = 1 /\ subscriptionId' = FALSE
  /\ eventReceived' = FALSE
  /\ UNCHANGED <<waitVars, failed, registry, wire, threadVars, told>>

\* A bug of TimeUp: wait() in place of wait_for().
TimeNeverUp == FALSE /\ UNCHANGED vars

TimeUp ==
  /\ At("received") \/ At("notReceived")
  /\ ~expired
  /\ expired' = TRUE /\ waiter' = "awake"
  /\ UNCHANGED <<testVars, eventReceived, failed, registry, wire, threadVars, told>>

\* A condition variable may wake its waiter for no reason.
WakeSpuriously ==
  /\ waiter = "asleep"
  /\ waiter' = "awake"
  /\ UNCHANGED <<testVars, eventReceived, expired, failed, registry, wire, threadVars, told>>

-----------------------------------------------------------------------------
(***************************************************************************)
(* The notification, on the transport's thread.                            *)
(***************************************************************************)
\* An event that does not decode is told to nobody.
TakeInHand ==
  /\ wire # << >> /\ due = {} /\ running = NotRunning
  /\ wire' = Tail(wire)
  /\ inHand' = Head(wire).by
  /\ due' = IF Head(wire).decodes
            THEN {t \in registry : Method[Tests[t]] = Method[Tests[Head(wire).by]]}
            ELSE {}
  /\ UNCHANGED <<testVars, eventReceived, waitVars, failed, registry, running, told>>

\* A subscription that has gone meanwhile is told as well, or passed over.
Notify ==
  /\ running = NotRunning
  /\ \E t \in due :
       /\ due' = due \ {t}
       /\ \/ running' = [of |-> t, at |-> 1, by |-> inHand]
          \/ t \notin registry /\ UNCHANGED running
  /\ UNCHANGED <<testVars, eventReceived, waitVars, failed, registry, wire, inHand, told>>

NotificationGoesOn ==
  running' = IF running.at = Len(NotificationSteps(Tests[running.of])) THEN NotRunning
             ELSE [running EXCEPT !.at = @ + 1]

\* unsubscribe(subscriptionId), of a variable that may hold anything: before
\* it is assigned, or when it is gone.
UnsubscribeInCallback ==
  /\ Doing("unsubscribe") /\ NotificationGoesOn
  /\ \E id \in IF running.of = test /\ subscriptionId THEN {test} ELSE 0 .. Len(Tests) :
       Expect(id \in registry) /\ registry' = registry \ {id}
  /\ UNCHANGED <<testVars, eventReceived, waitVars, wire, due, inHand, told>>

SetFlag ==
  /\ Doing("flag") /\ NotificationGoesOn
  /\ \/ eventReceived' = TRUE /\ told' = running.by
     \/ running.of # test /\ UNCHANGED <<eventReceived, told>>
  /\ UNCHANGED <<testVars, waitVars, failed, registry, wire, due, inHand>>

NotifyOne ==
  /\ Doing("notify") /\ NotificationGoesOn
  /\ \/ waiter' = "awake"
     \/ running.of # test /\ UNCHANGED waiter
  /\ UNCHANGED <<testVars, eventReceived, expired, failed, registry, wire, due, inHand, told>>

Test ==
  \/ Subscribe \/ AssignId \/ TriggerEvent \/ SetUp \/ FallAsleep
  \/ VerifyEventReceived \/ VerifyEventNotReceived \/ Unsubscribe \/ NextTest

Notification == TakeInHand \/ Notify \/ UnsubscribeInCallback \/ SetFlag \/ NotifyOne

Next == Test \/ Notification \/ TimeUp \/ WakeSpuriously

Spec == Init /\ [][Next]_vars

\* Main is scheduled and its timer runs.  Nothing is asked of the server and
\* of the transport.
FairSpec == Spec /\ WF_vars(Test) /\ WF_vars(TimeUp)

-----------------------------------------------------------------------------
(***************************************************************************)
(* Properties.                                                             *)
(***************************************************************************)
\* Types, and each test leaves the registry as it found it: of the tests, the
\* one that runs is the only one that may be subscribed, even after failures.
TypeOK ==
  /\ test \in 1 .. Len(Tests) + 1
  /\ pc \in 1 .. Len(SettingsSteps) + 1
  /\ subscriptionId \in BOOLEAN /\ eventReceived \in BOOLEAN /\ expired \in BOOLEAN
  /\ waiter \in {"awake", "asleep"}
  /\ failed \subseteq 1 .. Len(Tests) + 1
  /\ registry \subseteq DOMAIN Tests \cap {test} /\ due \subseteq DOMAIN Tests
  /\ wire \in Seq([by : DOMAIN Tests, decodes : BOOLEAN])
  /\ inHand \in 0 .. Len(Tests) /\ told \in 0 .. Len(Tests)
  /\ running = NotRunning \/ /\ running.of \in DOMAIN Tests /\ running.by \in DOMAIN Tests
                             /\ running.at \in DOMAIN NotificationSteps(Tests[running.of])

\* As long as no test has failed, a test that has received its event received
\* the one it triggered, not one of another test or a wake-up for no reason.
VerifiedByItsOwnEvent ==
  [][At("received") /\ pc' # pc /\ failed' = {} => told = test]_vars

\* A malformed event makes a test fail only if one has failed before: the
\* flag that a test resets without the lock is not set again behind it.
MalformedEventUnnoticed ==
  [][At("notReceived") /\ pc' # pc /\ failed = {} => failed' = {}]_vars

\* No wake-up is lost: a waiter that sleeps although its flag is set has the
\* notice still to come, so the wait ends without its 2 s running out.
SleeperIsNotified ==
  waiter = "asleep" /\ eventReceived /\ failed = {} =>
    /\ running # NotRunning
    /\ LET steps == NotificationSteps(Tests[running.of])
       IN  \E i \in running.at .. Len(steps) : steps[i] = "notify"

\* The notification that unsubscribes itself finds its id: subscribing has
\* returned and the id is stored before the event is triggered, and the test
\* is not over.  Only after a failure may it read a variable that is not
\* assigned yet, or that is gone.
IdKnownInCallback ==
  Doing("unsubscribe") => (running.of = test /\ subscriptionId) \/ failed # {}

\* No notification outlives the fixture that it uses, up to its last step: the
\* flag is seen by the test before the waiter has been notified, and the
\* condition variable may be gone when it is.
FixtureOutlivedByNotifyAlone ==
  running # NotRunning /\ running.of # test => Doing("notify") \/ failed # {}

\* All tests come to their end, whatever becomes of the events.
TestsEnd == <>AllRun
=============================================================================
