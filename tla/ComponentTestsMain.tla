------------------------- MODULE ComponentTestsMain -------------------------
(***************************************************************************)
(* main() of the component tests: it connects, polls a flag that the       *)
(* listener sets on the gateway's thread, runs the tests and disconnects.  *)
(* The tests themselves are in ComponentTests.                             *)
(***************************************************************************)
EXTENDS Gateway, Integers

CONSTANTS
  Waiting,         \* what the wait loop counts down from, 10000
  SLEEPSLOT_TIME   \* and in steps of which, 100

ASSUME WaitingAssumption ==
  Waiting \in Nat /\ SLEEPSLOT_TIME \in Nat /\ SLEEPSLOT_TIME > 0

VARIABLES
  main,        \* where main() stands
  status,      \* what it returns: "none", "tests" (their result) or -1, "failed"
  waiting,     \* the local variable of waitOnConnectionReady()
  waited,      \* microseconds slept in the loop (history)
  gConnected,  \* set by the listener, read by main, without synchronisation
  reported     \* has a notice said that the connection is up? (history)

loopVars == <<waiting, waited>>
vars == <<gatewayVars, main, status, loopVars, gConnected, reported>>

Init ==
  /\ GatewayInit
  /\ main = "starting" /\ status = "none"
  /\ waiting = Waiting /\ waited = 0
  /\ gConnected = FALSE /\ reported = FALSE

\* createFireboltInstance(): Connect()'s result is not looked at.
CreateFireboltInstance ==
  /\ main = "starting"
  /\ gConnected' = FALSE
  /\ OpenGateway \/ UNCHANGED gatewayVars
  /\ main' = "sleeping"
  /\ UNCHANGED <<status, loopVars, reported>>

\* sleep_for(1 s) is over.
Wake ==
  /\ main = "sleeping"
  /\ main' = "polling"
  /\ UNCHANGED <<gatewayVars, status, loopVars, gConnected, reported>>

Lesser(a, b) == IF a < b THEN a ELSE b

\* A bug of Poll: a slice is slept and not counted.
PollUncounted ==
  /\ main = "polling" /\ waiting > 0 /\ ~gConnected
  /\ UNCHANGED <<gatewayVars, main, status, waiting, waited, gConnected, reported>>

\* A bug of Poll: the last slice is as long as the others.
PollUncapped ==
  /\ main = "polling" /\ waiting > 0 /\ ~gConnected
  /\ waiting' = waiting - SLEEPSLOT_TIME
  /\ waited' = waited + SLEEPSLOT_TIME
  /\ UNCHANGED <<gatewayVars, main, status, gConnected, reported>>

\* One turn of the loop: usleep() takes microseconds.
Poll ==
  /\ main = "polling" /\ waiting > 0 /\ ~gConnected
  /\ LET sleepSlot == Lesser(waiting, SLEEPSLOT_TIME)
     IN  /\ waiting' = waiting - sleepSlot
         /\ waited' = waited + sleepSlot
  /\ UNCHANGED <<gatewayVars, main, status, gConnected, reported>>

\* A bug of LeaveLoop: the last slice is not waited for.
LeaveLoopEarly ==
  /\ main = "polling"
  /\ waiting <= SLEEPSLOT_TIME \/ gConnected
  /\ main' = "polled"
  /\ UNCHANGED <<gatewayVars, status, loopVars, gConnected, reported>>

LeaveLoop ==
  /\ main = "polling"
  /\ waiting = 0 \/ gConnected
  /\ main' = "polled"
  /\ UNCHANGED <<gatewayVars, status, loopVars, gConnected, reported>>

\* A bug of TakeConnection: the loop came to its end, so all is well.
TakeForConnected ==
  /\ main = "polled"
  /\ main' = "tests"
  /\ UNCHANGED <<gatewayVars, status, loopVars, gConnected, reported>>

\* return gConnected reads the flag again: it may differ from what ended the
\* loop.  Without a connection main returns, and does not disconnect.
TakeConnection ==
  /\ main = "polled"
  /\ IF gConnected THEN main' = "tests" /\ UNCHANGED status
                   ELSE main' = "returned" /\ status' = "failed"
  /\ UNCHANGED <<gatewayVars, loopVars, gConnected, reported>>

\* RUN_ALL_TESTS() is over; destroyFireboltInstance() disconnects.
Finish ==
  /\ main = "tests"
  /\ CloseGateway
  /\ main' = "returned" /\ status' = "tests"
  /\ UNCHANGED <<loopVars, gConnected, reported>>

\* The listener, connectionChanged().
ConnectionChanged ==
  /\ ListenerReturn("entered")
  /\ gConnected' = hand.connected
  /\ reported' = (reported \/ hand.connected)
  /\ UNCHANGED <<main, status, loopVars>>

LinkChange == (LinkUp \/ LinkDown) /\ UNCHANGED <<main, status, loopVars, gConnected, reported>>

Next ==
  \/ CreateFireboltInstance \/ Wake \/ Poll \/ LeaveLoop \/ TakeConnection \/ Finish
  \/ ConnectionChanged \/ LinkChange

Spec == Init /\ [][Next]_vars

\* main is scheduled, and its sleeps end; the tests may take for ever.
FairSpec ==
  Spec /\ WF_vars(CreateFireboltInstance \/ Wake \/ Poll \/ LeaveLoop \/ TakeConnection)

-----------------------------------------------------------------------------
TypeOK ==
  /\ GatewayTypeOK
  /\ main \in {"starting", "sleeping", "polling", "polled", "tests", "returned"}
  /\ status \in {"none", "tests", "failed"}
  /\ waiting \in 0 .. Waiting /\ waited \in Nat
  /\ gConnected \in BOOLEAN /\ reported \in BOOLEAN

\* The tests call the interfaces only after the listener reported a successful
\* connection, as the comment on Connect() asks; the loop's end alone is not
\* enough, for it ends without a connection too.
TestsOnlyAfterConnected == main = "tests" => reported

\* No wait is cut short while there is no connection: the tests are given up
\* after the whole of Waiting, or because a connection was lost again.
GivesUpLate == status = "failed" => waited = Waiting \/ reported

\* The polling comes to an end with or without a connection, however the flag
\* changes meanwhile.
PollingEnds == main = "polling" ~> main \in {"tests", "returned"}

\* "lets sleep in slices of 100 ms": what is counted down are milliseconds.
SlicesOfMilliseconds == waited = 1000 * (Waiting - waiting)
=============================================================================
