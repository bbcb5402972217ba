---------------------- MODULE ComponentTestsMain_proofs ----------------------
(***************************************************************************)
(* Proofs about ComponentTestsMain, for any length of the wait and of its  *)
(* slices.                                                                 *)
(***************************************************************************)
EXTENDS ComponentTestsMain, TLAPS

\* The flag is up only after a notice said so; what has been counted down has
\* been slept; the loop is left with nothing to count or after such a notice.
WaitInv ==
  /\ gConnected => reported
  /\ waited + waiting = Waiting
  /\ main = "polled" => waiting = 0 \/ reported
  /\ TestsOnlyAfterConnected
  /\ GivesUpLate

IInv == TypeOK /\ WaitInv

\* The invariant holds at first.
LEMMA InitIInv == Init => IInv
<1> SUFFICES ASSUME Init PROVE IInv
  OBVIOUS
<1>1. GatewayTypeOK
  BY DEF Init, GatewayInit, GatewayTypeOK, Free
<1>2. TypeOK
  <2>1. waiting \in 0 .. Waiting /\ waited \in Nat
    BY WaitingAssumption DEF Init
  <2> QED BY <1>1, <2>1, Zenon DEF Init, TypeOK
<1>3. WaitInv
  BY WaitingAssumption DEF Init, WaitInv, TestsOnlyAfterConnected, GivesUpLate
<1> QED BY <1>2, <1>3 DEF IInv

\* Every step keeps the invariant; two notices may change the flag between
\* the loop's last look at it and main's.
LEMMA NextIInv == IInv /\ [Next]_vars => IInv'
<1> SUFFICES ASSUME IInv, [Next]_vars PROVE IInv'
  OBVIOUS
<1> USE WaitingAssumption
    DEF IInv, WaitInv, TypeOK, GatewayTypeOK, TestsOnlyAfterConnected, GivesUpLate
<1>1. CASE CreateFireboltInstance
  BY <1>1 DEF CreateFireboltInstance, OpenGateway, gatewayVars, loopVars
<1>2. CASE Wake
  BY <1>2 DEF Wake, gatewayVars, loopVars
<1>3. CASE Poll
  BY <1>3 DEF Poll, Lesser, gatewayVars
<1>4. CASE LeaveLoop
  BY <1>4 DEF LeaveLoop, gatewayVars, loopVars
<1>5. CASE TakeConnection
  BY <1>5 DEF TakeConnection, gatewayVars, loopVars
<1>6. CASE Finish
  BY <1>6 DEF Finish, CloseGateway, loopVars
<1>7. CASE ConnectionChanged
  BY <1>7 DEF ConnectionChanged, ListenerReturn, Free, loopVars
<1>8. CASE LinkChange
  <2>1. GatewayTypeOK'
    <3>1. \A c \in BOOLEAN :
            Told(c) \in [at : {"free", "entered", "decided"}, connected : BOOLEAN]
      BY DEF Told
    <3> QED BY <1>8, <3>1 DEF LinkChange, LinkUp, LinkDown
  <2> QED BY <1>8, <2>1 DEF LinkChange, loopVars
<1>9. CASE UNCHANGED vars
  BY <1>9 DEF vars, gatewayVars, loopVars
<1> QED BY <1>1, <1>2, <1>3, <1>4, <1>5, <1>6, <1>7, <1>8, <1>9 DEF Next

\* The invariant holds in every state.
LEMMA Invariant == Spec => []IInv
BY InitIInv, NextIInv, PTL DEF Spec

\* Every state is well typed: the count never falls below 0.
THEOREM WaitTypeCorrect == Spec => []TypeOK
<1>1. IInv => TypeOK
  BY DEF IInv
<1> QED BY <1>1, Invariant, PTL

\* No test runs before a notice reported the connection.
THEOREM TestsOnlyAfterConnectedAlways == Spec => []TestsOnlyAfterConnected
<1>1. IInv => TestsOnlyAfterConnected
  BY DEF IInv, WaitInv
<1> QED BY <1>1, Invariant, PTL

\* No wait without a connection is cut short.
THEOREM GivesUpLateAlways == Spec => []GivesUpLate
<1>1. IInv => GivesUpLate
  BY DEF IInv, WaitInv
<1> QED BY <1>1, Invariant, PTL

-----------------------------------------------------------------------------
(***************************************************************************)
(* What holds of PollingEnds in every step; that main() is scheduled, and  *)
(* therefore gets there, is for TLC.                                       *)
(***************************************************************************)
\* The wait for the connection counts down in whole slices, however the flag
\* changes meanwhile: a turn of the loop lowers what is left by a slice or to
\* 0, nothing else touches it, and main() leaves the loop only for the look at
\* the flag that decides about the tests.
THEOREM PollingCountsDown ==
  Spec => [][main = "polling" =>
               IF Poll
               THEN /\ main' = main /\ waiting' \in Nat
                    /\ waiting' = 0 \/ waiting' = waiting - SLEEPSLOT_TIME
                    /\ waiting' < waiting
               ELSE waiting' = waiting /\ main' \in {"polling", "polled"}]_vars
<1>1. ASSUME IInv, [Next]_vars, main = "polling", Poll
      PROVE  /\ main' = main /\ waiting' \in Nat
             /\ waiting' = 0 \/ waiting' = waiting - SLEEPSLOT_TIME
             /\ waiting' < waiting
  <2>1. waiting \in 0 .. Waiting /\ waiting > 0
    BY <1>1 DEF IInv, TypeOK, Poll
  <2> QED
    BY <1>1, <2>1, WaitingAssumption DEF Poll, Lesser
<1>2. ASSUME [Next]_vars, main = "polling", ~Poll
      PROVE  waiting' = waiting /\ main' \in {"polling", "polled"}
  BY <1>2 DEF Next, CreateFireboltInstance, Wake, LeaveLoop, TakeConnection, Finish,
     ConnectionChanged, LinkChange, loopVars, vars
<1>3. IInv /\ [Next]_vars =>
        [main = "polling" =>
           IF Poll
           THEN /\ main' = main /\ waiting' \in Nat
                /\ waiting' = 0 \/ waiting' = waiting - SLEEPSLOT_TIME
                /\ waiting' < waiting
           ELSE waiting' = waiting /\ main' \in {"polling", "polled"}]_vars
  BY <1>1, <1>2
<1> QED BY <1>3, Invariant, PTL DEF Spec
=============================================================================
