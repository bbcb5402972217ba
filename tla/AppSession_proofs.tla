-------------------------- MODULE AppSession_proofs --------------------------
(***************************************************************************)
(* Proofs about AppSession, for any width of a speech id and any numbers   *)
(* a user may type.                                                        *)
(***************************************************************************)
EXTENDS AppSession, TLAPS

\* The promise holds what the first notice said; main is past a step of its
\* start only with the outcome that lets it go on; and when it has returned
\* with status 0, the gateway is closed and does not come up again.
SessionInv ==
  /\ promise = first
  /\ main \in {"ready", "demos"} => promise # "unset"
  /\ main = "demos" => promise = "connected"
  /\ FrameGone /\ status = 0 => promise = "connected" /\ link \in {"down", "closing"}

\* The id that the demos keep is that of the last utterance.
KeepsTheLast == speechId = spoken

IInv == TypeOK /\ SessionInv /\ KeepsTheLast

\* A number that a SpeechId is made of is one.
LEMMA FromTextType ==
  ASSUME NEW n \in Int
  PROVE  FromText(n) \in SpeechId
<1>1. IdLimit \in Int /\ IdLimit > 1
  BY IdAssumption
<1>2. n % IdLimit \in 0 .. IdLimit - 1 /\ 0 \in 0 .. IdLimit - 1
  BY <1>1
<1> QED BY <1>2 DEF FromText, SpeechId

\* An id that an int can hold is sent as it is.
LEMMA FromTextExact ==
  ASSUME NEW n \in SpeechId, n <= IntMax
  PROVE  FromText(n) = n
<1>1. IdLimit \in Int /\ IdLimit > 1 /\ n \in Int /\ 0 <= n /\ n < IdLimit
  BY IdAssumption DEF SpeechId
<1>2. IntMax \in Int /\ IntMax >= 0
  BY <1>1 DEF IntMax
<1>3. n \in -IntMax - 1 .. IntMax
  BY <1>1, <1>2
<1>4. n % IdLimit = n
  BY <1>1
<1> QED BY <1>3, <1>4 DEF FromText

\* The initial states satisfy the invariant.
LEMMA InitIInv == Init => IInv
<1> SUFFICES ASSUME Init PROVE IInv
  OBVIOUS
<1>1. 0 \in SpeechId
  BY IdAssumption DEF SpeechId
<1>2. TypeOK
  BY <1>1 DEF Init, TypeOK, GatewayInit, GatewayTypeOK, Free, NotAsked
<1>3. SessionInv /\ KeepsTheLast
  BY DEF Init, SessionInv, KeepsTheLast, FrameGone
<1> QED BY <1>2, <1>3 DEF IInv

\* Every step keeps the invariant: only a step of the gateway or of the
\* listener can disturb a session that main has finished; a gateway that is
\* closed comes to rest, and a late listener finds the promise kept.
LEMMA NextIInv == IInv /\ [Next]_vars => IInv'
<1> SUFFICES ASSUME IInv, [Next]_vars PROVE IInv'
  OBVIOUS
<1> USE DEF IInv, SessionInv, KeepsTheLast, FrameGone
<1>1. CASE Connect
  BY <1>1 DEF Connect, OpenGateway, ReturnEarly, gatewayVars, speechVars, TypeOK, GatewayTypeOK
<1>2. CASE Wait
  BY <1>2 DEF Wait, ReturnEarly, gatewayVars, speechVars, TypeOK, GatewayTypeOK
<1>3. CASE TakeOutcome
  BY <1>3 DEF TakeOutcome, ReturnEarly, gatewayVars, speechVars, TypeOK, GatewayTypeOK
<1>4. CASE Finish
  BY <1>4 DEF Finish, CloseGateway, speechVars, TypeOK, GatewayTypeOK
<1>5. CASE Decide
  <2>1. TypeOK'
    BY <1>5 DEF Decide, Outcome, speechVars, TypeOK, GatewayTypeOK
  <2> QED BY <1>5, <2>1 DEF Decide, Outcome, speechVars, TypeOK
<1>6. CASE Leave
  BY <1>6 DEF Leave, ListenerReturn, Free, startVars, speechVars, TypeOK, GatewayTypeOK
<1>7. CASE LinkChange
  <2>1. link \in {"down", "closing"} => link' = "down"
    BY <1>7 DEF LinkChange, LinkUp, LinkDown
  <2>2. GatewayTypeOK'
    <3>1. \A c \in BOOLEAN :
            Told(c) \in [at : {"free", "entered", "decided"}, connected : BOOLEAN]
      BY DEF Told
    <3> QED BY <1>7, <3>1 DEF LinkChange, LinkUp, LinkDown, GatewayTypeOK
  <2> QED BY <1>7, <2>1, <2>2 DEF LinkChange, startVars, speechVars, TypeOK
<1>8. CASE TimeUp
  BY <1>8 DEF TimeUp, gatewayVars, speechVars, TypeOK, GatewayTypeOK
<1>9. CASE Speak
  BY <1>9 DEF Speak, gatewayVars, startVars, TypeOK, GatewayTypeOK
<1>10. CASE AskAboutSpeech
  <2>1. asked' \in [shown : SpeechId, sent : SpeechId, typed : BOOLEAN]
    <3>1. speechId \in SpeechId /\ speechId \in Int
      BY DEF TypeOK, SpeechId
    <3>2. \A n \in Typed : n \in Int
      BY TypedAssumption
    <3>3. FromText(speechId) \in SpeechId /\ \A n \in Typed : FromText(n) \in SpeechId
      BY <3>1, <3>2, FromTextType
    <3>4. \A shown, sent \in SpeechId, typed \in BOOLEAN :
            [shown |-> shown, sent |-> sent, typed |-> typed]
              \in [shown : SpeechId, sent : SpeechId, typed : BOOLEAN]
      OBVIOUS
    <3>5. TRUE \in BOOLEAN /\ FALSE \in BOOLEAN
      OBVIOUS
    <3>6. CASE asked' = [shown |-> speechId, sent |-> FromText(speechId), typed |-> FALSE]
      BY <3>1, <3>3, <3>4, <3>5, <3>6
    <3>7. ASSUME NEW n \in Typed,
                 asked' = [shown |-> speechId, sent |-> FromText(n), typed |-> TRUE]
          PROVE  asked' \in [shown : SpeechId, sent : SpeechId, typed : BOOLEAN]
      BY <3>1, <3>3, <3>4, <3>5, <3>7
    <3> QED BY <1>10, <3>6, <3>7, Zenon DEF AskAboutSpeech
  <2> QED BY <1>10, <2>1 DEF AskAboutSpeech, gatewayVars, startVars, TypeOK, GatewayTypeOK
<1>11. CASE UNCHANGED vars
  BY <1>11 DEF vars, gatewayVars, startVars, speechVars, TypeOK, GatewayTypeOK
<1> QED BY <1>1, <1>2, <1>3, <1>4, <1>5, <1>6, <1>7, <1>8, <1>9, <1>10, <1>11 DEF Next

\* The invariant holds in every state.
LEMMA Invariant == Spec => []IInv
BY InitIInv, NextIInv, PTL DEF Spec

\* Every state is well typed: what the demos send is a SpeechId, whatever a
\* user types.
THEOREM SessionTypeCorrect == Spec => []TypeOK
<1>1. IInv => TypeOK
  BY DEF IInv
<1> QED BY <1>1, Invariant, PTL

\* The app's start and end are as documented, however notices, the clock and
\* main take turns.
THEOREM SessionAsDocumentedAlways == Spec => []SessionAsDocumented
<1>1. IInv => SessionAsDocumented
  BY DEF IInv, SessionInv, SessionAsDocumented, TypeOK
<1> QED BY <1>1, Invariant, PTL

\* A request that leaves the default as it is concerns the last utterance, as
\* long as an int can hold its id.
THEOREM AsksAboutTheLastSpokenAlways == Spec => AsksAboutTheLastSpoken
<1>1. IInv /\ [Next]_vars =>
        [asked' # asked /\ ~asked'.typed /\ spoken <= IntMax => asked'.sent = spoken]_vars
  <2> SUFFICES ASSUME IInv, Next, asked' # asked, ~asked'.typed, spoken <= IntMax
               PROVE  asked'.sent = spoken
    OBVIOUS
  <2>1. AskAboutSpeech
    BY DEF Next, Connect, Wait, TakeOutcome, Finish, Decide, Leave, LinkChange, TimeUp, Speak,
           startVars, speechVars
  <2>2. asked' = [shown |-> speechId, sent |-> FromText(speechId), typed |-> FALSE]
    BY <2>1 DEF AskAboutSpeech
  <2>3. FromText(speechId) = speechId
    BY FromTextExact DEF IInv, KeepsTheLast, TypeOK
  <2> QED BY <2>2, <2>3 DEF IInv, KeepsTheLast
<1> QED BY <1>1, Invariant, PTL DEF Spec, AsksAboutTheLastSpoken

-----------------------------------------------------------------------------
(***************************************************************************)
(* What holds of WaitEnds in every step; that time passes and main() is    *)
(* scheduled is for TLC.                                                   *)
(***************************************************************************)
\* What lets main() go on from its wait.
WaitIsOver == promise # "unset" \/ expired

\* The promise is kept once, however many notices follow: std::promise allows
\* no more.  A wait that is over stays over until main() has left it, and then
\* main() finds an outcome that one of its branches is for.
THEOREM PromiseKeptOnce ==
  Spec => /\ [](main = "ready" => promise \in {"connected", "failed"})
          /\ [][/\ promise # "unset" => promise' = promise
                /\ main = "waiting" /\ WaitIsOver => WaitIsOver' \/ main' # "waiting"
                /\ main = "waiting" => main' \in {"waiting", "ready", "returned"}]_vars
<1>1. IInv => (main = "ready" => promise \in {"connected", "failed"})
  BY DEF IInv, TypeOK, SessionInv
<1>2. ASSUME Next
      PROVE  /\ promise # "unset" => promise' = promise
             /\ expired => expired'
             /\ main = "waiting" => main' \in {"waiting", "ready", "returned"}
  BY <1>2 DEF Next, Connect, Wait, TakeOutcome, Finish, ReturnEarly, Decide, Leave, LinkChange,
     TimeUp, Speak, AskAboutSpeech, startVars
<1>3. [Next]_vars =>
        [/\ promise # "unset" => promise' = promise
         /\ main = "waiting" /\ WaitIsOver => WaitIsOver' \/ main' # "waiting"
         /\ main = "waiting" => main' \in {"waiting", "ready", "returned"}]_vars
  BY <1>2 DEF WaitIsOver
<1> QED BY <1>1, <1>3, Invariant, PTL DEF Spec
=============================================================================
