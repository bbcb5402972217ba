----------------------------- MODULE AppSession -----------------------------
(***************************************************************************)
(* The API test app: main() from Connect() to its return, the listener     *)
(* that the gateway's thread calls with references into main's frame, and  *)
(* the demos' choice of a speech id.                                       *)
(*                                                                         *)
(* Options, menus and the other demos' printing are left out.  The demos   *)
(* run in any order: a menu, a test suite and the automatic run are each   *)
(* one such order.                                                         *)
(***************************************************************************)
EXTENDS Gateway, Integers

CONSTANTS
  IdLimit,   \* one more than the largest uint32_t; int holds half as many
  Typed      \* the numbers a user types for a speech id

ASSUME IdAssumption == IdLimit \in Nat /\ IdLimit > 1 /\ IdLimit % 2 = 0
ASSUME TypedAssumption == Typed \subseteq Int

VARIABLES
  main,      \* where main() stands
  status,    \* what main() returns
  promise,   \* "unset", or what set_value() was given: "connected", "failed"
  expired,   \* has the wait's time run out?
  first,     \* what the first notice said (history)
  speechId,  \* TextToSpeechDemo::speechId_
  spoken,    \* the id of the last utterance the platform accepted (history)
  asked      \* the last request about an utterance: the id shown, and sent

startVars  == <<main, status, promise, expired, first>>
speechVars == <<speechId, spoken, asked>>
vars == <<gatewayVars, startVars, speechVars>>

SpeechId == 0 .. IdLimit - 1
IntMax   == IdLimit \div 2 - 1
NotAsked == [shown |-> 0, sent |-> 0, typed |-> FALSE]

\* main()'s locals: the promise, the once flag, the demos.
FrameGone == main = "returned"

Outcome(connected) == IF connected THEN "connected" ELSE "failed"

-----------------------------------------------------------------------------
Init ==
  /\ GatewayInit
  /\ main = "starting" /\ status = 0
  /\ promise = "unset" /\ expired = FALSE /\ first = "unset"
  /\ speechId = 0 /\ spoken = 0 /\ asked = NotAsked

\* return 1: main's frame goes, the gateway stays as it is.
ReturnEarly == main' = "returned" /\ status' = 1

Connect ==
  /\ main = "starting"
  /\ \/ OpenGateway /\ main' = "waiting" /\ UNCHANGED status
     \/ UNCHANGED gatewayVars /\ ReturnEarly
  /\ UNCHANGED <<promise, expired, first, speechVars>>

\* A bug of Wait: wait() in place of wait_for().
WaitWithoutLimit ==
  /\ main = "waiting"
  /\ promise # "unset" /\ main' = "ready" /\ UNCHANGED status
  /\ UNCHANGED <<gatewayVars, promise, expired, first, speechVars>>

\* wait_for(2 s): the promise is kept in time, or the time is up.
Wait ==
  /\ main = "waiting"
  /\ \/ promise # "unset" /\ main' = "ready" /\ UNCHANGED status
     \/ promise = "unset" /\ expired /\ ReturnEarly
  /\ UNCHANGED <<gatewayVars, promise, expired, first, speechVars>>

\* A bug of TakeOutcome: that the promise was kept is taken for a connection.
TakeAnyOutcome ==
  /\ main = "ready"
  /\ main' = "demos"
  /\ UNCHANGED <<gatewayVars, status, promise, expired, first, speechVars>>

\* future.get().
TakeOutcome ==
  /\ main = "ready"
  /\ \/ promise = "connected" /\ main' = "demos" /\ UNCHANGED status
     \/ promise = "failed" /\ ReturnEarly
  /\ UNCHANGED <<gatewayVars, promise, expired, first, speechVars>>

\* Disconnect(), then the end of main().
Finish ==
  /\ main = "demos"
  /\ CloseGateway
  /\ main' = "returned" /\ status' = 0
  /\ UNCHANGED <<promise, expired, first, speechVars>>

-----------------------------------------------------------------------------
(***************************************************************************)
(* The listener, on the gateway's thread, and the clock.                   *)
(***************************************************************************)
\* A bug of Decide: only a connection is worth keeping the promise for.
DecideWhenConnected ==
  /\ hand.at = "entered"
  /\ promise' = IF promise = "unset" /\ hand.connected THEN "connected" ELSE promise
  /\ first' = IF first = "unset" THEN Outcome(hand.connected) ELSE first
  /\ hand' = [hand EXCEPT !.at = "decided"]
  /\ UNCHANGED <<link, main, status, expired, speechVars>>

\* call_once: the first notice keeps the promise.  In a frame that is gone
\* nothing is known of what this does; the flag is taken to be as it was.
Decide ==
  /\ hand.at = "entered"
  /\ promise' = IF promise = "unset" THEN Outcome(hand.connected) ELSE promise
  /\ first' = IF first = "unset" THEN Outcome(hand.connected) ELSE first
  /\ hand' = [hand EXCEPT !.at = "decided"]
  /\ UNCHANGED <<link, main, status, expired, speechVars>>

\* The once flag is left, and with it the listener: main may be far by now.
Leave == ListenerReturn("decided") /\ UNCHANGED <<startVars, speechVars>>

LinkChange == (LinkUp \/ LinkDown) /\ UNCHANGED <<startVars, speechVars>>

TimeUp ==
  /\ main = "waiting" /\ ~expired
  /\ expired' = TRUE
  /\ UNCHANGED <<gatewayVars, main, status, promise, first, speechVars>>

-----------------------------------------------------------------------------
(***************************************************************************)
(* The speech demos.                                                       *)
(***************************************************************************)
\* A bug of Speak: the id of the first utterance is kept.
SpeakOnlyFirst ==
  /\ main = "demos"
  /\ \E id \in SpeechId : speechId' = (IF speechId = 0 THEN id ELSE speechId) /\ spoken' = id
  /\ UNCHANGED <<gatewayVars, startVars, asked>>

\* speak(): the platform answers with an id, or with an error.
Speak ==
  /\ main = "demos"
  /\ \E id \in SpeechId : speechId' = id /\ spoken' = id
  /\ UNCHANGED <<gatewayVars, startVars, asked>>

\* A bug of FromText: an int taken for a SpeechId as it is.
FromTextSigned(n) == IF n \in -IntMax - 1 .. IntMax THEN n ELSE 0

\* std::stoi, converted to a SpeechId; 0 for a number that is no int.
FromText(n) == IF n \in -IntMax - 1 .. IntMax THEN n % IdLimit ELSE 0

\* cancel, pause, resume, getSpeechState: of the id shown as the default, or
\* of another that the user types.
AskAboutSpeech ==
  /\ main = "demos"
  /\ \/ asked' = [shown |-> speechId, sent |-> FromText(speechId), typed |-> FALSE]
     \/ \E n \in Typed : asked' = [shown |-> speechId, sent |-> FromText(n), typed |-> TRUE]
  /\ UNCHANGED <<gatewayVars, startVars, speechId, spoken>>

Next ==
  \/ Connect \/ Wait \/ TakeOutcome \/ Finish
  \/ Decide \/ Leave \/ LinkChange \/ TimeUp
  \/ Speak \/ AskAboutSpeech

Spec == Init /\ [][Next]_vars

\* main and the listener are scheduled, and time passes.  Nothing obliges the
\* gateway to report anything, nor the demos to end.
FairSpec ==
  /\ Spec
  /\ WF_vars(Connect \/ Wait \/ TakeOutcome)
  /\ WF_vars(Decide \/ Leave)
  /\ WF_vars(TimeUp)

-----------------------------------------------------------------------------
(***************************************************************************)
(* Properties.                                                             *)
(***************************************************************************)
TypeOK ==
  /\ GatewayTypeOK
  /\ main \in {"starting", "waiting", "ready", "demos", "returned"}
  /\ status \in {0, 1}
  /\ promise \in {"unset", "connected", "failed"}
  /\ first \in {"unset", "connected", "failed"}
  /\ expired \in BOOLEAN
  /\ speechId \in SpeechId /\ spoken \in SpeechId
  /\ asked \in [shown : SpeechId, sent : SpeechId, typed : BOOLEAN]

\* The app behaves as its README and the comment on Connect() say: demos call
\* the interfaces only after a notice reported the connection, and it is the
\* first notice that decides, not a later one; the app ends with status 0 only
\* after that, with the session closed for good, and with another status
\* otherwise.
SessionAsDocumented ==
  /\ main = "demos" => first = "connected"
  /\ FrameGone /\ status = 0 => first = "connected" /\ link \in {"down", "closing"}
  /\ FrameGone /\ first = "failed" => status = 1

\* A request about an utterance that leaves the default as it is concerns the
\* last utterance the platform accepted, for every id that an int can hold.
AsksAboutTheLastSpoken ==
  [][asked' # asked /\ ~asked'.typed /\ spoken <= IntMax => asked'.sent = spoken]_vars

\* The app does not wait for ever for the first notice: it goes on to the
\* demos or returns, though the gateway may never report anything.
WaitEnds == main = "waiting" ~> main \in {"demos", "returned"}

\* The id that is sent is the one that was shown: "Auto-selecting <id>".
SendsWhatItShows == ~asked.typed => asked.sent = asked.shown
=============================================================================
