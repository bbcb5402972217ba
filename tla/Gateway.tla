------------------------------ MODULE Gateway ------------------------------
(***************************************************************************)
(* The gateway of the transport library, as the programs that start a      *)
(* session see it: a connection that comes up, fails, is lost and may be   *)
(* tried again, and one thread that tells the listener given to Connect()  *)
(* of each change.  External, and modelled as weakly as its use allows.    *)
(*                                                                         *)
(* The listener's own steps belong to the program: it moves hand.at on,    *)
(* and the thread is free for the next change when it has returned.        *)
(***************************************************************************)
VARIABLES
  link,   \* "down", "connecting", "up", or "closing": down, which is still to tell
  hand    \* the listener call in progress, or Free

gatewayVars == <<link, hand>>

Free    == [at |-> "free", connected |-> FALSE]
Told(c) == [at |-> "entered", connected |-> c]

GatewayInit == link = "down" /\ hand = Free

\* connect() starts an attempt and returns before its outcome is known.
OpenGateway == link = "down" /\ link' = "connecting" /\ UNCHANGED hand

\* disconnect() does not wait for a listener call in progress, and the listener
\* may or may not be told of it afterwards.
CloseGateway == link' \in {"down", "closing"} /\ UNCHANGED hand

LinkUp ==
  /\ link = "connecting" /\ hand = Free
  /\ link' = "up"
  /\ hand' = Told(TRUE)

LinkDown ==
  /\ hand = Free
  /\ \/ link \in {"connecting", "up"} /\ link' \in {"down", "connecting"}
     \/ link = "closing" /\ link' = "down"
  /\ hand' = Told(FALSE)

ListenerReturn(at) == hand.at = at /\ hand' = Free /\ UNCHANGED link

GatewayTypeOK ==
  /\ link \in {"down", "connecting", "up", "closing"}
  /\ hand \in [at : {"free", "entered", "decided"}, connected : BOOLEAN]
=============================================================================
