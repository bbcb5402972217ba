--------------------------- MODULE FireboltClient ---------------------------
(***************************************************************************)
(* The accessor singleton, its subscribing interfaces and the notification *)
(* path, for several application threads and the transport's thread.       *)
(*                                                                         *)
(* The client is a thin layer over the firebolt-cpp-transport library.     *)
(* That library is not part of the repository, so its three pieces are     *)
(* modelled from how the client and its tests use them, and as weakly as   *)
(* they allow:                                                             *)
(*   - the helper's registry of subscriptions, keyed by an id that is      *)
(*     global to the process.  Each call of the helper is atomic;          *)
(*   - the gateway: a connection that comes up after connect() and may be  *)
(*     lost at any time;                                                   *)
(*   - one transport thread that takes the received events in order and    *)
(*     calls the notifications one by one, without a lock that the calls   *)
(*     made from inside a notification would need.                         *)
(***************************************************************************)
EXTENDS Interfaces, FiniteSets

CONSTANTS
  AppThread,   \* the application's threads
  Transport,   \* the thread that runs the notifications
  Exercised,   \* the part of Subscribable this application subscribes to
  MaxId,       \* bound: subscriptions made in one behaviour
  MaxWire      \* bound: events received and not yet taken in hand

ASSUME ThreadAssumption    == Transport \notin AppThread
ASSUME ExercisedAssumption == Exercised \subseteq Subscribable
ASSUME BoundAssumption     == MaxId \in Nat /\ MaxWire \in Nat

VARIABLES
  registry,   \* helper: the set of [id, owner, event] now subscribed
  nextId,     \* helper: the id of the next subscription
  mine,       \* the subscriptions the application holds the id of (history)
  pc,         \* thread -> where it stands in a call of the client
  held,       \* thread -> the subscription whose id it is about to return
  pos,        \* thread -> position in SweepOrder of its unsubscribeAll()
  mark,       \* thread -> nextId when its unsubscribeAll() began (history)
  released,   \* interface -> ids below were to be released (history)
  accessor,   \* "live", "dying" (in its destructor) or "gone"
  torn,       \* members of TeardownOrder already destroyed
  gateway,    \* "down", "connecting" or "up"
  wire,       \* events received, oldest first: [event, good]
  due,        \* subscriptions still to be notified of the event in hand
  goodInHand, \* does the payload of the event in hand decode?
  running     \* the subscription whose notification executes, if any

helperVars  == <<registry, nextId, mine, released>>
threadVars  == <<pc, held, pos, mark>>
objectVars  == <<accessor, torn>>
gatewayVars == <<gateway, wire>>
notifyVars  == <<due, goodInHand, running>>
vars == <<helperVars, threadVars, objectVars, gatewayVars, notifyVars>>

Thread == AppThread \union {Transport}

\* The interfaces this application subscribes on, the events it hears of, and
\* the entries of the registry.
Owner        == { s.owner : s \in Exercised }
Heard        == { s.event : s \in Exercised }
Subscription == [id : Nat, owner : Owner, event : Heard]

-----------------------------------------------------------------------------
(***************************************************************************)
(* The helper's registry.                                                  *)
(***************************************************************************)

\* A bug of Without: the whole list that holds the id goes with it.
WithoutItsOwner(id) ==
  { r \in registry : \A o \in registry : o.id = id => o.owner # r.owner }

\* IHelper::unsubscribe(id): the id alone decides.  Which interface forwards
\* the call does not matter, and an unknown id leaves the registry alone.
Without(id) == { r \in registry : r.id # id }

\* IHelper::unsubscribeAll(owner).  Every id issued so far is now released on
\* that interface.
WithoutOwner(i) == { r \in registry : r.owner # i }

ClearOwner(i) ==
  /\ registry' = WithoutOwner(i)
  /\ released' = [o \in Owner |-> IF o = i THEN nextId ELSE released[o]]

\* The ids an application can have in its hands: all that were issued, but for
\* those a subscribeOn...() has still to return.
Returned == (0 .. nextId - 1) \ { r.id : r \in UNION { held[t] : t \in Thread } }

-----------------------------------------------------------------------------
(***************************************************************************)
(* Calls of the client.  An application thread makes them as long as the   *)
(* accessor lives: threads that still use a function-local static when the *)
(* program destroys its statics are outside the model.  The transport      *)
(* thread makes them from inside the notification it is running, and       *)
(* nothing keeps it from doing so while the accessor is being destroyed or *)
(* after: Instance() has no guard.  A call on a destroyed member is        *)
(* undefined; here it acts as ever, or changes nothing (a stutter).        *)
(***************************************************************************)
MayCall(t) ==
  /\ pc[t] = "idle"
  /\ IF t = Transport THEN running # {} ELSE accessor = "live"

\* A bug of Subscribe: the SubscriptionManager was given no owner.
SubscribeUnowned(t, s) ==
  /\ MayCall(t)
  /\ nextId < MaxId
  /\ LET new == [id |-> nextId, owner |-> "none", event |-> s.event]
     IN  /\ registry' = registry \union {new}
         /\ held' = [held EXCEPT ![t] = {new}]
  /\ nextId' = nextId + 1
  /\ pc' = [pc EXCEPT ![t] = "registered"]
  /\ UNCHANGED <<mine, released, pos, mark, objectVars, gatewayVars, notifyVars>>

\* subscribeOnX(notification): the helper registers the notification under
\* this interface.  A call the helper refuses changes nothing.
Subscribe(t, s) ==
  /\ MayCall(t)
  /\ nextId < MaxId
  /\ LET new == [id |-> nextId, owner |-> s.owner, event |-> s.event]
     IN  /\ registry' = registry \union {new}
         /\ held' = [held EXCEPT ![t] = {new}]
  /\ nextId' = nextId + 1
  /\ pc' = [pc EXCEPT ![t] = "registered"]
  /\ UNCHANGED <<mine, released, pos, mark, objectVars, gatewayVars, notifyVars>>

\* ... and the id reaches the caller: the notification may already have run.
SubscribeReturn(t) ==
  /\ pc[t] = "registered"
  /\ mine' = mine \union held[t]
  /\ held' = [held EXCEPT ![t] = {}]
  /\ pc' = [pc EXCEPT ![t] = "idle"]
  /\ UNCHANGED <<registry, nextId, released, pos, mark, objectVars,
                 gatewayVars, notifyVars>>

\* unsubscribe(id) of any interface, with any id the application was given, be
\* it for the first time or again.
Unsubscribe(t, id) ==
  /\ MayCall(t)
  /\ id \in Returned
  /\ registry' = Without(id)
  /\ mine' = { r \in mine : r.id # id }
  /\ UNCHANGED <<nextId, released, threadVars, objectVars, gatewayVars, notifyVars>>

\* A bug of UnsubscribeAll: the owner is not looked at.
UnsubscribeAllOwners(t, i) ==
  /\ MayCall(t)
  /\ registry' = {}
  /\ released' = [o \in Owner |-> IF o = i THEN nextId ELSE released[o]]
  /\ UNCHANGED <<nextId, mine, threadVars, objectVars, gatewayVars, notifyVars>>

\* XInterface().unsubscribeAll().
UnsubscribeAll(t, i) ==
  /\ MayCall(t)
  /\ ClearOwner(i)
  /\ UNCHANGED <<nextId, mine, threadVars, objectVars, gatewayVars, notifyVars>>

\* Connect(config, listener) hands both to the gateway; the connection comes
\* up, or fails, later.  A gateway that is not down refuses, changing nothing.
Connect(t) ==
  /\ MayCall(t) /\ t # Transport
  /\ gateway = "down"
  /\ gateway' = "connecting"
  /\ UNCHANGED <<helperVars, threadVars, objectVars, wire, notifyVars>>

-----------------------------------------------------------------------------
(***************************************************************************)
(* FireboltAccessorImpl::unsubscribeAll(), shared by Disconnect() and by   *)
(* the destructor: one call of the helper for each interface, no lock held *)
(* between two of them.                                                    *)
(***************************************************************************)
StartSweep(t) ==
  /\ pc' = [pc EXCEPT ![t] = "sweeping"]
  /\ pos' = [pos EXCEPT ![t] = 1]
  /\ mark' = [mark EXCEPT ![t] = nextId]

LeaveSweep(t) ==
  /\ pc' = [pc EXCEPT ![t] = "idle"]
  /\ pos' = [pos EXCEPT ![t] = 1]
  /\ mark' = [mark EXCEPT ![t] = 0]

\* What was registered when a sweep began is to be released everywhere.
SweepReturns(t) ==
  /\ LeaveSweep(t)
  /\ released' = [o \in Owner |-> IF mark[t] > released[o] THEN mark[t] ELSE released[o]]

\* The application does not connect or disconnect from inside a notification:
\* what the gateway does when its own thread opens or closes it is not visible
\* from here.
Disconnect(t) ==
  /\ MayCall(t) /\ t # Transport
  /\ StartSweep(t)
  /\ UNCHANGED <<helperVars, held, objectVars, gatewayVars, notifyVars>>

\* A bug of SweepOne: it waits for a moment when no notification runs.
SweepOneWhenQuiet(t) ==
  /\ pc[t] = "sweeping" /\ running = {}
  /\ pos[t] <= Len(SweepOrder)
  /\ ClearOwner(SweepOrder[pos[t]])
  /\ pos' = [pos EXCEPT ![t] = @ + 1]
  /\ UNCHANGED <<nextId, mine, pc, held, mark, objectVars, gatewayVars, notifyVars>>

SweepOne(t) ==
  /\ pc[t] = "sweeping"
  /\ pos[t] <= Len(SweepOrder)
  /\ ClearOwner(SweepOrder[pos[t]])
  /\ pos' = [pos EXCEPT ![t] = @ + 1]
  /\ UNCHANGED <<nextId, mine, pc, held, mark, objectVars, gatewayVars, notifyVars>>

\* A bug of DisconnectReturn: the last interface is not waited for.
DisconnectReturnEarly(t) ==
  /\ pc[t] = "sweeping" /\ accessor = "live"
  /\ pos[t] >= Len(SweepOrder)
  /\ SweepReturns(t)
  /\ gateway' = "down"
  /\ wire' \in {wire, <<>>}
  /\ UNCHANGED <<registry, nextId, mine, held, objectVars, notifyVars>>

\* After the sweep Disconnect() closes the gateway and returns.  Events that
\* were received and not yet taken in hand may be lost with the connection.
DisconnectReturn(t) ==
  /\ pc[t] = "sweeping" /\ accessor = "live"
  /\ pos[t] > Len(SweepOrder)
  /\ SweepReturns(t)
  /\ gateway' = "down"
  /\ wire' \in {wire, <<>>}
  /\ UNCHANGED <<registry, nextId, mine, held, objectVars, notifyVars>>

\* ~FireboltAccessorImpl() of the function-local static: one thread leaves the
\* program, no other is inside the client but the transport's, which may be in
\* the middle of a notification and of a call made from it.
Destroy(t) ==
  /\ accessor = "live" /\ t # Transport
  /\ \A u \in AppThread : pc[u] = "idle"
  /\ accessor' = "dying"
  /\ StartSweep(t)
  /\ UNCHANGED <<helperVars, held, torn, gatewayVars, notifyVars>>

\* The destructor's body is done: the members go one after the other.  Whether
\* its SubscriptionManager takes an interface's entries with it is decided in
\* the library and not known here.
TearDownMember(t) ==
  /\ pc[t] = "sweeping" /\ accessor = "dying"
  /\ pos[t] > Len(SweepOrder)
  /\ torn < Len(TeardownOrder)
  /\ ClearOwner(TeardownOrder[torn + 1]) \/ UNCHANGED <<registry, released>>
  /\ torn' = torn + 1
  /\ UNCHANGED <<nextId, mine, threadVars, accessor, gatewayVars, notifyVars>>

DestroyReturn(t) ==
  /\ pc[t] = "sweeping" /\ accessor = "dying"
  /\ pos[t] > Len(SweepOrder)
  /\ torn = Len(TeardownOrder)
  /\ accessor' = "gone"
  /\ SweepReturns(t)
  /\ UNCHANGED <<registry, nextId, mine, held, torn, gatewayVars, notifyVars>>

-----------------------------------------------------------------------------
(***************************************************************************)
(* The gateway and the transport thread.                                   *)
(***************************************************************************)
LinkUp ==
  /\ gateway = "connecting"
  /\ gateway' = "up"
  /\ UNCHANGED <<helperVars, threadVars, objectVars, wire, notifyVars>>

\* The connection fails or is lost; the gateway may try again by itself.
LinkDown ==
  /\ gateway # "down"
  /\ gateway' \in {"down", "connecting"}
  /\ UNCHANGED <<helperVars, threadVars, objectVars, wire, notifyVars>>

\* An event arrives, with a payload the notification's JSON type decodes or
\* refuses.  The platform may send it whether or not a subscription is left.
Receive(e, good) ==
  /\ gateway = "up"
  /\ Len(wire) < MaxWire
  /\ wire' = Append(wire, [event |-> e, good |-> good])
  /\ UNCHANGED <<helperVars, threadVars, objectVars, gateway, notifyVars>>

\* The transport thread takes the oldest event in hand: the subscriptions it
\* finds now are the ones it will notify.
TakeInHand ==
  /\ wire # <<>> /\ due = {} /\ running = {}
  /\ due' = { r \in registry : r.event = Head(wire).event }
  /\ goodInHand' = Head(wire).good
  /\ wire' = Tail(wire)
  /\ UNCHANGED <<helperVars, threadVars, objectVars, gateway, running>>

\* The JSON type decodes the payload and the notification starts.  It may be
\* one that was unsubscribed since the event was taken in hand.
Notify(r) ==
  /\ r \in due /\ running = {}
  /\ goodInHand
  /\ due' = due \ {r}
  /\ running' = {r}
  /\ UNCHANGED <<helperVars, threadVars, objectVars, gatewayVars, goodInHand>>

\* The payload does not decode, so the notification is not called; or the
\* transport notices that the subscription is gone.
PassOver(r) ==
  /\ r \in due /\ running = {}
  /\ ~goodInHand \/ r \notin registry
  /\ due' = due \ {r}
  /\ UNCHANGED <<helperVars, threadVars, objectVars, gatewayVars, goodInHand, running>>

NotificationReturn ==
  /\ running # {}
  /\ pc[Transport] = "idle"
  /\ running' = {}
  /\ UNCHANGED <<helperVars, threadVars, objectVars, gatewayVars, due, goodInHand>>

-----------------------------------------------------------------------------
Init ==
  /\ registry = {} /\ nextId = 0 /\ mine = {}
  /\ released = [o \in Owner |-> 0]
  /\ pc   = [t \in Thread |-> "idle"]
  /\ held = [t \in Thread |-> {}]
  /\ pos  = [t \in Thread |-> 1]
  /\ mark = [t \in Thread |-> 0]
  /\ accessor = "live" /\ torn = 0
  /\ gateway = "down" /\ wire = <<>>
  /\ due = {} /\ goodInHand = TRUE /\ running = {}

Call(t) ==
  \/ \E s \in Exercised : Subscribe(t, s)
  \/ \E id \in Returned : Unsubscribe(t, id)
  \/ \E i \in Interface : UnsubscribeAll(t, i)
  \/ Connect(t)
  \/ Disconnect(t)
  \/ Destroy(t)

\* What a thread inside a call does next.
Continue(t) ==
  \/ SubscribeReturn(t)
  \/ SweepOne(t)
  \/ DisconnectReturn(t)
  \/ TearDownMember(t)
  \/ DestroyReturn(t)

\* What the transport thread does outside the application's code.
Dispatch ==
  \/ TakeInHand
  \/ \E r \in due : Notify(r) \/ PassOver(r)

Link == LinkUp \/ LinkDown \/ \E e \in Heard, good \in BOOLEAN : Receive(e, good)

Next ==
  \/ \E t \in Thread : Call(t) \/ Continue(t)
  \/ Dispatch
  \/ NotificationReturn
  \/ Link

Spec == Init /\ [][Next]_vars

\* A thread inside a call is scheduled, the transport thread keeps draining
\* the wire, and the application's notifications return.  Nothing obliges the
\* application to call, nor the platform to send.
Fairness ==
  /\ \A t \in Thread : WF_vars(Continue(t))
  /\ WF_vars(Dispatch)
  /\ WF_vars(NotificationReturn)

FairSpec == Spec /\ Fairness

-----------------------------------------------------------------------------
(***************************************************************************)
(* Properties.                                                             *)
(***************************************************************************)
TypeOK ==
  /\ registry \subseteq Subscription
  /\ nextId \in Nat
  /\ mine \subseteq Subscription
  /\ released \in [Owner -> Nat]
  /\ pc \in [Thread -> {"idle", "registered", "sweeping"}]
  /\ held \in [Thread -> SUBSET Subscription]
  /\ pos \in [Thread -> 1 .. Len(SweepOrder) + 1]
  /\ mark \in [Thread -> Nat]
  /\ accessor \in {"live", "dying", "gone"}
  /\ torn \in 0 .. Len(TeardownOrder)
  /\ gateway \in {"down", "connecting", "up"}
  /\ wire \in Seq([event : Heard, good : BOOLEAN])
  /\ due \subseteq Subscription
  /\ goodInHand \in BOOLEAN
  /\ running \subseteq Subscription

\* Once Disconnect(), or the destructor, has returned, no subscription made
\* before it began is left on any interface but Device, nor one made during the
\* sweep on an interface that it had still to pass, whatever the other threads
\* and the notifications did meanwhile; and none ever comes back.  What is made
\* behind the sweep, on an interface already passed, is KeptUnlessReleased's.
DisconnectReleases ==
  \A r \in registry : r.owner \in ReleasedByDisconnect => r.id >= released[r.owner]

\* A subscription the application holds and did not unsubscribe stays, unless
\* unsubscribeAll() of its own interface, alone or in a sweep, comes after it.
\* A subscribeOnX() behind the sweep of a Disconnect() survives that Disconnect
\* and any number of unsubscribes, sweeps of other lists and reconnects.
KeptUnlessReleased ==
  \A r \in mine : r.id >= released[r.owner] => r \in registry

\* An event taken in hand after Disconnect() returned is never given to a
\* subscription of the session before, Device's apart.
NoEventForTheReleased ==
  [][\A r \in due' \ due :
       r.owner \in ReleasedByDisconnect => r.id >= released[r.owner]]_vars

\* The interfaces together behave as the lists their headers describe, though
\* they share one registry, one id space and one transport thread, and though
\* one call of Disconnect() is many steps.
Lists ==
  INSTANCE SubscriberLists WITH
    Event  <- Heard,
    Id     <- 0 .. MaxId,
    lists  <- [i \in Interface |-> { r \in registry : r.owner = i }],
    issued <- 0 .. (nextId - 1)

ImplementsLists == Lists!Spec

\* Disconnect() and the destructor come to an end: the other threads, and the
\* notifications that run beside the sweep, cannot hold it up.
SweepsReturn == \A t \in Thread : pc[t] = "sweeping" ~> pc[t] = "idle"

\* The notifications of a session die down: from some point after Disconnect()
\* or unsubscribeAll() returned, none of the subscriptions it released is due
\* or running, Device's apart.
QuietAfterDisconnect ==
  \A n \in 0 .. MaxId - 1, o \in Owner \intersect ReleasedByDisconnect :
    released[o] > n ~> [](\A r \in due \union running : ~(r.id = n /\ r.owner = o))

\* What an application closing its session expects of Disconnect(): every
\* subscription it made before is gone.
DisconnectReleasesEverything == \A r \in registry : r.id >= released[r.owner]
=============================================================================
