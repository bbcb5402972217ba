------------------------ MODULE FireboltClient_proofs ------------------------
(***************************************************************************)
(* Theorems about FireboltClient, for any number of threads, subscriptions *)
(* and events in flight.                                                   *)
(***************************************************************************)
EXTENDS FireboltClient, SequenceTheorems, TLAPS

\* What a proof needs to know of the catalogue.
LEMMA SweepFacts ==
  /\ Len(SweepOrder) = 7
  /\ \A k \in 1 .. 7 : SweepOrder[k] \in Interface
  /\ \A i \in ReleasedByDisconnect : \E k \in 1 .. 7 : SweepOrder[k] = i
<1>1. Len(SweepOrder) = 7
  BY DEF SweepOrder
<1>2. /\ SweepOrder[1] = "Accessibility" /\ SweepOrder[2] = "Actions"
      /\ SweepOrder[3] = "Lifecycle"     /\ SweepOrder[4] = "Localization"
      /\ SweepOrder[5] = "Network"       /\ SweepOrder[6] = "Presentation"
      /\ SweepOrder[7] = "TextToSpeech"
  BY DEF SweepOrder
<1>3. \A k \in 1 .. 7 : k \in {1, 2, 3, 4, 5, 6, 7}
  OBVIOUS
<1>4. \A k \in 1 .. 7 : SweepOrder[k] \in Interface
  BY <1>2, <1>3 DEF Interface
<1>5. \A i \in ReleasedByDisconnect : \E k \in 1 .. 7 : SweepOrder[k] = i
  BY <1>2 DEF Interface, ReleasedByDisconnect
<1> QED
  BY <1>1, <1>4, <1>5

\* The members that are destroyed are eight interfaces.
LEMMA TeardownFacts ==
  /\ Len(TeardownOrder) = 8
  /\ \A k \in 1 .. 8 : TeardownOrder[k] \in Interface
<1>1. Len(TeardownOrder) = 8
  BY DEF TeardownOrder
<1>2. /\ TeardownOrder[1] = "TextToSpeech" /\ TeardownOrder[2] = "Presentation"
      /\ TeardownOrder[3] = "Network"      /\ TeardownOrder[4] = "Localization"
      /\ TeardownOrder[5] = "Lifecycle"    /\ TeardownOrder[6] = "Device"
      /\ TeardownOrder[7] = "Actions"      /\ TeardownOrder[8] = "Accessibility"
  BY DEF TeardownOrder
<1>3. \A k \in 1 .. 8 : k \in {1, 2, 3, 4, 5, 6, 7, 8}
  OBVIOUS
<1>4. \A k \in 1 .. 8 : TeardownOrder[k] \in Interface
  BY <1>2, <1>3 DEF Interface
<1> QED
  BY <1>1, <1>4

\* A subscribable event belongs to an interface.
LEMMA SubscribableFacts ==
  ASSUME NEW s \in Subscribable
  PROVE  s.owner \in Interface
<1>1. ASSUME NEW i \in Interface, NEW events, s \in Channels(i, events)
      PROVE  s.owner \in Interface
  BY <1>1 DEF Channels
<1>2. \/ s \in Channels("Accessibility", AccessibilityEvents)
      \/ s \in Channels("Actions", ActionsEvents)
      \/ s \in Channels("Device", DeviceEvents)
      \/ s \in Channels("Lifecycle", LifecycleEvents)
      \/ s \in Channels("Localization", LocalizationEvents)
      \/ s \in Channels("Network", NetworkEvents)
      \/ s \in Channels("Presentation", PresentationEvents)
      \/ s \in Channels("TextToSpeech", TextToSpeechEvents)
  BY Zenon DEF Subscribable
<1>3. /\ "Accessibility" \in Interface /\ "Actions" \in Interface
      /\ "Device" \in Interface /\ "Lifecycle" \in Interface
      /\ "Localization" \in Interface /\ "Network" \in Interface
      /\ "Presentation" \in Interface /\ "TextToSpeech" \in Interface
  BY DEF Interface
<1> QED
  BY <1>1, <1>2, <1>3

\* The interfaces subscribed on are interfaces.
LEMMA OwnerFacts == /\ Owner \subseteq Interface
                    /\ \A s \in Exercised : s.owner \in Owner /\ s.event \in Heard
BY SubscribableFacts, ExercisedAssumption DEF Owner, Heard

-----------------------------------------------------------------------------
(***************************************************************************)
(* Type correctness.                                                       *)
(***************************************************************************)

\* Every variable keeps its type.
THEOREM TypeCorrect == Spec => []TypeOK
<1>1. Init => TypeOK
  BY TeardownFacts, SweepFacts DEF Init, TypeOK
<1>2. TypeOK /\ [Next]_vars => TypeOK'
  <2> SUFFICES ASSUME TypeOK, [Next]_vars
               PROVE  TypeOK'
    OBVIOUS
  <2> USE SweepFacts, TeardownFacts DEF TypeOK, Subscription
  <2>1. ASSUME NEW t \in Thread, NEW s \in Exercised, Subscribe(t, s)
        PROVE  TypeOK'
    <3> DEFINE new == [id |-> nextId, owner |-> s.owner, event |-> s.event]
    <3>1. /\ registry' = registry \union {new} /\ held' = [held EXCEPT ![t] = {new}]
          /\ nextId' = nextId + 1 /\ pc' = [pc EXCEPT ![t] = "registered"]
          /\ UNCHANGED <<mine, released, pos, mark, objectVars, gatewayVars, notifyVars>>
      BY <2>1 DEF Subscribe
    <3>2. new \in Subscription
      BY OwnerFacts
    <3> HIDE DEF new
    <3>3. registry' \subseteq Subscription /\ held' \in [Thread -> SUBSET Subscription]
      BY <3>1, <3>2
    <3>4. nextId' \in Nat /\ pc' \in [Thread -> {"idle", "registered", "sweeping"}]
      BY <3>1
    <3> QED
      BY <3>1, <3>3, <3>4 DEF objectVars, gatewayVars, notifyVars
  <2>2. ASSUME NEW t \in Thread, NEW id \in Returned, Unsubscribe(t, id)
        PROVE  TypeOK'
    BY <2>2 DEF Unsubscribe, Without, threadVars, objectVars, gatewayVars, notifyVars
  <2>3. ASSUME NEW t \in Thread, NEW i \in Interface, UnsubscribeAll(t, i)
        PROVE  TypeOK'
    BY <2>3 DEF UnsubscribeAll, ClearOwner, WithoutOwner, threadVars, objectVars,
       gatewayVars, notifyVars
  <2>4. ASSUME NEW t \in Thread, Connect(t)
        PROVE  TypeOK'
    BY <2>4 DEF Connect, helperVars, threadVars, objectVars, notifyVars
  <2>5. ASSUME NEW t \in Thread, Disconnect(t)
        PROVE  TypeOK'
    BY <2>5 DEF Disconnect, StartSweep, helperVars, objectVars, gatewayVars, notifyVars
  <2>6. ASSUME NEW t \in Thread, Destroy(t)
        PROVE  TypeOK'
    BY <2>6 DEF Destroy, StartSweep, helperVars, gatewayVars, notifyVars
  <2>7. ASSUME NEW t \in Thread, SubscribeReturn(t)
        PROVE  TypeOK'
    <3>1. held[t] \subseteq Subscription /\ mine' = mine \union held[t]
      BY <2>7, Zenon DEF SubscribeReturn
    <3>2. mine' \subseteq Subscription
      BY <3>1
    <3>3. held' \in [Thread -> SUBSET Subscription]
      BY <2>7, Zenon DEF SubscribeReturn
    <3> QED
      BY <2>7, <3>2, <3>3 DEF SubscribeReturn, objectVars, gatewayVars, notifyVars
  <2>8. ASSUME NEW t \in Thread, SweepOne(t)
        PROVE  TypeOK'
    <3>1. registry' \subseteq Subscription /\ released' \in [Owner -> Nat]
      BY <2>8 DEF SweepOne, ClearOwner, WithoutOwner
    <3>2. pos' \in [Thread -> 1 .. Len(SweepOrder) + 1]
      <4>1. pos[t] + 1 \in 1 .. Len(SweepOrder) + 1
        BY <2>8 DEF SweepOne
      <4> QED
        BY <2>8, <4>1, Zenon DEF SweepOne
    <3> QED
      BY <2>8, <3>1, <3>2 DEF SweepOne, objectVars, gatewayVars, notifyVars
  <2>9. ASSUME NEW t \in Thread, SweepReturns(t)
        PROVE  /\ released' \in [Owner -> Nat]
               /\ pc' \in [Thread -> {"idle", "registered", "sweeping"}]
               /\ pos' \in [Thread -> 1 .. Len(SweepOrder) + 1]
               /\ mark' \in [Thread -> Nat]
    <3>1. mark[t] \in Nat /\ \A o \in Owner : released[o] \in Nat
      OBVIOUS
    <3>2. released' \in [Owner -> Nat]
      BY <2>9, <3>1 DEF SweepReturns
    <3> QED
      BY <2>9, <3>2 DEF SweepReturns, LeaveSweep
  <2>10. ASSUME NEW t \in Thread, DisconnectReturn(t)
         PROVE  TypeOK'
    <3>1. wire' \in Seq([event : Heard, good : BOOLEAN])
      BY <2>10, EmptySeq, Zenon DEF DisconnectReturn
    <3>2. gateway' = "down" /\ SweepReturns(t)
      BY <2>10 DEF DisconnectReturn
    <3> QED
      BY <2>9, <2>10, <3>1, <3>2 DEF DisconnectReturn, objectVars, notifyVars
  <2>11. ASSUME NEW t \in Thread, TearDownMember(t) \/ DestroyReturn(t)
         PROVE  TypeOK'
    <3>1. CASE TearDownMember(t)
      <4>1. registry' \subseteq registry /\ released' \in [Owner -> Nat]
        BY <3>1 DEF TearDownMember, ClearOwner, WithoutOwner
      <4>2. torn' \in 0 .. Len(TeardownOrder)
        BY <3>1 DEF TearDownMember
      <4> QED
        BY <3>1, <4>1, <4>2 DEF TearDownMember, threadVars, gatewayVars, notifyVars
    <3>2. CASE DestroyReturn(t)
      BY <2>9, <3>2 DEF DestroyReturn, gatewayVars, notifyVars
    <3> QED
      BY <2>11, <3>1, <3>2
  <2>12. CASE TakeInHand
    <3>1. wire # <<>> /\ wire \in Seq([event : Heard, good : BOOLEAN])
      BY <2>12 DEF TakeInHand
    <3>2. /\ Head(wire) \in [event : Heard, good : BOOLEAN]
          /\ Tail(wire) \in Seq([event : Heard, good : BOOLEAN])
      BY <3>1, HeadTailProperties
    <3>3. goodInHand' \in BOOLEAN
      BY <2>12, <3>2 DEF TakeInHand
    <3>4. due' \subseteq Subscription
      BY <2>12 DEF TakeInHand
    <3>5. wire' \in Seq([event : Heard, good : BOOLEAN])
      BY <2>12, <3>2 DEF TakeInHand
    <3> QED
      BY <2>12, <3>3, <3>4, <3>5 DEF TakeInHand, helperVars, threadVars, objectVars
  <2>13. ASSUME NEW r \in due, Notify(r) \/ PassOver(r)
         PROVE  TypeOK'
    BY <2>13 DEF Notify, PassOver, helperVars, threadVars, objectVars, gatewayVars
  <2>14. CASE NotificationReturn
    BY <2>14 DEF NotificationReturn, helperVars, threadVars, objectVars, gatewayVars
  <2>15. CASE LinkUp \/ LinkDown
    BY <2>15 DEF LinkUp, LinkDown, helperVars, threadVars, objectVars, notifyVars
  <2>16. ASSUME NEW e \in Heard, NEW good \in BOOLEAN, Receive(e, good)
         PROVE  TypeOK'
    BY <2>16
       DEF Receive, helperVars, threadVars, objectVars, notifyVars
  <2>17. CASE UNCHANGED vars
    BY <2>17 DEF vars, helperVars, threadVars, objectVars, gatewayVars, notifyVars
  <2> QED
    BY <2>1, <2>2, <2>3, <2>4, <2>5, <2>6, <2>7, <2>8, <2>9, <2>10, <2>11,
       <2>12, <2>13, <2>14, <2>15, <2>16, <2>17
       DEF Next, Call, Continue, Dispatch, Link
<1> QED
  BY <1>1, <1>2, PTL DEF Spec

-----------------------------------------------------------------------------
(***************************************************************************)
(* The inductive invariant.  DisconnectReleases is not inductive: when a   *)
(* sweep returns it must already be known that the ids below its mark were *)
(* released on every interface it passed (SweptBehind).  A subscription    *)
(* made behind the sweep does not undo that, for a new id lies above every *)
(* mark (IdsAndMarks).  KeptUnlessReleased needs the same of the           *)
(* subscriptions whose ids have still to be returned (HeldKept): nobody    *)
(* can unsubscribe those.                                                  *)
(***************************************************************************)
IdsAndMarks ==
  /\ \A r \in registry \union mine : r.id < nextId
  /\ \A t \in Thread : mark[t] <= nextId /\ \A r \in held[t] : r.id < nextId
  /\ \A o \in Owner : released[o] <= nextId

SweptBehind ==
  \A t \in Thread : pc[t] = "sweeping" =>
    \A k \in 1 .. Len(SweepOrder) :
      (k < pos[t] /\ SweepOrder[k] \in Owner) => released[SweepOrder[k]] >= mark[t]

HeldKept ==
  \A t \in Thread : \A r \in held[t] : r.id >= released[r.owner] => r \in registry

IInv == IdsAndMarks /\ SweptBehind /\ HeldKept /\ DisconnectReleases /\ KeptUnlessReleased

\* The types that the proofs below use.
LEMMA IInvTypes ==
  ASSUME TypeOK
  PROVE  /\ nextId \in Nat /\ released \in [Owner -> Nat] /\ mark \in [Thread -> Nat]
         /\ pos \in [Thread -> 1 .. 8] /\ Len(SweepOrder) = 7
         /\ pc \in [Thread -> {"idle", "registered", "sweeping"}]
         /\ held \in [Thread -> SUBSET Subscription]
         /\ \A r \in registry \union mine : r.id \in Nat /\ r.owner \in Owner
         /\ \A t \in Thread : \A r \in held[t] : r.id \in Nat /\ r.owner \in Owner
<1>1. Len(SweepOrder) = 7
  BY SweepFacts
<1>2. \A r \in registry \union mine : r.id \in Nat /\ r.owner \in Owner
  BY DEF TypeOK, Subscription
<1>3. \A t \in Thread : \A r \in held[t] : r.id \in Nat /\ r.owner \in Owner
  BY DEF TypeOK, Subscription
<1> QED
  BY <1>1, <1>2, <1>3 DEF TypeOK

\* The steps that leave alone what IInv speaks of.
LEMMA IInvUntouched ==
  ASSUME IInv, UNCHANGED <<helperVars, pc, held, pos, mark>>
  PROVE  IInv'
BY DEF IInv, IdsAndMarks, SweptBehind, HeldKept, DisconnectReleases, KeptUnlessReleased,
   helperVars

\* A subscription made during a sweep is younger than the sweep.
LEMMA IInvSubscribe ==
  ASSUME TypeOK, IInv, NEW t \in Thread, NEW s \in Exercised, Subscribe(t, s)
  PROVE  IInv'
<1> DEFINE new == [id |-> nextId, owner |-> s.owner, event |-> s.event]
<1>1. /\ registry' = registry \union {new} /\ nextId' = nextId + 1
      /\ new.id = nextId /\ new.owner \in Owner /\ pc[t] = "idle"
      /\ pc' = [pc EXCEPT ![t] = "registered"] /\ held' = [held EXCEPT ![t] = {new}]
      /\ UNCHANGED <<mine, released, pos, mark>>
  BY OwnerFacts DEF Subscribe, MayCall
<1> HIDE DEF new
<1>2. \A u \in Thread : held'[u] \subseteq held[u] \union {new}
  BY <1>1, IInvTypes
<1>3. IdsAndMarks'
  BY <1>1, <1>2, IInvTypes DEF IInv, IdsAndMarks
<1>4. SweptBehind'
  BY <1>1, IInvTypes DEF IInv, SweptBehind
<1>5. HeldKept'
  BY <1>1, <1>2 DEF IInv, HeldKept
<1>6. released[new.owner] <= new.id
  BY <1>1 DEF IInv, IdsAndMarks
<1>7. DisconnectReleases' /\ KeptUnlessReleased'
  BY <1>1, <1>6, IInvTypes DEF IInv, DisconnectReleases, KeptUnlessReleased
<1> QED
  BY <1>3, <1>4, <1>5, <1>7 DEF IInv

\* The id that reaches the caller is that of a subscription not released yet,
\* or released while the call was about to return.
LEMMA IInvSubscribeReturn ==
  ASSUME TypeOK, IInv, NEW t \in Thread, SubscribeReturn(t)
  PROVE  IInv'
<1>1. /\ pc[t] = "registered" /\ pc' = [pc EXCEPT ![t] = "idle"]
      /\ mine' = mine \union held[t] /\ held' = [held EXCEPT ![t] = {}]
      /\ UNCHANGED <<registry, nextId, released, pos, mark>>
  BY DEF SubscribeReturn
<1>2. \A u \in Thread : held'[u] \subseteq held[u]
  BY <1>1, IInvTypes
<1>3. IdsAndMarks'
  BY <1>1, <1>2 DEF IInv, IdsAndMarks
<1>4. SweptBehind'
  BY <1>1, IInvTypes DEF IInv, SweptBehind
<1>5. HeldKept' /\ KeptUnlessReleased'
  BY <1>1, <1>2 DEF IInv, HeldKept, KeptUnlessReleased
<1>6. DisconnectReleases'
  BY <1>1 DEF IInv, DisconnectReleases
<1> QED
  BY <1>3, <1>4, <1>5, <1>6 DEF IInv

\* unsubscribe(id) takes away what the application gives up, and nothing that
\* is about to be returned.
LEMMA IInvUnsubscribe ==
  ASSUME TypeOK, IInv, NEW t \in Thread, NEW id \in Returned, Unsubscribe(t, id)
  PROVE  IInv'
<1>1. /\ registry' = { r \in registry : r.id # id } /\ mine' = { r \in mine : r.id # id }
      /\ UNCHANGED <<nextId, released, pc, held, pos, mark>>
  BY DEF Unsubscribe, Without, threadVars
<1>2. \A u \in Thread : \A r \in held[u] : r.id # id
  BY DEF Returned
<1>3. HeldKept'
  BY <1>1, <1>2 DEF IInv, HeldKept
<1>4. KeptUnlessReleased'
  BY <1>1 DEF IInv, KeptUnlessReleased
<1>5. IdsAndMarks' /\ SweptBehind' /\ DisconnectReleases'
  BY <1>1 DEF IInv, IdsAndMarks, SweptBehind, DisconnectReleases
<1> QED
  BY <1>3, <1>4, <1>5 DEF IInv

\* Clearing an interface releases every id issued so far, on that interface.
LEMMA ClearOwnerReleases ==
  ASSUME TypeOK, IInv, NEW i, ClearOwner(i), UNCHANGED <<nextId, mine, held, mark>>
  PROVE  /\ IdsAndMarks' /\ HeldKept' /\ DisconnectReleases' /\ KeptUnlessReleased'
         /\ \A o \in Owner : /\ released'[o] = IF o = i THEN nextId ELSE released[o]
                             /\ released[o] <= released'[o]
<1>1. /\ registry' = { r \in registry : r.owner # i }
      /\ \A o \in Owner : released'[o] = IF o = i THEN nextId ELSE released[o]
  BY DEF ClearOwner, WithoutOwner
<1>2. \A o \in Owner : released[o] <= released'[o]
  BY <1>1, IInvTypes DEF IInv, IdsAndMarks
<1>3. IdsAndMarks'
  BY <1>1, IInvTypes DEF IInv, IdsAndMarks
<1>4. ASSUME NEW r, r.owner \in Owner, r.id \in Nat, r.id < nextId,
             r.id >= released[r.owner] => r \in registry, r.id >= released'[r.owner]
      PROVE  r \in registry'
  <2>1. r.owner # i /\ released'[r.owner] = released[r.owner]
    BY <1>1, <1>4, IInvTypes
  <2> QED
    BY <1>1, <1>4, <2>1
<1>5. HeldKept'
  BY <1>4, IInvTypes DEF IInv, IdsAndMarks, HeldKept
<1>6. KeptUnlessReleased'
  BY <1>4, IInvTypes DEF IInv, IdsAndMarks, KeptUnlessReleased
<1>7. DisconnectReleases'
  BY <1>1, IInvTypes DEF IInv, DisconnectReleases
<1> QED
  BY <1>1, <1>2, <1>3, <1>5, <1>6, <1>7

\* unsubscribeAll() of one interface, and a member's destruction that takes the
\* entries along, keep the invariant.
LEMMA IInvClearOwner ==
  ASSUME TypeOK, IInv, NEW i, ClearOwner(i), UNCHANGED <<nextId, mine, threadVars>>
  PROVE  IInv'
<1>1. UNCHANGED <<nextId, mine, pc, held, pos, mark>>
  BY DEF threadVars
<1>2. /\ IdsAndMarks' /\ HeldKept' /\ DisconnectReleases' /\ KeptUnlessReleased'
      /\ \A o \in Owner : released[o] <= released'[o] /\ released'[o] \in Nat
  BY <1>1, ClearOwnerReleases, IInvTypes
<1>3. SweptBehind'
  BY <1>1, <1>2, IInvTypes DEF IInv, SweptBehind
<1> QED
  BY <1>2, <1>3 DEF IInv

\* A sweep begins having passed no interface.
LEMMA IInvStartSweep ==
  ASSUME TypeOK, IInv, NEW t \in Thread, StartSweep(t), UNCHANGED <<helperVars, held>>
  PROVE  IInv'
<1>1. /\ pc' = [pc EXCEPT ![t] = "sweeping"] /\ pos' = [pos EXCEPT ![t] = 1]
      /\ mark' = [mark EXCEPT ![t] = nextId]
      /\ UNCHANGED <<registry, nextId, mine, released, held>>
  BY DEF StartSweep, helperVars
<1>2. IdsAndMarks'
  BY <1>1, IInvTypes DEF IInv, IdsAndMarks
<1>3. SweptBehind'
  BY <1>1, IInvTypes DEF IInv, SweptBehind
<1>4. HeldKept' /\ DisconnectReleases' /\ KeptUnlessReleased'
  BY <1>1 DEF IInv, HeldKept, DisconnectReleases, KeptUnlessReleased
<1> QED
  BY <1>2, <1>3, <1>4 DEF IInv

\* Passing an interface releases what is below the mark on it.
LEMMA IInvSweepOne ==
  ASSUME TypeOK, IInv, NEW t \in Thread, SweepOne(t)
  PROVE  IInv'
<1>1. /\ ClearOwner(SweepOrder[pos[t]]) /\ pos' = [pos EXCEPT ![t] = pos[t] + 1]
      /\ UNCHANGED <<nextId, mine, pc, held, mark>>
  BY DEF SweepOne
<1>2. /\ IdsAndMarks' /\ HeldKept' /\ DisconnectReleases' /\ KeptUnlessReleased'
      /\ \A o \in Owner :
           /\ released'[o] = IF o = SweepOrder[pos[t]] THEN nextId ELSE released[o]
           /\ released[o] <= released'[o] /\ released'[o] \in Nat
  BY <1>1, ClearOwnerReleases, IInvTypes
<1>3. SweptBehind'
  <2> SUFFICES ASSUME NEW u \in Thread, pc[u] = "sweeping",
                      NEW k \in 1 .. Len(SweepOrder),
                      k < pos'[u], SweepOrder[k] \in Owner
               PROVE  released'[SweepOrder[k]] >= mark[u]
    BY <1>1 DEF SweptBehind
  <2>1. k < pos[u] \/ (u = t /\ k = pos[t])
    BY <1>1, IInvTypes
  <2>2. CASE k < pos[u]
    BY <1>2, <2>2, IInvTypes DEF IInv, SweptBehind
  <2>3. CASE u = t /\ k = pos[t]
    BY <1>2, <2>3, IInvTypes DEF IInv, IdsAndMarks
  <2> QED
    BY <2>1, <2>2, <2>3
<1> QED
  BY <1>2, <1>3 DEF IInv

\* When a sweep returns it has passed every interface but Device, so that what
\* it releases now was released there already.
LEMMA IInvSweepReturns ==
  ASSUME TypeOK, IInv, NEW t \in Thread, pc[t] = "sweeping", pos[t] > Len(SweepOrder),
         SweepReturns(t), UNCHANGED <<registry, nextId, mine, held>>
  PROVE  IInv'
<1>1. /\ pc' = [pc EXCEPT ![t] = "idle"] /\ pos' = [pos EXCEPT ![t] = 1]
      /\ mark' = [mark EXCEPT ![t] = 0]
      /\ \A o \in Owner :
           released'[o] = IF mark[t] > released[o] THEN mark[t] ELSE released[o]
  BY DEF SweepReturns, LeaveSweep
<1>2. mark[t] \in Nat /\ \A o \in Owner : released[o] \in Nat
  BY IInvTypes
<1>3. \A o \in Owner : released[o] <= released'[o] /\ released'[o] \in Nat
  BY <1>1, <1>2
<1>4. \A o \in Owner \intersect ReleasedByDisconnect : released'[o] = released[o]
  <2> SUFFICES ASSUME NEW o \in Owner, o \in ReleasedByDisconnect
               PROVE  released'[o] = released[o]
    OBVIOUS
  <2>1. PICK k \in 1 .. 7 : SweepOrder[k] = o
    BY SweepFacts
  <2>2. k \in 1 .. Len(SweepOrder) /\ k < pos[t]
    <3>1. Len(SweepOrder) = 7 /\ pos[t] \in 1 .. 8
      BY IInvTypes
    <3> QED
      BY <3>1, <2>1
  <2>3. released[o] >= mark[t]
    BY <2>1, <2>2 DEF IInv, SweptBehind
  <2> QED
    BY <1>1, <1>2, <2>3
<1>5. IdsAndMarks'
  BY <1>1, <1>2, IInvTypes DEF IInv, IdsAndMarks
<1>6. SweptBehind'
  BY <1>1, <1>3, IInvTypes DEF IInv, SweptBehind
<1>7. DisconnectReleases'
  BY <1>4, IInvTypes DEF IInv, DisconnectReleases
<1>8. HeldKept'
  BY <1>3, IInvTypes DEF IInv, HeldKept
<1>9. KeptUnlessReleased'
  BY <1>3, IInvTypes DEF IInv, KeptUnlessReleased
<1> QED
  BY <1>5, <1>6, <1>7, <1>8, <1>9 DEF IInv

\* Every step keeps the invariant.
LEMMA IInvStep == TypeOK /\ IInv /\ [Next]_vars => IInv'
<1> SUFFICES ASSUME TypeOK, IInv, [Next]_vars
             PROVE  IInv'
  OBVIOUS
<1>1. ASSUME NEW t \in Thread, NEW i \in Interface, UnsubscribeAll(t, i)
      PROVE  IInv'
  BY <1>1, IInvClearOwner DEF UnsubscribeAll
<1>2. ASSUME NEW t \in Thread, Connect(t)
      PROVE  IInv'
  BY <1>2, IInvUntouched DEF Connect, threadVars
<1>3. ASSUME NEW t \in Thread, Disconnect(t) \/ Destroy(t)
      PROVE  IInv'
  BY <1>3, IInvStartSweep DEF Disconnect, Destroy
<1>4. ASSUME NEW t \in Thread, Call(t)
      PROVE  IInv'
  BY <1>1, <1>2, <1>3, <1>4, IInvSubscribe, IInvUnsubscribe DEF Call
<1>5. ASSUME NEW t \in Thread, DisconnectReturn(t) \/ DestroyReturn(t)
      PROVE  IInv'
  BY <1>5, IInvSweepReturns DEF DisconnectReturn, DestroyReturn
<1>6. ASSUME NEW t \in Thread, TearDownMember(t)
      PROVE  IInv'
  <2>1. CASE ClearOwner(TeardownOrder[torn + 1])
    BY <1>6, <2>1, IInvClearOwner DEF TearDownMember
  <2>2. CASE UNCHANGED <<registry, released>>
    BY <1>6, <2>2, IInvUntouched DEF TearDownMember, helperVars, threadVars
  <2> QED
    BY <1>6, <2>1, <2>2 DEF TearDownMember
<1>7. ASSUME NEW t \in Thread, Continue(t)
      PROVE  IInv'
  BY <1>5, <1>6, <1>7, IInvSubscribeReturn, IInvSweepOne DEF Continue
<1>8. CASE Dispatch \/ NotificationReturn
  BY <1>8, IInvUntouched
     DEF Dispatch, TakeInHand, Notify, PassOver, NotificationReturn, threadVars
<1>9. CASE Link
  BY <1>9, IInvUntouched DEF Link, LinkUp, LinkDown, Receive, threadVars
<1>10. CASE UNCHANGED vars
  BY <1>10, IInvUntouched DEF vars, threadVars
<1> QED
  BY <1>4, <1>7, <1>8, <1>9, <1>10 DEF Next

\* The invariant holds at first.
LEMMA IInvInit == Init => IInv
BY SweepFacts DEF Init, IInv, IdsAndMarks, SweptBehind, HeldKept, DisconnectReleases,
   KeptUnlessReleased

\* The invariant holds in every state.
LEMMA IInvCorrect == Spec => []IInv
BY TypeCorrect, IInvInit, IInvStep, PTL DEF Spec

\* Disconnect() releases every earlier subscription of the swept interfaces,
\* however many threads subscribe, unsubscribe and disconnect meanwhile.
THEOREM DisconnectReleasesAlways == Spec => []DisconnectReleases
<1>1. IInv => DisconnectReleases
  BY DEF IInv
<1> QED
  BY <1>1, IInvCorrect, PTL

\* A subscription the application holds stays until it is unsubscribed or its
\* own interface is cleared after it, one made behind a sweep too.
THEOREM KeptUnlessReleasedAlways == Spec => []KeptUnlessReleased
<1>1. IInv => KeptUnlessReleased
  BY DEF IInv
<1> QED
  BY <1>1, IInvCorrect, PTL

\* Only TakeInHand adds to what is due, and it adds entries of the registry.
THEOREM NoEventForTheReleasedAlways == Spec => NoEventForTheReleased
<1> DEFINE Good == \A r \in due' \ due :
                     r.owner \in ReleasedByDisconnect => r.id >= released[r.owner]
<1>1. IInv /\ [Next]_vars => [Good]_vars
  <2> SUFFICES ASSUME IInv, [Next]_vars, NEW r \in due' \ due,
                      r.owner \in ReleasedByDisconnect
               PROVE  r.id >= released[r.owner]
    OBVIOUS
  <2>1. r \in registry
    <3>1. CASE TakeInHand
      BY <3>1 DEF TakeInHand
    <3>2. CASE ~TakeInHand
      <4>1. due' \subseteq due
        BY <3>2 DEF Next, Call, Continue, Dispatch, Link, Subscribe, Unsubscribe,
           UnsubscribeAll, Connect, Disconnect, Destroy, SubscribeReturn, SweepOne,
           DisconnectReturn, TearDownMember, DestroyReturn, Notify, PassOver,
           NotificationReturn, LinkUp, LinkDown, Receive, notifyVars, vars
      <4> QED
        BY <4>1
    <3> QED
      BY <3>1, <3>2
  <2> QED
    BY <2>1 DEF IInv, DisconnectReleases
<1> QED
  BY <1>1, IInvCorrect, PTL DEF Spec, NoEventForTheReleased

-----------------------------------------------------------------------------
(***************************************************************************)
(* The refinement.  A step of the client is a step of the lists or leaves  *)
(* them alone; one Disconnect() is seven Clear steps and many stutters.    *)
(* An identifier the application can have was issued, and MaxId bounds     *)
(* those, so an unsubscribe is always a Remove of an identifier of the     *)
(* abstract machine.                                                       *)
(***************************************************************************)
NextIdBounded == nextId \in 0 .. MaxId

\* No more ids are issued than the bound allows.
LEMMA NextIdBoundedCorrect == Spec => []NextIdBounded
<1>1. Init => NextIdBounded
  BY BoundAssumption DEF Init, NextIdBounded
<1>2. NextIdBounded /\ [Next]_vars => NextIdBounded'
  <2> SUFFICES ASSUME NextIdBounded, [Next]_vars
               PROVE  NextIdBounded'
    OBVIOUS
  <2>1. ASSUME NEW t \in Thread, NEW s \in Exercised, Subscribe(t, s)
        PROVE  NextIdBounded'
    BY <2>1, BoundAssumption DEF Subscribe, NextIdBounded
  <2>2. CASE UNCHANGED nextId
    BY <2>2 DEF NextIdBounded
  <2> QED
    BY <2>1, <2>2 DEF Next, Call, Continue, Dispatch, Link, Unsubscribe, UnsubscribeAll,
       Connect, Disconnect, Destroy, SubscribeReturn, SweepOne, DisconnectReturn,
       TearDownMember, DestroyReturn, TakeInHand, Notify, PassOver, NotificationReturn,
       LinkUp, LinkDown, Receive, helperVars, vars
<1> QED
  BY <1>1, <1>2, PTL DEF Spec

ListsOf == [i \in Interface |-> { r \in registry : r.owner = i }]

\* Together the lists are the registry.
LEMMA ListedIsRegistry ==
  ASSUME TypeOK
  PROVE  UNION { ListsOf[i] : i \in Interface } = registry
<1>1. \A r \in registry : r.owner \in Interface /\ r \in ListsOf[r.owner]
  BY OwnerFacts DEF TypeOK, Subscription, ListsOf
<1>2. \A i \in Interface : ListsOf[i] \subseteq registry
  BY DEF ListsOf
<1> QED
  BY <1>1, <1>2

\* An empty registry is eight empty lists.
LEMMA ListsInit == Init => Lists!Init
<1> SUFFICES ASSUME Init PROVE Lists!Init
  OBVIOUS
<1>1. registry = {} /\ nextId = 0 /\ due = {} /\ running = {}
  BY DEF Init
<1>2. 0 .. (nextId - 1) = {}
  BY <1>1
<1>3. [i \in Interface |-> { r \in registry : r.owner = i }] = [i \in Interface |-> {}]
  BY <1>1
<1> QED
  BY <1>1, <1>2, <1>3 DEF Lists!Init

\* subscribeOnX is an Add of the next identifier.
LEMMA ListsSubscribe ==
  ASSUME TypeOK, NEW t \in Thread, NEW s \in Exercised, Subscribe(t, s)
  PROVE  \E i \in Interface, e \in Heard, id \in 0 .. MaxId : Lists!Add(i, e, id)
<1>1. s.owner \in Interface /\ s.event \in Heard /\ nextId \in Nat /\ MaxId \in Nat
  BY SubscribableFacts, ExercisedAssumption, BoundAssumption DEF Heard, TypeOK
<1>2. PICK id \in 0 .. MaxId : id = nextId
  BY <1>1 DEF Subscribe
<1> DEFINE new == [id |-> id, owner |-> s.owner, event |-> s.event]
<1>3. /\ registry' = registry \union {new} /\ nextId' = id + 1
      /\ UNCHANGED <<due, running>>
  BY <1>2 DEF Subscribe, notifyVars
<1>4. /\ id \notin 0 .. (nextId - 1)
      /\ 0 .. (nextId' - 1) = (0 .. (nextId - 1)) \union {id}
  BY <1>1, <1>2, <1>3
<1>5. ListsOf' = [ListsOf EXCEPT ![s.owner] = @ \union {new}]
  <2>1. new.owner = s.owner
    OBVIOUS
  <2> HIDE DEF new
  <2>2. ASSUME NEW i \in Interface
        PROVE  { r \in registry' : r.owner = i } =
                 IF i = s.owner THEN { r \in registry : r.owner = i } \union {new}
                                ELSE { r \in registry : r.owner = i }
    BY <1>3, <2>1
  <2> QED
    BY <1>1, <2>2 DEF ListsOf
<1>6. Lists!Add(s.owner, s.event, id)
  BY <1>3, <1>4, <1>5 DEF Lists!Add, ListsOf
<1> QED
  BY <1>1, <1>6

\* Any call that removes one owner's entries is a Clear.
LEMMA ListsClear ==
  ASSUME NEW o \in Interface, registry' = WithoutOwner(o), UNCHANGED <<nextId, due, running>>
  PROVE  Lists!Clear(o)
<1>1. ListsOf' = [ListsOf EXCEPT ![o] = {}]
  BY DEF ListsOf, WithoutOwner
<1> QED
  BY <1>1 DEF Lists!Clear, ListsOf

\* unsubscribe(id) takes the id from whichever list has it.
LEMMA ListsRemove ==
  ASSUME NEW n, registry' = Without(n), UNCHANGED <<nextId, due, running>>
  PROVE  Lists!Remove(n)
<1>1. ListsOf' = [i \in Interface |-> { r \in ListsOf[i] : r.id # n }]
  BY DEF ListsOf, Without
<1> QED
  BY <1>1 DEF Lists!Remove, ListsOf

\* Taking an event in hand picks the subscribers of the lists.
LEMMA ListsTakeInHand ==
  ASSUME TypeOK, TakeInHand
  PROVE  \E e \in Heard : Lists!TakeInHand(e)
<1>1. Head(wire) \in [event : Heard, good : BOOLEAN]
  BY HeadTailProperties DEF TypeOK, TakeInHand
<1>2. Head(wire).event \in Heard
  BY <1>1
<1>3. Lists!Listed = registry
  BY ListedIsRegistry DEF Lists!Listed, ListsOf
<1>4. Lists!TakeInHand(Head(wire).event)
  BY <1>3 DEF TakeInHand, Lists!TakeInHand, helperVars
<1> QED
  BY <1>2, <1>4

\* Every step of the client is one of the lists, or leaves them alone.
LEMMA ListsStep ==
  TypeOK /\ NextIdBounded /\ [Next]_vars => [Lists!Next]_(Lists!vars)
<1> SUFFICES ASSUME TypeOK, NextIdBounded, [Next]_vars
             PROVE  Lists!Next \/ UNCHANGED Lists!vars
  OBVIOUS
<1>1. ASSUME UNCHANGED <<registry, nextId, due, running>>
      PROVE  UNCHANGED Lists!vars
  BY <1>1 DEF Lists!vars
<1>2. ASSUME NEW t \in Thread, Call(t)
      PROVE  Lists!Next \/ UNCHANGED Lists!vars
  <2>1. ASSUME NEW s \in Exercised, Subscribe(t, s)
        PROVE  Lists!Next
    <3>1. \E i \in Interface, e \in Heard, id \in 0 .. MaxId : Lists!Add(i, e, id)
      BY <2>1, ListsSubscribe
    <3> QED
      BY <3>1 DEF Lists!Next
  <2>2. ASSUME NEW n \in Returned, Unsubscribe(t, n)
        PROVE  Lists!Next
    <3>1. n \in 0 .. MaxId
      BY BoundAssumption DEF NextIdBounded, Returned
    <3>2. Lists!Remove(n)
      BY <2>2, ListsRemove DEF Unsubscribe, notifyVars
    <3> QED
      BY <3>1, <3>2 DEF Lists!Next
  <2>3. ASSUME NEW i \in Interface, UnsubscribeAll(t, i)
        PROVE  Lists!Next
    <3>1. Lists!Clear(i)
      BY <2>3, ListsClear DEF UnsubscribeAll, ClearOwner, notifyVars
    <3> QED
      BY <3>1 DEF Lists!Next
  <2>4. CASE Connect(t) \/ Disconnect(t) \/ Destroy(t)
    BY <1>1, <2>4 DEF Connect, Disconnect, Destroy, helperVars, notifyVars
  <2> QED
    BY <1>2, <2>1, <2>2, <2>3, <2>4 DEF Call
<1>3. ASSUME NEW t \in Thread, Continue(t)
      PROVE  Lists!Next \/ UNCHANGED Lists!vars
  <2>1. CASE SweepOne(t)
    <3>1. PICK o \in Interface : o = SweepOrder[pos[t]]
      BY <2>1, SweepFacts DEF SweepOne, TypeOK
    <3>2. registry' = WithoutOwner(o) /\ UNCHANGED <<nextId, due, running>>
      BY <2>1, <3>1 DEF SweepOne, ClearOwner, notifyVars
    <3>3. Lists!Clear(o)
      BY <3>2, ListsClear
    <3> QED
      BY <3>3 DEF Lists!Next
  <2>2. CASE TearDownMember(t)
    <3>1. PICK o \in Interface : o = TeardownOrder[torn + 1]
      BY <2>2, TeardownFacts DEF TearDownMember, TypeOK
    <3>2. UNCHANGED <<nextId, due, running>>
      BY <2>2 DEF TearDownMember, notifyVars
    <3>3. CASE registry' = WithoutOwner(o)
      <4>1. Lists!Clear(o)
        BY <3>2, <3>3, ListsClear
      <4> QED
        BY <4>1 DEF Lists!Next
    <3>4. CASE UNCHANGED registry
      BY <1>1, <3>2, <3>4
    <3> QED
      BY <2>2, <3>1, <3>3, <3>4 DEF TearDownMember, ClearOwner
  <2>3. CASE SubscribeReturn(t) \/ DisconnectReturn(t) \/ DestroyReturn(t)
    BY <1>1, <2>3
       DEF SubscribeReturn, DisconnectReturn, DestroyReturn, helperVars, notifyVars
  <2> QED
    BY <1>3, <2>1, <2>2, <2>3 DEF Continue
<1>4. CASE TakeInHand
  BY <1>4, ListsTakeInHand DEF Lists!Next
<1>5. ASSUME NEW r \in due, Notify(r) \/ PassOver(r)
      PROVE  Lists!Next
  <2>1. Lists!Notify(r) \/ Lists!PassOver(r)
    BY <1>5 DEF Notify, PassOver, Lists!Notify, Lists!PassOver, helperVars
  <2> QED
    BY <2>1 DEF Lists!Next
<1>6. CASE NotificationReturn
  BY <1>6 DEF NotificationReturn, Lists!NotificationReturn, Lists!Next, helperVars
<1>7. CASE Link
  BY <1>1, <1>7 DEF Link, LinkUp, LinkDown, Receive, helperVars, notifyVars
<1>8. CASE UNCHANGED vars
  BY <1>1, <1>8 DEF vars, helperVars, notifyVars
<1> QED
  BY <1>2, <1>3, <1>4, <1>5, <1>6, <1>7, <1>8 DEF Next, Dispatch

\* One registry, one id space and one transport thread implement a list of
\* subscribers for every interface.
THEOREM ClientImplementsLists == Spec => ImplementsLists
BY ListsInit, ListsStep, TypeCorrect, NextIdBoundedCorrect, PTL
   DEF Spec, ImplementsLists, Lists!Spec

-----------------------------------------------------------------------------
(***************************************************************************)
(* What holds of SweepsReturn and QuietAfterDisconnect in every step.  The *)
(* two say that something happens, which needs fairness and is for TLC;    *)
(* these theorems are about the way there: how far it is, that only the    *)
(* thread concerned makes it, and that nobody lengthens it.                *)
(***************************************************************************)
\* No notification sweeps, and the destructor's sweep is the only one.
DestructorAlone ==
  /\ pc[Transport] # "sweeping"
  /\ accessor = "dying" =>
       \E t \in Thread : /\ pc[t] = "sweeping"
                         /\ \A u \in Thread \ {t} : pc[u] # "sweeping"
  /\ accessor = "gone" => \A t \in Thread : pc[t] # "sweeping"

\* The steps that neither begin nor end a call of the client.
LEMMA AloneUntouched ==
  ASSUME DestructorAlone, UNCHANGED <<pc, accessor>>
  PROVE  DestructorAlone'
BY DEF DestructorAlone

\* No application thread begins a call once the destructor runs, and a
\* notification does not sweep.
LEMMA DestructorAloneCorrect == Spec => []DestructorAlone
<1> USE DEF DestructorAlone
<1>1. Init => DestructorAlone
  BY DEF Init, Thread
<1>2. TypeOK /\ DestructorAlone /\ [Next]_vars => DestructorAlone'
  <2> SUFFICES ASSUME TypeOK, DestructorAlone, [Next]_vars
               PROVE  DestructorAlone'
    OBVIOUS
  <2>1. pc \in [Thread -> {"idle", "registered", "sweeping"}] /\ Transport \in Thread
    BY DEF TypeOK, Thread
  <2>2. ASSUME NEW t \in Thread,
               (\E s \in Exercised : Subscribe(t, s)) \/ SubscribeReturn(t)
        PROVE  DestructorAlone'
    <3>1. /\ pc[t] # "sweeping" /\ accessor' = accessor
          /\ \E c \in {"idle", "registered"} : pc' = [pc EXCEPT ![t] = c]
      BY <2>2 DEF Subscribe, SubscribeReturn, MayCall, objectVars
    <3>2. \A u \in Thread : pc'[u] = "sweeping" <=> pc[u] = "sweeping"
      BY <2>1, <3>1
    <3> QED
      BY <2>1, <3>1, <3>2
  <2>3. ASSUME NEW t \in Thread, Disconnect(t) \/ DisconnectReturn(t)
        PROVE  DestructorAlone'
    <3>1. /\ accessor = "live" /\ accessor' = "live"
          /\ \/ t # Transport /\ pc' = [pc EXCEPT ![t] = "sweeping"]
             \/ pc' = [pc EXCEPT ![t] = "idle"]
      BY <2>3 DEF Disconnect, DisconnectReturn, MayCall, StartSweep, SweepReturns, LeaveSweep,
         objectVars
    <3> QED
      BY <2>1, <3>1
  <2>4. ASSUME NEW t \in Thread, Destroy(t)
        PROVE  DestructorAlone'
    <3>1. /\ t # Transport /\ accessor' = "dying" /\ pc' = [pc EXCEPT ![t] = "sweeping"]
          /\ \A u \in AppThread : pc[u] = "idle"
      BY <2>4 DEF Destroy, StartSweep
    <3>2. \A u \in Thread \ {t} : pc'[u] # "sweeping"
      BY <2>1, <3>1 DEF Thread
    <3> QED
      BY <2>1, <3>1, <3>2
  <2>5. ASSUME NEW t \in Thread, DestroyReturn(t)
        PROVE  DestructorAlone'
    <3>1. /\ accessor = "dying" /\ accessor' = "gone" /\ pc[t] = "sweeping"
          /\ pc' = [pc EXCEPT ![t] = "idle"]
      BY <2>5 DEF DestroyReturn, SweepReturns, LeaveSweep
    <3> QED
      BY <2>1, <3>1
  <2>6. CASE UNCHANGED <<pc, accessor>>
    BY <2>6, AloneUntouched
  <2> QED
    BY <2>2, <2>3, <2>4, <2>5, <2>6, Zenon DEF Next, Call, Continue, Dispatch, Link, Unsubscribe,
       UnsubscribeAll, Connect, SweepOne, TearDownMember, TakeInHand, Notify, PassOver,
       NotificationReturn, LinkUp, LinkDown, Receive, threadVars, objectVars, vars
<1> QED
  BY <1>1, <1>2, TypeCorrect, PTL DEF Spec

\* The most steps that a thread has left to make in its sweep: the interfaces
\* it has not passed, the members not destroyed, and the return.
StepsLeft(t) ==
  IF pc[t] = "sweeping"
  THEN 1 + (Len(SweepOrder) + 1 - pos[t]) + (Len(TeardownOrder) - torn)
  ELSE 0

\* A sweeping thread's own step brings it nearer to its return.
LEMMA OwnStepsCount ==
  ASSUME TypeOK, NEW t \in Thread, pc[t] = "sweeping", Continue(t)
  PROVE  StepsLeft(t)' < StepsLeft(t)
<1>1. /\ pc \in [Thread -> {"idle", "registered", "sweeping"}]
      /\ pos \in [Thread -> 1 .. 8] /\ torn \in 0 .. 8
      /\ Len(SweepOrder) = 7 /\ Len(TeardownOrder) = 8
  BY SweepFacts, TeardownFacts DEF TypeOK
<1>2. pos[t] \in 1 .. 8
  BY <1>1
<1>3. StepsLeft(t) > 0
  BY <1>1, <1>2 DEF StepsLeft
<1>4. CASE SweepOne(t)
  <2>1. pc'[t] = "sweeping" /\ pos'[t] = pos[t] + 1 /\ torn' = torn
    BY <1>1, <1>4 DEF SweepOne, objectVars
  <2> QED
    BY <1>1, <1>2, <2>1 DEF StepsLeft
<1>5. CASE TearDownMember(t)
  <2>1. pc'[t] = "sweeping" /\ pos'[t] = pos[t] /\ torn' = torn + 1
    BY <1>5 DEF TearDownMember, threadVars
  <2> QED
    BY <1>1, <1>2, <2>1 DEF StepsLeft
<1>6. CASE DisconnectReturn(t) \/ DestroyReturn(t)
  <2>1. pc'[t] = "idle"
    BY <1>1, <1>6 DEF DisconnectReturn, DestroyReturn, SweepReturns, LeaveSweep
  <2> QED
    BY <1>3, <2>1 DEF StepsLeft
<1> QED
  BY <1>4, <1>5, <1>6 DEF Continue, SubscribeReturn

\* No step but its own moves a thread within its sweep.
LEMMA OthersStepsDoNotCount ==
  ASSUME TypeOK, DestructorAlone, [Next]_vars,
         NEW t \in Thread, pc[t] = "sweeping", ~Continue(t)
  PROVE  StepsLeft(t)' = StepsLeft(t)
<1>1. /\ pc \in [Thread -> {"idle", "registered", "sweeping"}]
      /\ pos \in [Thread -> 1 .. Len(SweepOrder) + 1]
  BY DEF TypeOK
<1> DEFINE Kept == pc'[t] = pc[t] /\ pos'[t] = pos[t] /\ torn' = torn
<1>2. ASSUME NEW u \in Thread, Call(u)
      PROVE  Kept
  <2>1. u # t
    BY <1>2 DEF Call, Subscribe, Unsubscribe, UnsubscribeAll, Connect, Disconnect,
       Destroy, MayCall, Thread
  <2> QED
    BY <1>1, <1>2, <2>1 DEF Call, Subscribe, Unsubscribe, UnsubscribeAll, Connect, Disconnect,
       Destroy, StartSweep, threadVars, objectVars
<1>3. ASSUME NEW u \in Thread, Continue(u)
      PROVE  Kept
  <2>1. u # t
    BY <1>3
  <2>2. ~TearDownMember(u)
    BY <2>1 DEF TearDownMember, DestructorAlone
  <2> QED
    BY <1>1, <1>3, <2>1, <2>2 DEF Continue, SubscribeReturn, SweepOne, DisconnectReturn,
       DestroyReturn, SweepReturns, LeaveSweep, objectVars
<1>4. ASSUME UNCHANGED <<pc, pos, torn>>
      PROVE  Kept
  BY <1>4
<1>5. Kept
  BY <1>2, <1>3, <1>4 DEF Next, Dispatch, Link, TakeInHand, Notify, PassOver,
     NotificationReturn, LinkUp, LinkDown, Receive, threadVars, objectVars, vars
<1> QED
  BY <1>5 DEF StepsLeft

\* A sweep is over after at most 16 steps of its own thread, and no subscribe,
\* unsubscribe, sweep or notification of another makes it one step longer.  A
\* next step is always there: of a thread that sweeps, the guards of SweepOne,
\* DisconnectReturn, TearDownMember and DestroyReturn together leave out only
\* the state in which the accessor is gone.
THEOREM SweepsCountDown ==
  Spec => /\ [](\A t \in Thread :
                  StepsLeft(t) \in 0 .. 16 /\ (pc[t] = "sweeping" => accessor # "gone"))
          /\ [][\A t \in Thread : pc[t] = "sweeping" =>
                  IF Continue(t) THEN StepsLeft(t)' < StepsLeft(t)
                                 ELSE StepsLeft(t)' = StepsLeft(t)]_vars
<1>1. TypeOK /\ DestructorAlone =>
        \A t \in Thread :
          StepsLeft(t) \in 0 .. 16 /\ (pc[t] = "sweeping" => accessor # "gone")
  <2> SUFFICES ASSUME TypeOK, DestructorAlone, NEW t \in Thread
               PROVE  StepsLeft(t) \in 0 .. 16 /\ (pc[t] = "sweeping" => accessor # "gone")
    OBVIOUS
  <2>1. /\ pos[t] \in 1 .. 8 /\ torn \in 0 .. 8
        /\ Len(SweepOrder) = 7 /\ Len(TeardownOrder) = 8
    BY SweepFacts, TeardownFacts DEF TypeOK
  <2>2. StepsLeft(t) \in 0 .. 16
    BY <2>1 DEF StepsLeft
  <2>3. pc[t] = "sweeping" => accessor # "gone"
    BY DEF DestructorAlone
  <2> QED
    BY <2>2, <2>3
<1>2. TypeOK /\ DestructorAlone /\ [Next]_vars =>
        [\A t \in Thread : pc[t] = "sweeping" =>
           IF Continue(t) THEN StepsLeft(t)' < StepsLeft(t)
                          ELSE StepsLeft(t)' = StepsLeft(t)]_vars
  BY OwnStepsCount, OthersStepsDoNotCount
<1> QED
  BY <1>1, <1>2, TypeCorrect, DestructorAloneCorrect, PTL DEF Spec

\* Of the subscriptions s, those that a call which returned has released.
Released(s) == { r \in s : r.owner \in ReleasedByDisconnect /\ r.id < released[r.owner] }

\* What is once released stays so, and a released subscription only ever leaves
\* the notifications that are due or run: none comes to them anew.  With the
\* dispatch that the fairness asks for, they die down.
THEOREM ReleasedOnlyLeave ==
  Spec => [][/\ Released(due' \union running') \subseteq Released(due \union running)
             /\ \A o \in Owner : released[o] <= released'[o]]_vars
<1>1. TypeOK /\ IInv /\ [Next]_vars => \A o \in Owner : released[o] <= released'[o]
  <2> SUFFICES ASSUME TypeOK, IInv, [Next]_vars, NEW o \in Owner
               PROVE  released[o] <= released'[o]
    OBVIOUS
  <2>1. /\ released[o] \in Nat /\ nextId \in Nat /\ \A t \in Thread : mark[t] \in Nat
        /\ released[o] <= nextId
    BY DEF TypeOK, IInv, IdsAndMarks
  <2>2. ASSUME NEW t \in Thread, SweepReturns(t)
        PROVE  released[o] <= released'[o]
    BY <2>1, <2>2 DEF SweepReturns
  <2>3. ASSUME NEW i, ClearOwner(i)
        PROVE  released[o] <= released'[o]
    BY <2>1, <2>3 DEF ClearOwner
  <2>4. ASSUME UNCHANGED released
        PROVE  released[o] <= released'[o]
    BY <2>1, <2>4
  <2>5. ASSUME NEW t \in Thread, Call(t)
        PROVE  released[o] <= released'[o]
    BY <2>3, <2>4, <2>5 DEF Call, Subscribe, Unsubscribe, UnsubscribeAll, Connect, Disconnect,
       Destroy, helperVars
  <2>6. ASSUME NEW t \in Thread, Continue(t)
        PROVE  released[o] <= released'[o]
    BY <2>2, <2>3, <2>4, <2>6 DEF Continue, SubscribeReturn, SweepOne, DisconnectReturn,
       TearDownMember, DestroyReturn
  <2> QED
    BY <2>4, <2>5, <2>6 DEF Next, Dispatch, Link, TakeInHand, Notify, PassOver,
       NotificationReturn, LinkUp, LinkDown, Receive, helperVars, vars
<1>2. [Next]_vars => running' \subseteq due \union running
  BY DEF Next, Call, Continue, Dispatch, Link, Subscribe, Unsubscribe,
     UnsubscribeAll, Connect, Disconnect, Destroy, SubscribeReturn, SweepOne,
     DisconnectReturn, TearDownMember, DestroyReturn, TakeInHand, Notify, PassOver,
     NotificationReturn, LinkUp, LinkDown, Receive, notifyVars, vars
<1> DEFINE Kept == \A r \in due' \ due :
                     r.owner \in ReleasedByDisconnect => r.id >= released[r.owner]
<1>3. ASSUME TypeOK, TypeOK', [Next]_vars, [Kept]_vars
      PROVE  Released(due' \union running') \subseteq Released(due \union running)
  <2>1. CASE UNCHANGED vars
    BY <2>1 DEF vars, notifyVars
  <2>2. CASE ~UNCHANGED vars
    <3>1. ASSUME NEW r \in due' \ due, r.owner \in ReleasedByDisconnect
          PROVE  ~(r.id < released[r.owner])
      <4>1. r.id \in Nat /\ released[r.owner] \in Nat
        BY <1>3, <3>1 DEF TypeOK, Subscription
      <4> QED
        BY <1>3, <2>2, <3>1, <4>1
    <3> QED
      BY <1>2, <1>3, <3>1 DEF Released
  <2> QED
    BY <2>1, <2>2
<1>4. TypeOK /\ TypeOK' /\ IInv /\ [Next]_vars /\ [Kept]_vars
      => [/\ Released(due' \union running') \subseteq Released(due \union running)
          /\ \A o \in Owner : released[o] <= released'[o]]_vars
  BY <1>1, <1>3
<1> QED
  BY <1>4, TypeCorrect, IInvCorrect, NoEventForTheReleasedAlways, PTL
     DEF Spec, NoEventForTheReleased
=============================================================================
