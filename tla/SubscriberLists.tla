--------------------------- MODULE SubscriberLists ---------------------------
(***************************************************************************)
(* What the interface headers promise about subscriptions, as a reader of  *)
(* one header sees it: every interface keeps its own list of subscribers,  *)
(* an identifier is issued once, unsubscribe removes the one subscriber it *)
(* names, unsubscribeAll empties the list of its own interface and of no   *)
(* other, and an event reaches the subscribers listed when it is taken in  *)
(* hand, each at most once and one at a time.                              *)
(***************************************************************************)
CONSTANTS
  Interface,   \* the interfaces that keep a list
  Event,       \* the events a subscriber can wait for
  Id           \* the identifiers that can be issued

VARIABLES
  lists,       \* interface -> its subscribers, as [id, owner, event]
  issued,      \* the identifiers issued so far
  due,         \* subscribers still to be notified of the event in hand
  running      \* the subscriber being notified, if any

vars == <<lists, issued, due, running>>

Listed == UNION { lists[i] : i \in Interface }

Init ==
  /\ lists = [i \in Interface |-> {}]
  /\ issued = {} /\ due = {} /\ running = {}

\* subscribeOnX: a new subscriber under an identifier never seen before.
Add(i, e, id) ==
  /\ id \notin issued
  /\ issued' = issued \union {id}
  /\ lists' = [lists EXCEPT ![i] = @ \union {[id |-> id, owner |-> i, event |-> e]}]
  /\ UNCHANGED <<due, running>>

\* "This method is generic for all subscriptions": any list may hold the id.
Remove(id) ==
  /\ lists' = [i \in Interface |-> { r \in lists[i] : r.id # id }]
  /\ UNCHANGED <<issued, due, running>>

\* "Remove all active subscriptions from subscribers list."
Clear(i) ==
  /\ lists' = [lists EXCEPT ![i] = {}]
  /\ UNCHANGED <<issued, due, running>>

TakeInHand(e) ==
  /\ due = {} /\ running = {}
  /\ due' = { r \in Listed : r.event = e }
  /\ UNCHANGED <<lists, issued, running>>

Notify(r) ==
  /\ running = {}
  /\ due' = due \ {r} /\ running' = {r}
  /\ UNCHANGED <<lists, issued>>

PassOver(r) ==
  /\ running = {}
  /\ due' = due \ {r}
  /\ UNCHANGED <<lists, issued, running>>

NotificationReturn ==
  /\ running # {} /\ running' = {}
  /\ UNCHANGED <<lists, issued, due>>

Next ==
  \/ \E i \in Interface, e \in Event, id \in Id : Add(i, e, id)
  \/ \E id \in Id : Remove(id)
  \/ \E i \in Interface : Clear(i)
  \/ \E e \in Event : TakeInHand(e)
  \/ \E r \in due : Notify(r) \/ PassOver(r)
  \/ NotificationReturn

Spec == Init /\ [][Next]_vars
=============================================================================
