# Firebolt C++ client: specifications

TLA+ modules for the client library of this repository (`src/src`,
`src/include/firebolt`), the TLC configurations that check them on small
instances, and proofs for the TLA+ proof system of what has to hold for every
instance. Paths below are relative to the repository and start at its root
directory `src/`.

## 1. The system

The client is a thin C++ layer over a separate library, the Firebolt C++
transport, which owns the WebSocket, the thread that runs notifications, the
matching of responses and the registry of subscriptions. The transport is not
in this repository; it is modelled from how the client and its tests use it.

| Component | State it keeps | Operations | Talks to |
|---|---|---|---|
| Accessor, `src/src/firebolt.cpp` | the 13 interface objects, in a function-local static | `Instance`, `Connect`, `Disconnect`, destructor, `unsubscribeAll` (private sweep) | gateway (connect, disconnect), the interfaces |
| Subscribing interfaces, 8 of `src/src/*_impl.cpp` | a `SubscriptionManager` each | `subscribeOnX`, `unsubscribe`, `unsubscribeAll` | the helper's registry, through the manager |
| Requests, all `*_impl.cpp` | none | getters and invokers | `IHelper::get`, `IHelper::invoke` |
| JSON types, `src/src/json_types` | the value being decoded | `fromJson`, `value`, enumeration tables | called by the helper, on the caller's thread for an answer, on the transport's for a notification |
| Helper and gateway (external) | subscriptions by id, connection, events received | subscribe, unsubscribe, unsubscribeAll, get, invoke, dispatch | everything above |
| API test app, `src/test/api_test_app` | promise and once flag of the start-up, the id of the last utterance | start-up, menu, demos | accessor, as an application would |
| Component-test harness, `src/test/*.cpp`, `src/test/component` | `gConnected`; in each fixture a flag, a mutex and a condition variable | connection wait, subscribe, trigger, event wait, unsubscribe | accessor, mock server over HTTP |
| Unit tests, OpenRPC documents | none | schema checks | single-threaded |

What is hard in it:

* **One registry, many lists.** Every header describes one list of subscribers
  per interface; the implementation is one registry with ids global to the
  process, and `unsubscribe(id)` does not look at the interface it is called on.
* **The sweep is not atomic.** `Disconnect()` and the destructor release the
  interfaces one call at a time, while other threads and the notifications
  themselves subscribe and unsubscribe.
* **Notifications in flight.** The transport thread decides whom to notify when
  it takes an event in hand, and notifies later; an unsubscription in between
  does not always stop the notification. It may run before `subscribeOnX()` has
  returned the id, after `unsubscribe()`, and after `Disconnect()`.
* **The destructor** runs at program exit and, unlike `Disconnect()`, does not
  close the gateway: events arrive while members are being destroyed.
* **Waits of the test programs.** The app waits for a promise that the listener
  keeps from inside `call_once`, by reference into main's frame; the component
  tests poll a flag without synchronisation, sleep in the wrong unit, and wait for
  events with a flag that is reset without its lock and a condition variable that
  is notified outside it. Each of these waits can run out while the other side
  still comes.
* **JSON that does not follow the document.** Members may be missing, of another
  kind, negative, fractional or too large.
* **Hand-written repetition.** The sweep's list, the mandatory members and the
  parameters of 19 nearly identical Metrics requests are each written out. Structs
  are filled by position, with neighbours of the same type. The unit tests hardly
  look at parameters: `JsonEngine::MockRequest()`, which would validate some, is
  never called.

What makes each component correct:

* accessor: what a `Disconnect()` released stays released, what it need not release
  stays; a sweep ends;
* subscribing interfaces: each behaves as its own list, and hears the event it is
  documented for;
* requests: method, parameter names and values are those of the OpenRPC document,
  and every argument goes out under its own name;
* JSON types: documented values are read exactly and into the right members,
  others refused as a whole, and no absent member is ever read;
* test app and harness: the first notice decides, waits end and are not cut short,
  a test that passes has seen its own event, and none leaves a subscription behind.

## 2. The modules

| Module | What it is | Code |
|---|---|---|
| `Interfaces` | the subscribable events, the order of the sweep, the order of destruction | `firebolt.cpp:91-115`, `subscribeOn...` of each interface |
| `FireboltClient` | accessor, interfaces, registry, gateway, transport thread | `firebolt.cpp`, `*_impl.cpp` |
| `SubscriberLists` | abstract specification: one list of subscribers per interface | the `unsubscribe` and `subscribeOn` comments of the headers |
| `FireboltClient_proofs` | theorems about `FireboltClient` | |
| `Api` | the headers: requests with their arguments, notifications, structs, enumerations | `src/include/firebolt/*.h` |
| `JsonTypes` | JSON values, enumeration tables, conversions, decoders | `src/src/json_types/*.h` |
| `Calls` | what the 50 requests and 20 notifications name and send | `*_impl.cpp` |
| `OpenRpc` | the document as a reference: methods, parameters, schemas | `src/docs/openrpc/the-spec/*.json` |
| `Exchange` | a request or notification from the call to its outcome | `*_impl.cpp`, `IHelper::get`, `invoke` |
| `Exchange_proofs` | theorem about what the decoders of `Exchange` yield | |
| `ExchangeRequests_proofs` | theorem about the requests of `Exchange` and the calls they stand for | |
| `ExchangeSchemas_proofs` | theorem about the requests of `Exchange` and the schemas of the document | |
| `ExchangeAnswers_proofs` | theorem about what the application is handed by `Exchange` | |
| `Gateway` | the transport's connection and its listener thread, shared by the next two | external |
| `AppSession` | `main()` of the test app beside the gateway's listener, and its speech demos | `src/test/api_test_app/main.cpp`, `apis/texttospeechDemo.cpp`, `utils.cpp` |
| `AppSession_proofs` | theorems about `AppSession` | |
| `ComponentTestsMain` | `main()` of the component tests and its wait for a connection | `src/test/ComponentTestsMain.cpp` |
| `ComponentTestsMain_proofs` | theorems about `ComponentTestsMain` | |
| `ComponentTests` | the tests of subscriptions, their notifications and event waits | `src/test/component/*.cpp`, `src/test/utils.cpp` |
| `ComponentTests_proofs` | theorems about `ComponentTests` | |
| `MCFireboltClient`, `MCExchange`, `MCAppSession`, `MCComponentTests` | instances for TLC | |

`FireboltClient` composes `Interfaces` with the transport; `Exchange` composes
`Api`, `JsonTypes`, `Calls` and `OpenRpc`; `AppSession` and `ComponentTestsMain`
each compose a `main()` with `Gateway`.

### FireboltClient

State and code: `registry`, `nextId` are the helper's subscriptions; `pc`, `held`,
`pos` say where a thread is inside a call (`pos` is the line of the sweep it has
reached, `firebolt.cpp:93-99`); `accessor`, `torn` the lifetime of the singleton
and how many of its members are destroyed; `gateway`, `wire` the connection and
the events received; `due`, `goodInHand`, `running` the event being delivered.
Three variables are history: `mine` are the subscriptions whose id the application
was given and which it did not unsubscribe; `mark` is `nextId` when a sweep began;
`released` says of each interface below which id everything was to be released: by
an `unsubscribeAll()` of that interface, alone or in a sweep, up to that moment, and
by a sweep that returned, up to its beginning.

Actions and code: `Subscribe`/`SubscribeReturn` are the two ends of
`subscribeOnX()`, two steps because the notification may run in between.
`Disconnect`, seven times `SweepOne`, then `DisconnectReturn` are
`FireboltAccessorImpl::Disconnect()`; `Destroy`, `SweepOne`, `TearDownMember`,
`DestroyReturn` the destructor and the destruction of the members in reverse
order of declaration. `LinkUp`, `LinkDown`, `Receive`, `TakeInHand`, `Notify`,
`PassOver`, `NotificationReturn` are the transport.

Choices made for the external library, each the weakest the client allows: a
call of the helper is atomic; the connection may fail or be lost at any time, and
be tried again by the library or not; a subscription removed after an event was
taken in hand may or may not still be notified (both happen); events that are
queued at a `Disconnect()` may be lost or kept; the destruction of a member removes
its entries from the registry or leaves them.

A notification may make any call but `Connect()` and `Disconnect()`, also while the destructor
sweeps and destroys the members and after it, since `Instance()` (`firebolt.cpp:118`)
does not keep it from that. A call on a destroyed member is undefined behaviour; in
the model it acts as ever or does nothing, and nothing is claimed of a program in
which it does something else. Two limits: an application does not call `Connect()`
or `Disconnect()` from inside a notification, because what the gateway does when its
own thread opens or closes it is not visible here; and the application's own threads are out
of the client when the program destroys its statics.

`DisconnectReleases` and `KeptUnlessReleased` bound a `Disconnect()` from both
sides. Everything older than it goes, and so does what another thread subscribes
meanwhile on an interface the sweep has still to reach. A subscription made *behind*
the sweep does not go: it survives that `Disconnect()`, in the code as in the model,
and `KeptUnlessReleased` says that nothing else takes it away either.

### Exchange

`Invoke` takes arguments in the order the header declares them (`given`; an
optional one may be absent) and builds the parameters as the code does: each
argument that is given under the name `Calls` has at its position, enumerators as
their text, and JSON null instead of an empty object when nothing was assigned.
`Answer` decodes any JSON value of `Payloads`; an exception of a decoder is
`InvalidParams`. `Notice` decodes a notification, which is dropped when that
fails. A decoder is the *set* of its outcomes: empty when it throws, several where
a conversion is undefined (a float out of range read as `uint32_t`). Reading a
member that is not there yields `Crash`. What a class asks for, what it reads and
in which order it fills its struct are three lists in the code and three in the
model (`Class`), so that one may be wrong where the others are right. A struct is a sequence, because `value()`
fills it by position; which member a position is comes from `Api`, that is from
the header and not from the class. The value is kept as sent or as read, so that
the properties compare both sides of the wire. One exchange at a time stands for
all, since requests share no state in the client.

A header asks for more of some arguments than their C++ type does: a media
position is a fraction or a whole number of seconds up to a day, and no progress
is negative. `Asked` says so, and `RequestsAsDocumented` speaks of a caller who
keeps to it (`AsAsked`); any other caller is in the model too, since the code
passes on what it is given, and `RequestSaysTheCall` holds for both.

JSON null as parameters is no parameters at all to the unit tests' helper
(`src/test/unit/mock_helper.h:79` and `:119`), and the properties take it so
(`Sent`); what the transport writes for it is not visible here.

`OpenRpc` is written from the document and from nothing else; it is the other
side of the comparison, not a model of the code. `DocumentedName` and
`DocumentedMember` say under which name the document has what the headers name
otherwise; `EnumeratorOf` and `SpeechStateNumbered` what its texts and numbers
mean.

### AppSession

`main` is the line `main()` has reached between `Connect()` (`main.cpp:136`) and
its return; `promise` what `set_value()` was given, which also says whether the
once flag has been used; `hand` (of `Gateway`) the listener call in progress, with
`entered` before and `decided` after the body of `call_once`. `first` and `spoken`
are history. `Wait` is `wait_for(2 s)`, `TakeOutcome` the `get()`, both with their
early returns that do not disconnect; `Decide` and `Leave` are the listener. When
main has returned, its promise and its once flag are gone, and what a listener
call then does is not known: the model keeps both as they were. Such a call is
possible after every return of `main()`, the regular one included, because
nothing here says that `disconnect()` waits for the listener, and
after an early return the gateway is not even closed; no property excludes it. `Speak` keeps
the id of an accepted utterance, `AskAboutSpeech` stands for the four demos that
ask for one with a default; `FromText` is `std::stoi` with its exception, and the
conversion of an int to a `SpeechId`.

### ComponentTestsMain

`main`, `waiting`, `gConnected` are `main()`, the local variable of
`waitOnConnectionReady()` and the global flag. `Poll` is one turn of the loop,
`LeaveLoop` its condition, and `TakeConnection` the `return gConnected`, a second
read of a flag that the listener may have changed meanwhile. `waited` is history:
the microseconds slept.

### ComponentTests

A test is a sequence of steps, one action each (`ReceiveSteps` and the three
others); `Tests` is the sequence of tests gtest runs. `subscriptionId` says whether
the local variable of that name has been assigned, `eventReceived`, `waiter` are
the fixture's flag and its condition variable, `expired` the 2 s of
`EventWaitTime`. `FallAsleep` is `wait_for` evaluating its predicate under the
lock and going to sleep in one step. A notification is a sequence of steps too:
`NotificationSteps` sets the flag under the lock and notifies after it, and one
unsubscribes itself first. `TriggerEvent` puts the event on the wire or loses it,
since nobody looks at the answer to the HTTP request. `Subscribe` may fail, which
fails the test and lets it go on (`utils.cpp:105-115`). A notification carries the
test it belongs to: once that test is over its fixture is gone, and what the
notification then does to the next fixture, which may lie at the same place, is
left open (`SetFlag`, `NotifyOne`), as is the id that a variable which is gone or
not assigned may hold (`UnsubscribeInCallback`).

The four forms are the tests of `presentationTest.cpp` (`receive` and `callback`),
`lifecycleTest.cpp` (`history`) and `accessibilityTest.cpp` (`settings`); the
other subscription tests have the first form with another event. Malformed events:
the mock server validates what it is asked to send
(`.github/mock-firebolt/config.json`), so a rate out of bounds is refused and never
arrives (`triggerRefused`); the client itself would decode it. An unknown
lifecycle state (`triggerBad`) is taken to arrive all the same, since the client
refuses it as well.

## 3. The runs

| Run | Configuration | Checks | Result |
|---|---|---|---|
| `safety` | `FireboltClient_safety.cfg` | `TypeOK`, `DisconnectReleases`, `KeptUnlessReleased`, `NoEventForTheReleased` | hold, 2.47 million states |
| `lists` | `FireboltClient_lists.cfg` | `ImplementsLists` (refinement of `SubscriberLists`) | holds, 645 thousand states |
| `liveness` | `FireboltClient_liveness.cfg` | `SweepsReturn`, `QuietAfterDisconnect` | hold, 645 thousand states |
| `everything` | `FireboltClient_everything.cfg` | `DisconnectReleasesEverything` | **violated** |
| `documented` | `Exchange_documented.cfg` | `RequestsAsDocumented`, `RequestSaysTheCall`, `ExactWhenDocumented`, `NoHalfRead`, `HearsItsEvent` | hold, 12,836 states |
| `optional` | `Exchange_optional.cfg` | `DocumentedAnswersAccepted` | **violated** |
| `app` | `AppSession_safety.cfg` | `TypeOK`, `SessionAsDocumented`, `AsksAboutTheLastSpoken`, `WaitEnds` | hold, 9,841 states |
| `app_default` | `AppSession_default.cfg` | `SendsWhatItShows` | **violated** |
| `harness_start` | `ComponentTestsMain_safety.cfg` | `TypeOK`, `TestsOnlyAfterConnected`, `GivesUpLate`, `PollingEnds` | hold, 588 states |
| `harness_slices` | `ComponentTestsMain_slices.cfg` | `SlicesOfMilliseconds` | **violated** |
| `events` | `ComponentTests_events.cfg` | `TypeOK`, `SleeperIsNotified`, `IdKnownInCallback`, `FixtureOutlivedByNotifyAlone`, `VerifiedByItsOwnEvent`, `MalformedEventUnnoticed`, `TestsEnd` | hold, 15,803 states |

What the violations show:

* `everything`: `unsubscribeAll()` of the accessor calls seven interfaces and not
  `device_`. A `Device.onHdrChanged` subscription survives `Disconnect()` and is
  notified in the next session. The other properties therefore speak of
  `ReleasedByDisconnect`, which leaves Device out.
* `optional`: the document requires only `enabled` of `ClosedCaptionsSettings`
  and nothing of `Display.size`, `Display.maxResolution` and `StateChange`; the
  classes refuse an answer in which any of their members is missing.
* `app_default`: a `SpeechId` is a `uint32_t` and is read back with `std::stoi`.
  An id above `INT_MAX` throws, is taken for 0, and the request goes out with
  another id than the one the app has just printed as its choice.
* `harness_slices`: the loop counts down 10000 in steps of 100, "slices of
  100 ms", and sleeps each with `usleep`, in microseconds: the wait is a thousandth
  of what it is meant to be. `GivesUpLate` therefore speaks of the count, and
  what gives a connection time is the second that `main()` sleeps before the loop.

What the passing runs of the test programs do not say: before a test has failed,
events arrive where they belong; after a failure they need not.
`VerifiedByItsOwnEvent`, `IdKnownInCallback` and `FixtureOutlivedByNotifyAlone`
are about the runs up to the first failure, and TLC finds each of them false
without that premise: an event that comes after its test has given up reaches the
next test on the same event, and one slow event can make another test pass. Even
before a failure `notify_one()` may be called on a condition variable that is
gone, because the notification has left the lock.

Bounds, and why they are enough:

* *Threads.* `safety` has two application threads and the transport's: two
  `Disconnect()`s overlap, and one overlaps with a subscription and with a
  notification that calls back. Invariants relate a sweep to one entry of the
  registry, so a third application thread adds no new relation. The threads are
  interchangeable, hence the symmetry. `lists` and `liveness` use one application
  thread and the transport's (no symmetry in `liveness`).
* *Events.* In `safety` the interface that is swept first and the one that is swept
  last; in the other three the last one and Device, which the sweep misses. The
  rest of `SweepOrder` is walked with nothing registered.
* *`MaxId = 2`* bounds the subscriptions made in one behaviour: one made before a
  sweep and one made during it, or one on each of two lists, exist together.
* *`MaxWire = 1`.* With the event in hand this makes two events in flight: one
  taken in hand before a sweep and one left in the queue behind it.
* *`UintLimit = 8`* for 2^32: values below, at and above the limit and negative
  ones are among those exchanged, so wrapping happens; nothing else depends on
  the width.
* *Values of `MCExchange`.* Two values of each scalar argument, so that two
  arguments of one type can be told apart, five of a `double`, among them a
  negative one and one that is no position; every object with any subset of its
  members, each with the values meant for it and null; every enumerator; lists of
  up to three items, histories of up to two changes. For `MemoryInfo` three values
  per member.
* *`IdLimit = 8`*, so an int has 3 bits as well: -4 to 3. A user types -1, 2
  and 5: negative, in range, and too large for an int.
* *`Waiting = 1050`*: ten whole slices and one that is shorter, which the code's
  10000 by 100 does not have. `harness_slices` has the code's numbers.
* *`MCTests`*: settings, history, receive, callback: one test of each form, the last
  two on the same event, so that an event which comes late reaches another test.
  The wire is bounded by the events that the tests trigger.

`CHECK_DEADLOCK FALSE` wherever a program comes to its end: in the
`FireboltClient` configurations once the accessor is gone and the bounds are used
up, in the others once `main()` has returned or all tests have run.

Fairness. `FireboltClient`: weak fairness for a thread inside a call (the
operating system schedules it, and no lock of the client can block it), for the
transport thread's own steps, and for the return of a notification (an application
whose notification never returns stops its own transport thread). `AppSession`:
main and a listener call that has begun are scheduled, and the 2 s pass.
`ComponentTestsMain`: main is scheduled and its sleeps end. `ComponentTests`: main
is scheduled and `EventWaitTime` passes; nothing is asked of the thread that
notifies. Nowhere is the connection obliged to come up, the gateway to report, the
platform to send or the application to call.

Assumptions about what is not in the repository, beyond those of `FireboltClient`:
the gateway calls the listener on one thread, one call at a time; `disconnect()`
neither waits for a call in progress nor keeps a last one from following, and after
it the connection does not come up by itself. In `ComponentTests` an HTTP call
returns.

## 4. What is proved

The theorems hold for any number of threads, any exercised events and any bounds
(`FireboltClient`), any values of the arguments, payloads and `UintLimit` (`Exchange`), any
even width of an id and whatever is typed (`AppSession`), any length of the wait and
its slices (`ComponentTestsMain`), and any number of tests in any order
(`ComponentTests`).

| Theorem | Establishes |
|---|---|
| `TypeCorrect` | `[]TypeOK` of `FireboltClient` |
| `DisconnectReleasesAlways` | `[]DisconnectReleases` |
| `KeptUnlessReleasedAlways` | `[]KeptUnlessReleased` |
| `NoEventForTheReleasedAlways` | the action property `NoEventForTheReleased` |
| `ClientImplementsLists` | the refinement `ImplementsLists` |
| `SweepsCountDown` | of `SweepsReturn`: how many steps are left, and that they only fall |
| `ReleasedOnlyLeave` | of `QuietAfterDisconnect`: the released only leave what is due or runs |
| `NoHalfReadAlways` | `[]NoHalfRead` |
| `RequestSaysTheCallAlways` | `[]RequestSaysTheCall` |
| `RequestsAsDocumentedAlways` | `[]RequestsAsDocumented` |
| `ExactWhenDocumentedAlways` | `[]ExactWhenDocumented` |
| `SessionTypeCorrect` | `[]TypeOK` of `AppSession` |
| `SessionAsDocumentedAlways` | `[]SessionAsDocumented` |
| `AsksAboutTheLastSpokenAlways` | the action property `AsksAboutTheLastSpoken` |
| `PromiseKeptOnce` | of `WaitEnds`: a wait that is over stays so, with an outcome to go on with |
| `WaitTypeCorrect` | `[]TypeOK` of `ComponentTestsMain` |
| `TestsOnlyAfterConnectedAlways` | `[]TestsOnlyAfterConnected` |
| `GivesUpLateAlways` | `[]GivesUpLate` |
| `PollingCountsDown` | of `PollingEnds`: the count falls with every turn of the loop |
| `TestsTypeCorrect` | `[]TypeOK` of `ComponentTests` |
| `SleeperIsNotifiedAlways` | `[]SleeperIsNotified` |
| `IdKnownInCallbackAlways` | `[]IdKnownInCallback` |
| `FixtureOutlivedByNotifyAloneAlways` | `[]FixtureOutlivedByNotifyAlone` |
| `VerifiedByItsOwnEventAlways` | the action property `VerifiedByItsOwnEvent` |
| `MalformedEventUnnoticedAlways` | the action property `MalformedEventUnnoticed` |
| `TestsGoForward` | of `TestsEnd`: the steps left only fall, and a wait can end once its time is up |

Assumptions: the transport is not an application thread, the exercised events
are subscribable, the bounds are numbers (`ThreadAssumption`,
`ExercisedAssumption`, `BoundAssumption`); what comes back is a JSON value,
down to the depth at which a decoder looks (`PayloadsAssumption`); an argument is a
value of its C++ type (`ArgumentsAssumption`); a `uint32_t` has room for the four
states of a speech (`UintAssumption`); an id has an even number of values, more than one
(`IdAssumption`), and what is typed are numbers (`TypedAssumption`); a slice is
longer than nothing (`WaitingAssumption`); the tests are of the four kinds
(`TestsAssumption`).

The argument for the accessor. `DisconnectReleases` is not inductive: when a sweep
returns and raises `released` to its `mark`, it must be known that nothing older
than the mark is left on any swept interface. That is `SweptBehind`, an invariant
of the proof: on every interface that a sweep has passed, `released` has reached
its `mark`. `KeptUnlessReleased` needs to know that what a thread is
about to return is registered or was released (`HeldKept`), and both need ids to lie
below `nextId`, one entry for each, and marks and `released` not above it
(`IdsAndMarks`). So the inductive invariant `IInv` joins these with the two
properties, on top of `TypeOK`, with one lemma for each action that disturbs it.
Nothing of it rests on what a destructor does to the registry, nor on who may call
in the meantime. `NoEventForTheReleased` follows because `TakeInHand` picks from
`registry`, where `DisconnectReleases` holds. `ClientImplementsLists` maps the
registry, grouped by owner, to the lists: a `SweepOne` is a `Clear` of one list, a
`TearDownMember` a `Clear` or a stutter, and a `Disconnect()` as a whole is a sequence
of those with stutters around it. It uses `NextIdBounded`: no more ids are issued
than the bound has.

The argument for the decoders. `ReadWhole`: no conversion yields an object or
`Crash` from a value that is there. `FromJsonWhole`: in a class whose
list names all it reads, `checkRequiredFields` makes every member that is read be
there; each of the twelve classes is shown to be one. `HistoryWhole`, `DecodeWhole` lift this to
lists and to every type a call can name. The inductive invariant is `Exchanged`:
what is done has the outcome that the decoder of its call or notification yields,
or `NoAnswer`.

The argument for the requests. `SendsOf` names the parameters of each request once
more; `HeadersDeclare` compares it with the arguments of `Api`, header by header,
and `CallsAgree` with what the classes send, so the two agree position by
position. No name occurs twice in a request (`SendsInjective`), hence the value
under a name is that of the argument at its position (`ParametersSay`), encoded as
something that means it (`EncodeMeans`: each enumerator has one entry in its
table, with the text the document has for it). The invariant is that a request
that is out is one of the calls with its arguments (`InvokedAlways`).

The argument for the requests and the document. `RequestSaysTheCall` compares a
request with the arguments of the header, so what is left is to compare the headers
with the document. `Describes` does it for one request: its method exists, each
argument has a parameter there whose schema suits the C++ type (`Suits`), and each
required parameter is that of an argument which is not optional. One lemma per row
of the headers establishes it (`DiscoveryDescribed` to `PauseDescribed`; getters
have no arguments), and `RequestsDocumented` joins them. `ArgumentConforms` is where
`AsAsked` is needed: a `double` suits the schema of a position or of a progress only
within its bounds. `GivenThere` and `ParametersOnly` say that a mandatory argument
is among the parameters and that nothing else is.

The argument for exact answers goes from the inside out. For every getter, a
documented value is accepted and each outcome means it (`ReadBool` to `ReadVoid`,
`AtomExact`). A class that `Mirrors` its schema asks for
nothing it does not read, reads each documented member with a getter for the schema
of that member, and its position in the struct is that of the
member of the same name in the header; such a class is exact (`ClassExact`), all
twelve are such (`ClassesMirror`), hence lists and every decoded type (`HistoryExact`,
`DecodeExact`). The tables are compared through a fourth, `TypeOf`, which gives
each documented name its type: headers (`HeaderTyped`), implementation
(`CallsTyped`, `NoticesTyped`) and document (`SchemasTyped`) each agree with it, so
with one another (`TypesMatch`). With `Exchanged` this is the theorem. Its premise
`Representable` is needed: of what the document allows and the declared type cannot
hold, an absent member is refused (the run `optional`) and a number out of range
or not whole is read as another one.

The argument for the test app: the promise is what the first notice said, and main
is past the wait only with the promise kept, so it is among the demos only if the
first notice reported a connection; status 0 is only given together with
`CloseGateway`, after which the connection does not come up again, and a listener
call still to come finds the promise kept.
`speechId` is `spoken` throughout. For the wait of the component tests: `waiting`
and `waited` add up to `Waiting`, and the flag is only true when a notice has
reported.

The argument for the subscription tests. There is no subscription but that of the
running test, and none before its first step or after its last (`OwnRegistry`). That
holds after failures as well, because every way through a test ends with the call
that removes its subscription, and it is what `TestsTypeCorrect` says of the
registry. As long as no test has failed, everything else belongs to the running test
too (`Own`): there is at most one
event that decodes, on the wire, in hand or being notified, it is the test's own,
and the test is waiting for it (`OwnEvent`); the flag, once set, was set by that
event, and a sleeping waiter with its flag set has the notification at its last
step (`OwnFlag`). The step that closes the circle is `VerifyEventReceived`: without
a failure it ends with the flag set, hence with nothing pending, which is why
nothing is pending when the flag is reset and used again, and when the next test
begins. After a failure `Own` does not hold, and the invariant does not say it.

The argument about ends. Each of the five liveness properties has a number of steps
that are left, or a state that is not left again, and five theorems prove what every
step does to it. `StepsLeft` of a sweep counts the interfaces not passed and the
members not destroyed. That no step of another thread changes it needs
`DestructorAlone`: `torn` moves under a thread only in the destructor, and no call
begins or goes on beside that one; for the same reason no thread is left inside a
client that is gone. A released subscription comes to what is due only through
`TakeInHand`, which `NoEventForTheReleased` excludes, and from there to what runs.
In the subscription tests `Waits` is inductive: only a test at its wait sleeps or
has its time up, and never both, so no notification is needed to end a wait.

Only model-checked: `SweepsReturn`, `QuietAfterDisconnect`, `WaitEnds`,
`PollingEnds`, `TestsEnd` themselves. They are liveness properties under fairness,
which rest on `ENABLED` and are beyond the prover; what is proved of them are the
five theorems above, and what is left to TLC is that the scheduling they assume
takes the steps that are counted. Every other property of a passing run is the
statement of a theorem, except `HearsItsEvent`: it compares two tables of twenty
rows, and TLC looks at every row.

## 5. What is not modelled

* The transport's matching of responses to requests and its timeout: they are in
  the external library. An exchange that gets no answer is `NoAnswer`.
* Calls of the connection listener during a session in `FireboltClient`, logging,
  configuration: no state of the client depends on them.
* What happens to memory that is gone: a call on a destroyed interface, a listener
  call into `main()`'s frame, `notify_one()` on a condition variable of a fixture that
  is gone. The models let each of them happen where the code does, and say what may
  still be relied on.
* What becomes of a number that is no `uint32_t`, and what the transport writes for
  null parameters: no document says, so there is nothing to compare with.
* String patterns and formats (`watchedOn`, languages, URIs): texts are opaque,
  and arguments are taken to be well formed.
* What the application does with a `SpeechState` above 3: `texttospeech.h:113`
  casts any number and hands it on, as the model does; nothing says what should
  happen.
* The test app's options, menus and printing, and its demos that only print an
  answer. `lifecycleDemo.cpp` keeps a state that nothing reads.
* HTTP itself (`httpPost`, curl): an event that the mock server is asked to send
  arrives late, early or not at all.
* Unit tests and `JsonEngine`: single-threaded comparisons of one call with the
  example of the document. They keep no state of the client; what they are meant
  to ensure is `RequestsAsDocumented`, `RequestSaysTheCall` and
  `ExactWhenDocumented`.
* Build scripts, packaging and workflows: no behaviour of the running client.

## 6. Plan

Done, in this order: `Interfaces`, `FireboltClient`, `SubscriberLists` and their
proofs; `JsonTypes`, `Calls`, `OpenRpc`, `Exchange` and the proof of `NoHalfRead`;
`Api` with the arguments and structs of the headers; `Gateway`, `AppSession`,
`ComponentTestsMain`, `ComponentTests` and their proofs; the proofs that compare the
headers, the implementation and the document (`RequestSaysTheCall`,
`RequestsAsDocumented`, `ExactWhenDocumented`); the safety half of the liveness
properties (`SweepsCountDown` to `TestsGoForward`).

Left: the matching of responses and timeouts, if the transport's source becomes
available.
