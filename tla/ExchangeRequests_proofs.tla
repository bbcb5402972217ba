----------------------- MODULE ExchangeRequests_proofs -----------------------
(***************************************************************************)
(* Theorem about the requests of Exchange: each says what it was called    *)
(* for, whatever the arguments.  The tables of the headers (Api) and of    *)
(* the implementation (Calls) are compared with a third one, SendsOf,      *)
(* interface by interface.                                                 *)
(***************************************************************************)
EXTENDS Exchange, TLAPS

\* The parameters of each request, by their documented names, in the order of
\* its arguments.
SendsOf(m) ==
  CASE m \in {"Discovery.watched", "Discovery.watchedV2"} ->
         << "entityId", "progress", "completed", "watchedOn", "agePolicy" >>
    [] m = "Lifecycle.close"         -> << "type" >>
    [] m = "TextToSpeech.listVoices" -> << "language" >>
    [] m = "TextToSpeech.speak"      -> << "text" >>
    [] m \in {"TextToSpeech.pause", "TextToSpeech.resume", "TextToSpeech.cancel",
                 "TextToSpeech.getSpeechState"} -> << "speechid" >>
    [] m \in {"Metrics.startContent", "Metrics.stopContent", "Metrics.mediaLoadStart",
                 "Metrics.mediaPlay", "Metrics.mediaPlaying", "Metrics.mediaPause",
                 "Metrics.mediaWaiting", "Metrics.mediaEnded"} -> << "entityId", "agePolicy" >>
    [] m = "Metrics.page" -> << "pageId", "agePolicy" >>
    [] m = "Metrics.error" ->
         << "type", "code", "description", "visible", "parameters", "agePolicy" >>
    [] m = "Metrics.mediaSeeking"     -> << "entityId", "target", "agePolicy" >>
    [] m = "Metrics.mediaSeeked"      -> << "entityId", "position", "agePolicy" >>
    [] m = "Metrics.mediaRateChanged" -> << "entityId", "rate", "agePolicy" >>
    [] m = "Metrics.mediaRenditionChanged" ->
         << "entityId", "bitrate", "width", "height", "profile", "agePolicy" >>
    [] m = "Metrics.event"   -> << "schema", "data", "agePolicy" >>
    [] m = "Metrics.appInfo" -> << "build" >>
    [] OTHER -> << >>

\* What the implementation makes of a member function of the headers.
Agrees(c) == c.method = DocumentedName(c.call) /\ c.sends = SendsOf(c.call)

\* The arguments that a header declares are those of SendsOf.
Declares(r) ==
  /\ DOMAIN r.args = DOMAIN SendsOf(r.call)
  /\ \A k \in DOMAIN r.args : DocumentedMember(r.args[k].name) = SendsOf(r.call)[k]

\* No name is sent twice.
LEMMA SendsInjective ==
  ASSUME NEW m, NEW i \in DOMAIN SendsOf(m), NEW j \in DOMAIN SendsOf(m),
         SendsOf(m)[i] = SendsOf(m)[j]
  PROVE  i = j
BY DEF SendsOf

\* What each interface sends is what its header declares.
LEMMA CallsAgree == \A c \in Calls : Agrees(c)
<1> USE DEF Agrees, Get, Same, Call, SendsOf, DocumentedName
<1>1. \A c \in AccessibilityCalls : Agrees(c)
  BY DEF AccessibilityCalls
<1>2. \A c \in ActionsCalls : Agrees(c)
  BY DEF ActionsCalls
<1>3. \A c \in AdvertisingCalls : Agrees(c)
  BY DEF AdvertisingCalls
<1>4. \A c \in DeviceCalls : Agrees(c)
  BY DEF DeviceCalls
<1>5. \A c \in DiscoveryCalls : Agrees(c)
  BY DEF DiscoveryCalls
<1>6. \A c \in DisplayCalls : Agrees(c)
  BY DEF DisplayCalls
<1>7. \A c \in LifecycleCalls : Agrees(c)
  BY DEF LifecycleCalls
<1>8. \A c \in LocalizationCalls : Agrees(c)
  BY DEF LocalizationCalls
<1>9. \A c \in NetworkCalls : Agrees(c)
  BY DEF NetworkCalls
<1>10. \A c \in PresentationCalls : Agrees(c)
  BY DEF PresentationCalls
<1>11. \A c \in StatsCalls : Agrees(c)
  BY DEF StatsCalls
<1>12. \A c \in TextToSpeechCalls : Agrees(c)
  BY DEF TextToSpeechCalls
<1>13. \A c \in MetricsPlainCalls : Agrees(c)
  BY DEF MetricsPlainCalls
<1>14. \A c \in MetricsContentCalls : Agrees(c)
  BY DEF MetricsContentCalls
<1>15. \A c \in MetricsPageCalls : Agrees(c)
  BY DEF MetricsPageCalls
<1>16. \A c \in MetricsErrorCalls : Agrees(c)
  BY DEF MetricsErrorCalls
<1>17. \A c \in MetricsMediaCalls : Agrees(c)
  BY DEF MetricsMediaCalls
<1>18. \A c \in MetricsSeekCalls : Agrees(c)
  <2>1. /\ SendsOf("Metrics.mediaSeeking") = << "entityId", "target", "agePolicy" >>
        /\ SendsOf("Metrics.mediaSeeked") = << "entityId", "position", "agePolicy" >>
    OBVIOUS
  <2>2. \A m \in { "Metrics.mediaSeeking", "Metrics.mediaSeeked" } : DocumentedName(m) = m
    OBVIOUS
  <2> HIDE DEF SendsOf, DocumentedName
  <2> QED
    BY <2>1, <2>2 DEF MetricsSeekCalls
<1>19. \A c \in MetricsRateCalls : Agrees(c)
  BY DEF MetricsRateCalls
<1>20. \A c \in MetricsLastCalls : Agrees(c)
  BY DEF MetricsLastCalls
<1> HIDE DEF Agrees
<1> QED
  BY <1>1, <1>2, <1>3, <1>4, <1>5, <1>6, <1>7, <1>8, <1>9, <1>10,
     <1>11, <1>12, <1>13, <1>14, <1>15, <1>16, <1>17, <1>18, <1>19, <1>20 DEF Calls

\* The events, by the names of the headers.
EventCalls ==
  { "Accessibility.onAudioDescriptionChanged", "Accessibility.onClosedCaptionsSettingsChanged",
    "Accessibility.onHighContrastUIChanged", "Accessibility.onVoiceGuidanceSettingsChanged",
    "Actions.onIntent", "Actions.onIntentChanged", "Device.onHdrChanged",
    "Lifecycle.onStateChanged", "Localization.onCountryChanged",
    "Localization.onPreferredAudioLanguagesChanged", "Localization.onPresentationLanguageChanged",
    "Network.onConnectedChanged", "Presentation.onFocusedChanged" } \union
  { e.call : e \in TextToSpeechEvents }

\* Every header declares the arguments of its requests in the order of SendsOf;
\* no request has the name of an event.
LEMMA HeadersDeclare ==
  ASSUME NEW i \in Accessors
  PROVE  /\ \A r \in i.requests : Declares(r) /\ r.call \notin EventCalls
         /\ \A e \in i.events : e.call \in EventCalls
<1> DEFINE Fits(h) == /\ \A r \in h.requests : Declares(r) /\ r.call \notin EventCalls
                      /\ \A e \in h.events : e.call \in EventCalls
<1> USE DEF Header, Getter, Request, Event, Declares, SendsOf, Named, Opt, DocumentedMember,
            EventCalls, TextToSpeechEvents
<1>1. Fits(IAccessibility)
  BY DEF IAccessibility
<1>2. Fits(IActions)
  BY DEF IActions
<1>3. Fits(IAdvertising)
  BY DEF IAdvertising
<1>4. Fits(IDevice)
  BY DEF IDevice
<1>5. Fits(IDiscovery)
  BY DEF IDiscovery
<1>6. Fits(IDisplay)
  BY DEF IDisplay
<1>7. Fits(ILifecycle)
  BY DEF ILifecycle
<1>8. Fits(ILocalization)
  BY DEF ILocalization
<1>9. Fits(INetwork)
  BY DEF INetwork
<1>10. Fits(IPresentation)
  BY DEF IPresentation
<1>11. Fits(IStats)
  BY DEF IStats
<1>12. Fits(Header(TextToSpeechRequests, TextToSpeechEvents))
  BY DEF TextToSpeechRequests
<1>13. \A r \in MetricsAppRequests : Declares(r) /\ r.call \notin EventCalls
  <2>1. /\ \A m \in { "Metrics.ready", "Metrics.signIn", "Metrics.signOut" } : SendsOf(m) = <<>>
        /\ SendsOf("Metrics.startContent") = << "entityId", "agePolicy" >>
        /\ SendsOf("Metrics.stopContent") = << "entityId", "agePolicy" >>
        /\ SendsOf("Metrics.page") = << "pageId", "agePolicy" >>
        /\ SendsOf("Metrics.error")
             = << "type", "code", "description", "visible", "parameters", "agePolicy" >>
    OBVIOUS
  <2>2. \A r \in MetricsAppRequests : r.call \notin EventCalls
    BY DEF MetricsAppRequests
  <2> HIDE DEF SendsOf, EventCalls
  <2>3. \A r \in MetricsAppRequests : Declares(r)
    BY <2>1 DEF MetricsAppRequests
  <2> QED
    BY <2>2, <2>3
<1>14. \A r \in MetricsPlaybackRequests : Declares(r) /\ r.call \notin EventCalls
  <2>1. /\ \A m \in { "Metrics.mediaLoadStart", "Metrics.mediaPlaying", "Metrics.mediaPlay",
                      "Metrics.mediaPause", "Metrics.mediaWaiting" } :
             SendsOf(m) = << "entityId", "agePolicy" >>
        /\ SendsOf("Metrics.mediaSeeking") = << "entityId", "target", "agePolicy" >>
        /\ SendsOf("Metrics.mediaSeeked") = << "entityId", "position", "agePolicy" >>
    OBVIOUS
  <2>2. \A r \in MetricsPlaybackRequests : r.call \notin EventCalls
    BY DEF MetricsPlaybackRequests
  <2> HIDE DEF SendsOf, EventCalls
  <2>3. \A r \in MetricsPlaybackRequests : Declares(r)
    BY <2>1 DEF MetricsPlaybackRequests
  <2> QED
    BY <2>2, <2>3
<1>15. \A r \in MetricsStreamRequests : Declares(r) /\ r.call \notin EventCalls
  <2>1. /\ SendsOf("Metrics.mediaRateChanged") = << "entityId", "rate", "agePolicy" >>
        /\ SendsOf("Metrics.mediaRenditionChanged")
             = << "entityId", "bitrate", "width", "height", "profile", "agePolicy" >>
        /\ SendsOf("Metrics.mediaEnded") = << "entityId", "agePolicy" >>
        /\ SendsOf("Metrics.event") = << "schema", "data", "agePolicy" >>
        /\ SendsOf("Metrics.appInfo") = << "build" >>
    OBVIOUS
  <2>2. \A r \in MetricsStreamRequests : r.call \notin EventCalls
    BY DEF MetricsStreamRequests
  <2> HIDE DEF SendsOf, EventCalls
  <2>3. \A r \in MetricsStreamRequests : Declares(r)
    BY <2>1 DEF MetricsStreamRequests
  <2> QED
    BY <2>2, <2>3
<1>16. Fits(Header(MetricsAppRequests \union MetricsPlaybackRequests \union MetricsStreamRequests, {}))
  BY <1>13, <1>14, <1>15
<1> HIDE DEF Fits
<1>17. Fits(i)
  BY <1>1, <1>2, <1>3, <1>4, <1>5, <1>6, <1>7, <1>8, <1>9, <1>10, <1>11, <1>12, <1>16
     DEF Accessors
<1> QED
  BY <1>17 DEF Fits

\* What the headers declare, all together.
LEMMA RequestsDeclare == \A r \in Requests : Declares(r) /\ r.call \notin EventCalls
BY HeadersDeclare DEF Requests

\* Every event of the headers has the name of one.
LEMMA EventsNamed == \A e \in EventsDeclared : e.call \in EventCalls
BY HeadersDeclare DEF EventsDeclared

-----------------------------------------------------------------------------
(***************************************************************************)
(* The text of an enumerator.                                              *)
(***************************************************************************)
\* The table's text for an enumerator of the header is the document's for it.
Textual(type, enum) ==
  \A e \in Enums[type] :
    LET a == Enumerator(e)
    IN  \E p \in enum : /\ ToText(enum, a) = Str(p[1]) /\ e = EnumeratorOf(p[1])

\* An enumerator with one entry in its table is written as that entry's text.
LEMMA ToTextEntry ==
  ASSUME NEW enum, NEW p \in enum, \A q \in enum : q[2] = p[2] => q = p
  PROVE  ToText(enum, Enumerator(p[2])) = Str(p[1])
<1> DEFINE entries == { q \in enum : Enumerator(p[2]) = Enumerator(q[2]) }
<1>1. \A q \in enum : Enumerator(p[2]) = Enumerator(q[2]) <=> q[2] = p[2]
  BY DEF Enumerator
<1>2. entries = {p}
  BY <1>1
<1>3. entries # {} /\ (CHOOSE q \in entries : TRUE) = p
  BY <1>2
<1> HIDE DEF entries
<1> QED
  BY <1>3 DEF ToText, entries

\* Every enumerator of the three enumerations that are arguments has a text.
LEMMA EnumeratorsTextual ==
  /\ Textual("AgePolicy", AgePolicyEnum)
  /\ Textual("CloseType", CloseReasonEnum)
  /\ Textual("ErrorType", ErrorTypeEnum)
<1>1. Textual("AgePolicy", AgePolicyEnum)
  <2>1. \A p, q \in AgePolicyEnum : q[2] = p[2] => q = p
    BY DEF AgePolicyEnum
  <2>2. \A e \in Enums["AgePolicy"] : \E p \in AgePolicyEnum : e = p[2] /\ e = EnumeratorOf(p[1])
    BY DEF Enums, AgePolicyNames, AgePolicyEnum, EnumeratorOf
  <2> QED
    BY <2>1, <2>2, ToTextEntry DEF Textual
<1>2. Textual("CloseType", CloseReasonEnum)
  <2>1. \A p, q \in CloseReasonEnum : q[2] = p[2] => q = p
    BY DEF CloseReasonEnum
  <2>2. \A e \in Enums["CloseType"] : \E p \in CloseReasonEnum : e = p[2] /\ e = EnumeratorOf(p[1])
    BY DEF Enums, LifecycleEnums, CloseReasonEnum, EnumeratorOf
  <2> QED
    BY <2>1, <2>2, ToTextEntry DEF Textual
<1>3. Textual("ErrorType", ErrorTypeEnum)
  <2>1. \A p, q \in ErrorTypeEnum : q[2] = p[2] => q = p
    BY DEF ErrorTypeEnum
  <2>2. \A e \in Enums["ErrorType"] : \E p \in ErrorTypeEnum : e = p[2] /\ e = EnumeratorOf(p[1])
    BY DEF Enums, ErrorTypeNames, ErrorTypeEnum, EnumeratorOf
  <2> QED
    BY <2>1, <2>2, ToTextEntry DEF Textual
<1> QED
  BY <1>1, <1>2, <1>3

\* What an argument is put into the parameters as means the argument.
LEMMA EncodeMeans ==
  ASSUME NEW type, NEW a \in Arguments[type]
  PROVE  AtomMeans(a, Encode(type, a))
<1>1. ASSUME NEW enum, type \in {"AgePolicy", "CloseType", "ErrorType"},
             Textual(type, enum), Encode(type, a) = ToText(enum, a)
      PROVE  AtomMeans(a, Encode(type, a))
  <2>1. PICK e \in Enums[type] : a = Enumerator(e)
    BY <1>1, ArgumentsAssumption
  <2>2. PICK p \in enum : ToText(enum, a) = Str(p[1]) /\ e = EnumeratorOf(p[1])
    BY <1>1, <2>1 DEF Textual
  <2> QED
    BY <1>1, <2>1, <2>2 DEF AtomMeans, Enumerator, Str
<1>2. CASE type = "AgePolicy"
  BY <1>1, <1>2, EnumeratorsTextual DEF Encode
<1>3. CASE type = "CloseType"
  BY <1>1, <1>3, EnumeratorsTextual DEF Encode
<1>4. CASE type = "ErrorType"
  BY <1>1, <1>4, EnumeratorsTextual DEF Encode
<1>5. CASE type \notin {"AgePolicy", "CloseType", "ErrorType"}
  BY <1>5 DEF Encode, AtomMeans
<1> QED
  BY <1>2, <1>3, <1>4, <1>5

-----------------------------------------------------------------------------
(***************************************************************************)
(* The request that is out.                                                *)
(***************************************************************************)
\* While a request is out, it is one of the calls with its arguments, and the
\* message is made of them.
InvokedWith(c, r) ==
  /\ call = c /\ r.call = c.call
  /\ given \in ArgumentLists(r.args)
  /\ message = Parameters(r.args, c.sends, given)

Invoked == stage = "sent" => \E c \in Calls, r \in Requests : InvokedWith(c, r)

\* A request that is out has been made by Invoke.
LEMMA InvokedAlways == Spec => []Invoked
<1>1. Init => Invoked
  BY DEF Init, Invoked
<1>2. Invoked /\ [Next]_vars => Invoked'
  <2> SUFFICES ASSUME Invoked, [Next]_vars PROVE Invoked'
    OBVIOUS
  <2>1. CASE Invoke
    BY <2>1 DEF Invoke, Invoked, InvokedWith
  <2>2. CASE Answer \/ NoAnswer \/ Notice \/ Settle
    BY <2>2 DEF Answer, NoAnswer, Notice, Settle, Invoked
  <2>3. CASE UNCHANGED vars
    BY <2>3 DEF vars, Invoked, InvokedWith
  <2> QED
    BY <2>1, <2>2, <2>3 DEF Next
<1> QED
  BY <1>1, <1>2, PTL DEF Spec

\* Each argument that is given, and no other, is sent under the name at its
\* position.
LEMMA ParametersSay ==
  ASSUME NEW args, NEW sends, NEW q, DOMAIN q = DOMAIN sends,
         \A i, j \in DOMAIN sends : sends[i] = sends[j] => i = j,
         message = Parameters(args, sends, q),
         NEW k \in DOMAIN q
  PROVE  IF q[k] = Absent THEN sends[k] \notin DOMAIN Sent.members
         ELSE /\ sends[k] \in DOMAIN Sent.members
              /\ Sent.members[sends[k]] = Encode(args[k].type, q[k])
<1> DEFINE sent == { i \in DOMAIN q : q[i] # Absent }
           at(p) == CHOOSE i \in sent : sends[i] = p
           members == [p \in { sends[i] : i \in sent } |-> Encode(args[at(p)].type, q[at(p)])]
<1>1. CASE sent = {}
  <2>1. message = Null
    BY <1>1 DEF Parameters
  <2>2. DOMAIN Sent.members = {}
    BY <2>1 DEF Sent, Obj, Nothing
  <2> QED
    BY <1>1, <2>2
<1>2. CASE sent # {}
  <2>1. message = Obj(members)
    BY <1>2 DEF Parameters
  <2>2. Sent.members = members
    BY <2>1 DEF Sent, Obj, Null
  <2>3. ASSUME q[k] # Absent PROVE at(sends[k]) = k
    BY <2>3
  <2> HIDE DEF at
  <2>4. CASE q[k] = Absent
    BY <2>2, <2>4
  <2>5. CASE q[k] # Absent
    BY <2>2, <2>3, <2>5
  <2> QED
    BY <2>4, <2>5
<1> QED
  BY <1>1, <1>2

\* What the header declares of a call is a request.
LEMMA DeclaredRequest ==
  ASSUME NEW r \in Requests, r.call = call.call
  PROVE  Declared \in Requests /\ Declared.call = call.call
<1>1. \E d \in Requests \union EventsDeclared : d.call = call.call
  OBVIOUS
<1>2. Declared \in Requests \union EventsDeclared /\ Declared.call = call.call
  BY <1>1 DEF Declared
<1>3. r.call \notin EventCalls
  BY RequestsDeclare
<1> QED
  BY <1>2, <1>3, EventsNamed

\* A request says what it was called for, for all arguments of any call: the
\* member's documented method, and each argument under its documented name.
THEOREM RequestSaysTheCallAlways == Spec => []RequestSaysTheCall
<1>1. Invoked => RequestSaysTheCall
  <2> SUFFICES ASSUME Invoked, stage = "sent"
               PROVE  /\ call.method = DocumentedName(call.call)
                      /\ \A k \in DOMAIN given :
                           LET name == DocumentedMember(Declared.args[k].name)
                           IN  IF given[k] = Absent THEN name \notin DOMAIN Sent.members
                               ELSE /\ name \in DOMAIN Sent.members
                                    /\ AtomMeans(given[k], Sent.members[name])
    BY DEF RequestSaysTheCall
  <2>1. PICK c \in Calls, r \in Requests : InvokedWith(c, r)
    BY DEF Invoked
  <2>2. call = c /\ Agrees(c) /\ r.call = c.call /\ Declares(r)
    BY <2>1, CallsAgree, RequestsDeclare DEF InvokedWith
  <2>3. Declared \in Requests /\ Declared.call = c.call
    BY <2>1, <2>2, DeclaredRequest
  <2>4. Declares(Declared)
    BY <2>3, RequestsDeclare
  <2>5. DOMAIN given = DOMAIN r.args /\ DOMAIN r.args = DOMAIN c.sends
    BY <2>1, <2>2 DEF InvokedWith, ArgumentLists, Agrees, Declares
  <2> SUFFICES ASSUME NEW k \in DOMAIN given
               PROVE  LET name == DocumentedMember(Declared.args[k].name)
                      IN  IF given[k] = Absent THEN name \notin DOMAIN Sent.members
                          ELSE /\ name \in DOMAIN Sent.members
                               /\ AtomMeans(given[k], Sent.members[name])
    BY <2>2 DEF Agrees
  <2>6. DocumentedMember(Declared.args[k].name) = c.sends[k]
    BY <2>2, <2>3, <2>4, <2>5 DEF Agrees, Declares
  <2>7. \A i, j \in DOMAIN c.sends : c.sends[i] = c.sends[j] => i = j
    BY <2>2, SendsInjective DEF Agrees
  <2>8. IF given[k] = Absent THEN c.sends[k] \notin DOMAIN Sent.members
        ELSE /\ c.sends[k] \in DOMAIN Sent.members
             /\ Sent.members[c.sends[k]] = Encode(r.args[k].type, given[k])
    BY <2>1, <2>5, <2>7, ParametersSay DEF InvokedWith
  <2>9. given[k] # Absent => given[k] \in Arguments[r.args[k].type]
    BY <2>1, <2>5 DEF InvokedWith, ArgumentLists
  <2>10. given[k] # Absent => AtomMeans(given[k], Encode(r.args[k].type, given[k]))
    BY <2>9, EncodeMeans
  <2> QED
    BY <2>6, <2>8, <2>10
<1> QED
  BY <1>1, InvokedAlways, PTL
=============================================================================
