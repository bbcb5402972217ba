------------------------------ MODULE OpenRpc ------------------------------
(***************************************************************************)
(* The OpenRPC document of the API, as the reference the client is         *)
(* compared with: for each method its parameters and the schema of its     *)
(* result, and for each schema the JSON values that conform to it.         *)
(* Constant level: no state.  Patterns and formats of strings are left     *)
(* out.                                                                    *)
(***************************************************************************)
EXTENDS JsonTypes

\* The values of the document's string enumerations.
Names ==
  [lmt            |-> {"0", "1"},
   DeviceClass    |-> {"ott", "stb", "tv"},
   CloseType      |-> {"deactivate", "unload", "killReload", "killReactivate"},
   ErrorType      |-> {"network", "media", "restriction", "entitlement", "other"},
   LifecycleState |-> {"initializing", "active", "paused", "suspended",
                       "hibernated", "terminating"}]

\* The enumerator of the client's headers that each text stands for.
EnumeratorOf(text) ==
  CASE text = "ott" -> "OTT" [] text = "stb" -> "STB" [] text = "tv" -> "TV"
    [] text = "initializing" -> "INITIALIZING"
    [] text = "active"       -> "ACTIVE"
    [] text = "paused"       -> "PAUSED"
    [] text = "suspended"    -> "SUSPENDED"
    [] text = "hibernated"   -> "HIBERNATED"
    [] text = "terminating"  -> "TERMINATING"
    [] text = "deactivate" -> "DEACTIVATE" [] text = "unload" -> "UNLOAD"
    [] text = "killReload" -> "KILL_RELOAD" [] text = "killReactivate" -> "KILL_REACTIVATE"
    [] text = "network" -> "Network" [] text = "media" -> "Media"
    [] text = "restriction" -> "Restriction" [] text = "entitlement" -> "Entitlement"
    [] text = "other" -> "Other"
    [] text = "app:adult" -> "ADULT" [] text = "app:child" -> "CHILD" [] text = "app:teen" -> "TEEN"
    [] OTHER -> "none"

\* SPEECH_PENDING and so on, from 0: the numbers of a speech's states.
SpeechStateNumbered(e) ==
  CASE e = "PENDING" -> 0 [] e = "IN_PROGRESS" -> 1 [] e = "PAUSED" -> 2 [] e = "NOT_FOUND" -> 3

Schema(required, properties) == [required |-> required, properties |-> properties]

AllOf(properties) == Schema(DOMAIN properties, properties)

Size == Schema({}, [width |-> "integer", height |-> "integer"])

ObjectSchemas ==
  [ClosedCaptionsSettings |->
     Schema({"enabled"}, [enabled |-> "boolean", preferredLanguages |-> "strings"]),
   VoiceGuidanceSettings |->
     AllOf([enabled |-> "boolean", rate |-> "SpeechRate", navigationHints |-> "boolean"]),
   AdvertisingIdResult |->
     AllOf([ifa |-> "string", ifa_type |-> "string", lmt |-> "lmt"]),
   HDRFormatMap |->
     AllOf([hdr10 |-> "boolean", hdr10Plus |-> "boolean",
            dolbyVision |-> "boolean", hlg |-> "boolean"]),
   Size |-> Size,
   StateChange |->
     Schema({}, [newState |-> "LifecycleState", oldState |-> "LifecycleState"]),
   MemoryUsage |->
     AllOf([userMemoryUsedKiB |-> "integer", userMemoryLimitKiB |-> "integer",
            gpuMemoryUsedKiB  |-> "integer", gpuMemoryLimitKiB  |-> "integer"]),
   ListVoicesResponse |->
     AllOf([TTS_Status |-> "upTo3", voices |-> "strings"]),
   SpeechResponse |->
     AllOf([speechid |-> "integer", TTS_Status |-> "upTo3", success |-> "boolean"]),
   SpeechStateResponse |->
     AllOf([speechstate |-> "upTo3", TTS_Status |-> "upTo3", success |-> "boolean"]),
   TTSStatusResponse |->
     AllOf([TTS_Status |-> "upTo3", success |-> "boolean"]),
   SpeechIdEvent |-> AllOf([speechid |-> "integer"])]

-----------------------------------------------------------------------------
IsNumber(v) == v.t \in {"integer", "float"}

\* Twice the number a JSON number stands for.
Halves(v) == IF v.t = "integer" THEN 2 * v.n ELSE v.halves

IsInteger(v) == IsNumber(v) /\ Halves(v) % 2 = 0

DayLong == 86400   \* seconds

\* The fraction of the content that has been played, or the seconds.
IsMediaPosition(v) ==
  /\ IsNumber(v)
  /\ Halves(v) \in 0 .. 2 * DayLong
  /\ Halves(v) = 1 \/ IsInteger(v)

\* The schemas that are not objects with members of their own.
AtomConforms(s, v) ==
  CASE s \in DOMAIN Names   -> v.t = "string" /\ v.s \in Names[s]
    [] s = "number"         -> IsNumber(v)
    [] s = "not negative"   -> IsNumber(v) /\ Halves(v) >= 0
    [] s = "integer"        -> IsInteger(v)
    [] s = "upTo3"          -> IsInteger(v) /\ Halves(v) \in 0 .. 6
    [] s = "SpeechRate"     -> IsNumber(v) /\ Halves(v) \in 1 .. 20
    [] s = "MediaPosition"  -> IsMediaPosition(v)
    [] s = "strings"        -> v.t = "array" /\ IsStrings(v.items)
    [] s = "FlatMap"        -> /\ v.t = "object"
                               /\ \A f \in DOMAIN v.members :
                                    v.members[f].t \in {"string", "integer", "float", "boolean"}
    [] OTHER                -> v.t = s

ObjectConforms(s, v) ==
  /\ v.t = "object"
  /\ s.required \subseteq DOMAIN v.members
  /\ \A f \in DOMAIN v.members \intersect DOMAIN s.properties :
       AtomConforms(s.properties[f], v.members[f])

Conforms(s, v) ==
  IF s \in DOMAIN ObjectSchemas THEN ObjectConforms(ObjectSchemas[s], v)
  ELSE IF s = "history"
       THEN /\ v.t = "array"
            /\ Len(v.items) > 0
            /\ \A k \in DOMAIN v.items :
                 ObjectConforms(ObjectSchemas.StateChange, v.items[k])
       ELSE AtomConforms(s, v)

-----------------------------------------------------------------------------
(***************************************************************************)
(* The methods of the document.                                            *)
(***************************************************************************)
Nothing == [p \in {} |-> "null"]
Policy  == [agePolicy |-> "string"]

\* Both tables in one; they name different parameters.
Joined(f, g) == [p \in DOMAIN f \union DOMAIN g |-> IF p \in DOMAIN f THEN f[p] ELSE g[p]]

Method(m, required, optional, result) ==
  [method |-> m, params |-> Schema(DOMAIN required, Joined(required, optional)), result |-> result]

Gives(m, result) == Method(m, Nothing, Nothing, result)

GetterMethods ==
  { Gives(m, "boolean")
      : m \in { "Accessibility.audioDescription", "Accessibility.highContrastUI",
                "Network.connected", "Presentation.focused" } } \union
  { Gives(m, "string")
      : m \in { "Actions.intent", "Device.uid", "Device.chipsetId", "Display.edid",
                "Localization.country", "Localization.presentationLanguage" } } \union
  { Gives(m, "number") : m \in { "Device.uptime", "Device.timeInActiveState" } } \union
  { Gives(m, "Size")   : m \in { "Display.size", "Display.maxResolution" } } \union
  { Gives("Accessibility.closedCaptionsSettings", "ClosedCaptionsSettings"),
    Gives("Accessibility.voiceGuidanceSettings", "VoiceGuidanceSettings"),
    Gives("Advertising.advertisingId", "AdvertisingIdResult"),
    Gives("Device.deviceClass", "DeviceClass"),
    Gives("Device.hdr", "HDRFormatMap"),
    Gives("Lifecycle2.state", "LifecycleState"),
    Gives("Localization.preferredAudioLanguages", "strings"),
    Gives("Stats.memoryUsage", "MemoryUsage") }

WatchedDetails ==
  [progress |-> "not negative", completed |-> "boolean", watchedOn |-> "string",
   agePolicy |-> "string"]

DiscoveryMethods ==
  { Method(m, [entityId |-> "string"], WatchedDetails, "boolean")
      : m \in { "Discovery.watched", "Discovery.watchedV2" } }

ErrorReport ==
  [type |-> "ErrorType", code |-> "string", description |-> "string", visible |-> "boolean"]

Rendition ==
  [entityId |-> "string", bitrate |-> "number", width |-> "number", height |-> "number"]

MetricsMethods ==
  { Gives(m, "null") : m \in { "Metrics.ready", "Metrics.signIn", "Metrics.signOut" } } \union
  { Method(m, Nothing, [entityId |-> "string", agePolicy |-> "string"], "null")
      : m \in { "Metrics.startContent", "Metrics.stopContent" } } \union
  { Method(m, [entityId |-> "string"], Policy, "null")
      : m \in { "Metrics.mediaLoadStart", "Metrics.mediaPlay", "Metrics.mediaPlaying",
                "Metrics.mediaPause", "Metrics.mediaWaiting", "Metrics.mediaEnded" } } \union
  { Method("Metrics.page", [pageId |-> "string"], Policy, "null"),
    Method("Metrics.error", ErrorReport, [parameters |-> "FlatMap", agePolicy |-> "string"],
           "null"),
    Method("Metrics.mediaSeeking",
           [entityId |-> "string", target |-> "MediaPosition"], Policy, "null"),
    Method("Metrics.mediaSeeked",
           [entityId |-> "string", position |-> "MediaPosition"], Policy, "null"),
    Method("Metrics.mediaRateChanged",
           [entityId |-> "string", rate |-> "number"], Policy, "null"),
    Method("Metrics.mediaRenditionChanged", Rendition,
           [profile |-> "string", agePolicy |-> "string"], "null"),
    Method("Metrics.event", [schema |-> "string", data |-> "string"], Policy, "null"),
    Method("Metrics.appInfo", [build |-> "string"], Nothing, "null") }

TextToSpeechMethods ==
  { Method(m, [speechid |-> "integer"], Nothing, "TTSStatusResponse")
      : m \in { "TextToSpeech.pause", "TextToSpeech.resume", "TextToSpeech.cancel" } } \union
  { Method("TextToSpeech.speak", [text |-> "string"], Nothing, "SpeechResponse"),
    Method("TextToSpeech.getspeechstate", [speechid |-> "integer"], Nothing,
           "SpeechStateResponse"),
    Method("TextToSpeech.listvoices", [language |-> "string"], Nothing, "ListVoicesResponse") }

Methods ==
  GetterMethods \union DiscoveryMethods \union MetricsMethods \union TextToSpeechMethods \union
  { Method("Lifecycle2.close", [type |-> "CloseType"], Nothing, "null") }

\* A notification and the schema of the value it carries; the settings, which
\* the document spells out member by member, as the getter's result.
Carries(m, result) == [method |-> m, result |-> result]

Events ==
  { Carries(m, "boolean")
      : m \in { "Accessibility.onAudioDescriptionChanged",
                "Accessibility.onHighContrastUIChanged", "Network.onConnectedChanged",
                "Presentation.onFocusedChanged" } } \union
  { Carries(m, "string")
      : m \in { "Actions.onIntent", "Localization.onCountryChanged",
                "Localization.onPresentationLanguageChanged" } } \union
  { Carries(m, "SpeechIdEvent")
      : m \in { "TextToSpeech.onWillspeak", "TextToSpeech.onSpeechstart",
                "TextToSpeech.onSpeechpause", "TextToSpeech.onSpeechresume",
                "TextToSpeech.onSpeechcomplete", "TextToSpeech.onSpeechinterrupted",
                "TextToSpeech.onNetworkerror", "TextToSpeech.onPlaybackerror" } } \union
  { Carries("Accessibility.onClosedCaptionsSettingsChanged", "ClosedCaptionsSettings"),
    Carries("Accessibility.onVoiceGuidanceSettingsChanged", "VoiceGuidanceSettings"),
    Carries("Device.onHdrChanged", "HDRFormatMap"),
    Carries("Lifecycle2.onStateChanged", "history"),
    Carries("Localization.onPreferredAudioLanguagesChanged", "strings") }

-----------------------------------------------------------------------------
(***************************************************************************)
(* The names of the document for what the client's headers name otherwise. *)
(***************************************************************************)
DocumentedName(call) ==
  CASE call = "Lifecycle.close"                  -> "Lifecycle2.close"
    [] call = "Lifecycle.state"                  -> "Lifecycle2.state"
    [] call = "Lifecycle.onStateChanged"         -> "Lifecycle2.onStateChanged"
    [] call = "Actions.onIntentChanged"          -> "Actions.onIntent"
    [] call = "TextToSpeech.listVoices"          -> "TextToSpeech.listvoices"
    [] call = "TextToSpeech.getSpeechState"      -> "TextToSpeech.getspeechstate"
    [] call = "TextToSpeech.onWillSpeak"         -> "TextToSpeech.onWillspeak"
    [] call = "TextToSpeech.onSpeechStart"       -> "TextToSpeech.onSpeechstart"
    [] call = "TextToSpeech.onSpeechPause"       -> "TextToSpeech.onSpeechpause"
    [] call = "TextToSpeech.onSpeechResume"      -> "TextToSpeech.onSpeechresume"
    [] call = "TextToSpeech.onSpeechComplete"    -> "TextToSpeech.onSpeechcomplete"
    [] call = "TextToSpeech.onSpeechInterrupted" -> "TextToSpeech.onSpeechinterrupted"
    [] call = "TextToSpeech.onNetworkError"      -> "TextToSpeech.onNetworkerror"
    [] call = "TextToSpeech.onPlaybackError"     -> "TextToSpeech.onPlaybackerror"
    [] OTHER                                     -> call

\* Of a parameter, and of a member of a result.
DocumentedMember(name) ==
  CASE name = "speechId"        -> "speechid"
    [] name = "speechState"     -> "speechstate"
    [] name = "ttsStatus"       -> "TTS_Status"
    [] name = "userMemoryUsed"  -> "userMemoryUsedKiB"
    [] name = "userMemoryLimit" -> "userMemoryLimitKiB"
    [] name = "gpuMemoryUsed"   -> "gpuMemoryUsedKiB"
    [] name = "gpuMemoryLimit"  -> "gpuMemoryLimitKiB"
    [] OTHER                    -> name
=============================================================================
