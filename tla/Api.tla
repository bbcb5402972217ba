-------------------------------- MODULE Api --------------------------------
(***************************************************************************)
(* The public headers: the interfaces the accessor gives out, and for each *)
(* interface its requests with their arguments in the order the caller     *)
(* gives them, its notifications, and the C++ types of both.  Constant     *)
(* level: no state.                                                        *)
(*                                                                         *)
(* A request is named by its interface and member function, the            *)
(* notification of subscribeOnX() by its interface and onX.  The types     *)
(* "bool", "double", "string", "uint" (uint32_t, unsigned), "strings" (a   *)
(* vector) and "flatmap" (a map of strings) are the scalars of a struct or *)
(* an argument.  unsubscribe() and unsubscribeAll() are in FireboltClient. *)
(***************************************************************************)
EXTENDS Integers, Sequences

Named(name, type) == [name |-> name, type |-> type, optional |-> FALSE]
Opt(name, type)   == [name |-> name, type |-> type, optional |-> TRUE]

Request(call, args, result) == [call |-> call, args |-> args, result |-> result]
Getter(call, result)        == Request(call, <<>>, result)
Event(call, result)         == [call |-> call, result |-> result]

Header(requests, events) == [requests |-> requests, events |-> events]

-----------------------------------------------------------------------------
(***************************************************************************)
(* The enumerations and the structs, their members in order of             *)
(* declaration: a braced initializer fills them in that order.             *)
(***************************************************************************)
AgePolicyNames == { "ADULT", "CHILD", "TEEN" }

DeviceClassNames == { "STB", "OTT", "TV" }

LifecycleEnums ==
  [LifecycleState |-> { "INITIALIZING", "ACTIVE", "PAUSED", "SUSPENDED", "HIBERNATED",
                        "TERMINATING" },
   CloseType      |-> { "DEACTIVATE", "UNLOAD", "KILL_RELOAD", "KILL_REACTIVATE" }]

ErrorTypeNames == { "Network", "Media", "Restriction", "Entitlement", "Other" }

\* In order of their values, which start at 0.
SpeechStateNames == << "PENDING", "IN_PROGRESS", "PAUSED", "NOT_FOUND" >>

AccessibilityTypes ==
  [ClosedCaptionsSettings |->
     << Named("enabled", "bool"), Named("preferredLanguages", "strings") >>,
   VoiceGuidanceSettings |->
     << Named("enabled", "bool"), Named("rate", "double"), Named("navigationHints", "bool") >>]

IfaType == << Named("ifa", "string"), Named("ifa_type", "string"), Named("lmt", "string") >>

HDRFormatType ==
  << Named("hdr10", "bool"), Named("hdr10Plus", "bool"), Named("dolbyVision", "bool"),
     Named("hlg", "bool") >>

DisplaySizeType == << Named("width", "uint"), Named("height", "uint") >>

StateChangeType ==
  << Named("oldState", "LifecycleState"), Named("newState", "LifecycleState") >>

MemoryInfoType ==
  << Named("userMemoryUsed", "uint"), Named("userMemoryLimit", "uint"),
     Named("gpuMemoryUsed", "uint"), Named("gpuMemoryLimit", "uint") >>

TextToSpeechTypes ==
  [TTSStatusResponse   |-> << Named("ttsStatus", "uint"), Named("success", "bool") >>,
   SpeechIdEvent       |-> << Named("speechId", "uint") >>,
   ListVoicesResponse  |-> << Named("ttsStatus", "uint"), Named("voices", "strings") >>,
   SpeechResponse      |-> << Named("speechId", "uint"), Named("ttsStatus", "uint"),
                              Named("success", "bool") >>,
   SpeechStateResponse |-> << Named("speechState", "SpeechState"), Named("ttsStatus", "uint"),
                              Named("success", "bool") >>]

Structs ==
  [ClosedCaptionsSettings |-> AccessibilityTypes.ClosedCaptionsSettings,
   VoiceGuidanceSettings  |-> AccessibilityTypes.VoiceGuidanceSettings,
   Ifa                    |-> IfaType,
   HDRFormat              |-> HDRFormatType,
   DisplaySize            |-> DisplaySizeType,
   StateChange            |-> StateChangeType,
   MemoryInfo             |-> MemoryInfoType,
   TTSStatusResponse      |-> TextToSpeechTypes.TTSStatusResponse,
   SpeechIdEvent          |-> TextToSpeechTypes.SpeechIdEvent,
   ListVoicesResponse     |-> TextToSpeechTypes.ListVoicesResponse,
   SpeechResponse         |-> TextToSpeechTypes.SpeechResponse,
   SpeechStateResponse    |-> TextToSpeechTypes.SpeechStateResponse]

Enums ==
  [AgePolicy      |-> AgePolicyNames,
   DeviceClass    |-> DeviceClassNames,
   LifecycleState |-> LifecycleEnums.LifecycleState,
   CloseType      |-> LifecycleEnums.CloseType,
   ErrorType      |-> ErrorTypeNames,
   SpeechState    |-> { SpeechStateNames[k] : k \in DOMAIN SpeechStateNames }]

-----------------------------------------------------------------------------
(***************************************************************************)
(* The interfaces.                                                         *)
(***************************************************************************)
IAccessibility ==
  Header({ Getter("Accessibility.audioDescription", "bool"),
           Getter("Accessibility.closedCaptionsSettings", "ClosedCaptionsSettings"),
           Getter("Accessibility.highContrastUI", "bool"),
           Getter("Accessibility.voiceGuidanceSettings", "VoiceGuidanceSettings") },
         { Event("Accessibility.onAudioDescriptionChanged", "bool"),
           Event("Accessibility.onClosedCaptionsSettingsChanged", "ClosedCaptionsSettings"),
           Event("Accessibility.onHighContrastUIChanged", "bool"),
           Event("Accessibility.onVoiceGuidanceSettingsChanged", "VoiceGuidanceSettings") })

IActions ==
  Header({ Getter("Actions.intent", "string") },
         { Event("Actions.onIntent", "string"), Event("Actions.onIntentChanged", "string") })

IAdvertising == Header({ Getter("Advertising.advertisingId", "Ifa") }, {})

IDevice ==
  Header({ Getter("Device.chipsetId", "string"), Getter("Device.deviceClass", "DeviceClass"),
           Getter("Device.hdr", "HDRFormat"), Getter("Device.timeInActiveState", "uint"),
           Getter("Device.uid", "string"), Getter("Device.uptime", "uint") },
         { Event("Device.onHdrChanged", "HDRFormat") })

IDiscovery ==
  Header({ Request(call, << Named("entityId", "string"), Opt("progress", "double"),
                            Opt("completed", "bool"), Opt("watchedOn", "string"),
                            Opt("agePolicy", "AgePolicy") >>, "bool")
             : call \in { "Discovery.watched", "Discovery.watchedV2" } }, {})

IDisplay ==
  Header({ Getter("Display.edid", "string"), Getter("Display.maxResolution", "DisplaySize"),
           Getter("Display.size", "DisplaySize") }, {})

ILifecycle ==
  Header({ Request("Lifecycle.close", << Named("type", "CloseType") >>, "void"),
           Getter("Lifecycle.state", "LifecycleState") },
         { Event("Lifecycle.onStateChanged", "StateChanges") })

ILocalization ==
  Header({ Getter("Localization.country", "string"),
           Getter("Localization.preferredAudioLanguages", "strings"),
           Getter("Localization.presentationLanguage", "string") },
         { Event("Localization.onCountryChanged", "string"),
           Event("Localization.onPreferredAudioLanguagesChanged", "strings"),
           Event("Localization.onPresentationLanguageChanged", "string") })

INetwork ==
  Header({ Getter("Network.connected", "bool") }, { Event("Network.onConnectedChanged", "bool") })

IPresentation ==
  Header({ Getter("Presentation.focused", "bool") },
         { Event("Presentation.onFocusedChanged", "bool") })

IStats == Header({ Getter("Stats.memoryUsage", "MemoryInfo") }, {})

TextToSpeechRequests ==
  { Request("TextToSpeech.listVoices", << Named("language", "string") >>, "ListVoicesResponse"),
    Request("TextToSpeech.speak", << Named("text", "string") >>, "SpeechResponse"),
    Request("TextToSpeech.getSpeechState", << Named("speechId", "uint") >>,
            "SpeechStateResponse") } \union
  { Request(call, << Named("speechId", "uint") >>, "TTSStatusResponse")
      : call \in { "TextToSpeech.pause", "TextToSpeech.resume", "TextToSpeech.cancel" } }

TextToSpeechEvents ==
  { Event(call, "SpeechIdEvent")
      : call \in { "TextToSpeech.onWillSpeak", "TextToSpeech.onSpeechStart",
                   "TextToSpeech.onSpeechPause", "TextToSpeech.onSpeechResume",
                   "TextToSpeech.onSpeechComplete", "TextToSpeech.onSpeechInterrupted",
                   "TextToSpeech.onNetworkError", "TextToSpeech.onPlaybackError" } }

-----------------------------------------------------------------------------
(***************************************************************************)
(* IMetrics, in three parts.  Nothing comes back but success or an error.  *)
(***************************************************************************)
MetricsAppRequests ==
  { Getter(call, "void") : call \in { "Metrics.ready", "Metrics.signIn", "Metrics.signOut" } } \union
  { Request(call, << Opt("entityId", "string"), Opt("agePolicy", "AgePolicy") >>, "void")
      : call \in { "Metrics.startContent", "Metrics.stopContent" } } \union
  { Request("Metrics.page", << Named("pageId", "string"), Opt("agePolicy", "AgePolicy") >>, "void"),
    Request("Metrics.error",
            << Named("type", "ErrorType"), Named("code", "string"), Named("description", "string"),
               Named("visible", "bool"), Opt("parameters", "flatmap"),
               Opt("agePolicy", "AgePolicy") >>, "void") }

MetricsPlaybackRequests ==
  { Request(call, << Named("entityId", "string"), Opt("agePolicy", "AgePolicy") >>, "void")
      : call \in { "Metrics.mediaLoadStart", "Metrics.mediaPlaying", "Metrics.mediaPlay",
                   "Metrics.mediaPause", "Metrics.mediaWaiting" } } \union
  { Request("Metrics.mediaSeeking",
            << Named("entityId", "string"), Named("target", "double"),
               Opt("agePolicy", "AgePolicy") >>, "void"),
    Request("Metrics.mediaSeeked",
            << Named("entityId", "string"), Named("position", "double"),
               Opt("agePolicy", "AgePolicy") >>, "void") }

MetricsStreamRequests ==
  { Request("Metrics.mediaRateChanged",
            << Named("entityId", "string"), Named("rate", "double"),
               Opt("agePolicy", "AgePolicy") >>, "void"),
    Request("Metrics.mediaRenditionChanged",
            << Named("entityId", "string"), Named("bitrate", "uint"), Named("width", "uint"),
               Named("height", "uint"), Opt("profile", "string"),
               Opt("agePolicy", "AgePolicy") >>, "void"),
    Request("Metrics.mediaEnded",
            << Named("entityId", "string"), Opt("agePolicy", "AgePolicy") >>, "void"),
    Request("Metrics.event",
            << Named("schema", "string"), Named("data", "string"),
               Opt("agePolicy", "AgePolicy") >>, "void"),
    Request("Metrics.appInfo", << Named("build", "string") >>, "void") }

-----------------------------------------------------------------------------
\* What IFireboltAccessor gives out: one interface by each ...Interface().
Accessors ==
  { IAccessibility, IActions, IAdvertising, IDevice, IDiscovery, IDisplay, ILifecycle,
    ILocalization, INetwork, IPresentation, IStats,
    Header(TextToSpeechRequests, TextToSpeechEvents),
    Header(MetricsAppRequests \union MetricsPlaybackRequests \union MetricsStreamRequests, {}) }

Requests == UNION { i.requests : i \in Accessors }
EventsDeclared == UNION { i.events : i \in Accessors }
=============================================================================
