------------------------------- MODULE Calls -------------------------------
(***************************************************************************)
(* What the implementation classes make of the members of the interfaces:  *)
(* the JSON-RPC method a request names, the parameter it sends each of its *)
(* arguments as, in the order of the arguments, and the JSON type it reads *)
(* the answer with ("void" where the answer is not read).                  *)
(***************************************************************************)
EXTENDS JsonTypes

Call(call, m, sends, result) == [call |-> call, method |-> m, sends |-> sends, result |-> result]

\* The request of a member function that has the method's own name.
Same(m, sends, result) == Call(m, m, sends, result)
Get(m, result)         == Same(m, <<>>, result)

-----------------------------------------------------------------------------
AccessibilityCalls ==
  { Get("Accessibility.audioDescription", "bool"),
    Get("Accessibility.closedCaptionsSettings", "ClosedCaptionsSettings"),
    Get("Accessibility.highContrastUI", "bool"),
    Get("Accessibility.voiceGuidanceSettings", "VoiceGuidanceSettings") }

ActionsCalls     == { Get("Actions.intent", "string") }
AdvertisingCalls == { Get("Advertising.advertisingId", "IfaJson") }

DeviceCalls ==
  { Get("Device.chipsetId", "string"),
    Get("Device.deviceClass", "DeviceClass"),
    Get("Device.hdr", "HDRFormat"),
    Get("Device.timeInActiveState", "uint"),
    Get("Device.uid", "string"),
    Get("Device.uptime", "uint") }

DiscoveryCalls ==
  { Same(m, << "entityId", "progress", "completed", "watchedOn", "agePolicy" >>, "bool")
    : m \in {"Discovery.watched", "Discovery.watchedV2"} }

DisplayCalls ==
  { Get("Display.edid", "string"),
    Get("Display.maxResolution", "DisplaySizeJson"),
    Get("Display.size", "DisplaySizeJson") }

LifecycleCalls ==
  { Call("Lifecycle.close", "Lifecycle2.close", << "type" >>, "void"),
    Call("Lifecycle.state", "Lifecycle2.state", <<>>, "LifecycleState") }

LocalizationCalls ==
  { Get("Localization.country", "string"),
    Get("Localization.preferredAudioLanguages", "strings"),
    Get("Localization.presentationLanguage", "string") }

NetworkCalls      == { Get("Network.connected", "bool") }
PresentationCalls == { Get("Presentation.focused", "bool") }
StatsCalls        == { Get("Stats.memoryUsage", "MemoryInfo") }

TextToSpeechCalls ==
  { Call("TextToSpeech.listVoices", "TextToSpeech.listvoices", << "language" >>,
         "ListVoicesResponse"),
    Same("TextToSpeech.speak", << "text" >>, "SpeechResponse"),
    Same("TextToSpeech.pause", << "speechid" >>, "TTSStatusResponse"),
    Same("TextToSpeech.resume", << "speechid" >>, "TTSStatusResponse"),
    Same("TextToSpeech.cancel", << "speechid" >>, "TTSStatusResponse"),
    Call("TextToSpeech.getSpeechState", "TextToSpeech.getspeechstate", << "speechid" >>,
         "SpeechStateResponse") }

-----------------------------------------------------------------------------
(***************************************************************************)
(* Metrics: nothing but requests whose answer is not read.                 *)
(***************************************************************************)
MetricsPlainCalls ==
  { Get(m, "void") : m \in {"Metrics.ready", "Metrics.signIn", "Metrics.signOut"} }

MetricsContentCalls ==
  { Same(m, << "entityId", "agePolicy" >>, "void")
    : m \in {"Metrics.startContent", "Metrics.stopContent"} }

MetricsPageCalls == { Same("Metrics.page", << "pageId", "agePolicy" >>, "void") }

\* A bug of MetricsErrorCalls: the code and its description change places.
MetricsErrorCallsSwapped ==
  { Same("Metrics.error",
         << "type", "description", "code", "visible", "parameters", "agePolicy" >>, "void") }

MetricsErrorCalls ==
  { Same("Metrics.error",
         << "type", "code", "description", "visible", "parameters", "agePolicy" >>, "void") }

MetricsMediaCalls ==
  { Same(m, << "entityId", "agePolicy" >>, "void")
    : m \in {"Metrics.mediaLoadStart", "Metrics.mediaPlay", "Metrics.mediaPlaying",
             "Metrics.mediaPause", "Metrics.mediaWaiting"} }

\* A bug of MetricsSeekCalls: mediaSeeked was copied from mediaSeeking.
MetricsSeekCallsCopied ==
  { Same(m, << "entityId", "target", "agePolicy" >>, "void")
    : m \in {"Metrics.mediaSeeking", "Metrics.mediaSeeked"} }

MetricsSeekCalls ==
  { Same("Metrics.mediaSeeking", << "entityId", "target", "agePolicy" >>, "void"),
    Same("Metrics.mediaSeeked", << "entityId", "position", "agePolicy" >>, "void") }

MetricsRateCalls ==
  { Same("Metrics.mediaRateChanged", << "entityId", "rate", "agePolicy" >>, "void"),
    Same("Metrics.mediaRenditionChanged",
         << "entityId", "bitrate", "width", "height", "profile", "agePolicy" >>, "void") }

MetricsLastCalls ==
  { Same("Metrics.mediaEnded", << "entityId", "agePolicy" >>, "void"),
    Same("Metrics.event", << "schema", "data", "agePolicy" >>, "void"),
    Same("Metrics.appInfo", << "build" >>, "void") }

Calls ==
  UNION { AccessibilityCalls, ActionsCalls, AdvertisingCalls, DeviceCalls,
          DiscoveryCalls, DisplayCalls, LifecycleCalls, LocalizationCalls,
          NetworkCalls, PresentationCalls, StatsCalls, TextToSpeechCalls,
          MetricsPlainCalls, MetricsContentCalls, MetricsPageCalls,
          MetricsErrorCalls, MetricsMediaCalls, MetricsSeekCalls,
          MetricsRateCalls, MetricsLastCalls }

-----------------------------------------------------------------------------
(***************************************************************************)
(* The notifications: the member function that subscribes, the event it    *)
(* names, and the JSON type the event is read with.                        *)
(***************************************************************************)
Notified(call, m, type) == [call |-> call, method |-> m, type |-> type]
On(m, type)             == Notified(m, m, type)

AccessibilityNotices ==
  { On("Accessibility.onAudioDescriptionChanged", "bool"),
    On("Accessibility.onClosedCaptionsSettingsChanged", "ClosedCaptionsSettings"),
    On("Accessibility.onHighContrastUIChanged", "bool"),
    On("Accessibility.onVoiceGuidanceSettingsChanged", "VoiceGuidanceSettings") }

LocalizationNotices ==
  { On("Localization.onCountryChanged", "string"),
    On("Localization.onPreferredAudioLanguagesChanged", "strings"),
    On("Localization.onPresentationLanguageChanged", "string") }

TextToSpeechNotices ==
  { Notified("TextToSpeech.onWillSpeak", "TextToSpeech.onWillspeak", "SpeechIdEvent"),
    Notified("TextToSpeech.onSpeechStart", "TextToSpeech.onSpeechstart", "SpeechIdEvent"),
    Notified("TextToSpeech.onSpeechPause", "TextToSpeech.onSpeechpause", "SpeechIdEvent"),
    Notified("TextToSpeech.onSpeechResume", "TextToSpeech.onSpeechresume", "SpeechIdEvent"),
    Notified("TextToSpeech.onSpeechComplete", "TextToSpeech.onSpeechcomplete", "SpeechIdEvent"),
    Notified("TextToSpeech.onSpeechInterrupted", "TextToSpeech.onSpeechinterrupted",
             "SpeechIdEvent"),
    Notified("TextToSpeech.onNetworkError", "TextToSpeech.onNetworkerror", "SpeechIdEvent"),
    Notified("TextToSpeech.onPlaybackError", "TextToSpeech.onPlaybackerror", "SpeechIdEvent") }

\* The second one is the first under another name.
ActionsNotices ==
  { Notified(call, "Actions.onIntent", "string")
    : call \in { "Actions.onIntent", "Actions.onIntentChanged" } }

DeviceNotices == { On("Device.onHdrChanged", "HDRFormat") }

\* A bug of LifecycleNotices: the event is named as the interface is.
LifecycleNoticesUnversioned == { On("Lifecycle.onStateChanged", "history") }

LifecycleNotices ==
  { Notified("Lifecycle.onStateChanged", "Lifecycle2.onStateChanged", "history") }

NetworkNotices      == { On("Network.onConnectedChanged", "bool") }
PresentationNotices == { On("Presentation.onFocusedChanged", "bool") }

Notices ==
  UNION { AccessibilityNotices, ActionsNotices, DeviceNotices, LifecycleNotices,
          LocalizationNotices, NetworkNotices, PresentationNotices,
          TextToSpeechNotices }
=============================================================================
