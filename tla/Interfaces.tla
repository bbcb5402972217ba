----------------------------- MODULE Interfaces -----------------------------
(***************************************************************************)
(* The catalogue of the client: the interfaces an application can          *)
(* subscribe on, the notifications each of them offers, and the two orders *)
(* in which the accessor walks over them.  Constant level: no state.       *)
(*                                                                         *)
(* An interface is named by the prefix of its JSON-RPC methods, and a      *)
(* notification by the JSON-RPC event name without that prefix.            *)
(***************************************************************************)
EXTENDS Naturals, Sequences

\* The members of FireboltAccessorImpl that own a SubscriptionManager.  The
\* other five (Advertising, Discovery, Display, Metrics, Stats) only send
\* requests and hold nothing that a sweep or a destructor could release.
Interface ==
  { "Accessibility", "Actions", "Device", "Lifecycle",
    "Localization", "Network", "Presentation", "TextToSpeech" }

-----------------------------------------------------------------------------
(***************************************************************************)
(* What subscribeOn...() of each implementation class passes to its        *)
(* SubscriptionManager as the event name.                                  *)
(***************************************************************************)
AccessibilityEvents ==
  { "onAudioDescriptionChanged", "onClosedCaptionsSettingsChanged",
    "onHighContrastUIChanged", "onVoiceGuidanceSettingsChanged" }

\* subscribeOnIntentChanged is the same call under a second name.
ActionsEvents == { "onIntent" }

DeviceEvents == { "onHdrChanged" }

LifecycleEvents == { "onStateChanged" }

LocalizationEvents ==
  { "onCountryChanged", "onPreferredAudioLanguagesChanged",
    "onPresentationLanguageChanged" }

NetworkEvents == { "onConnectedChanged" }

PresentationEvents == { "onFocusedChanged" }

TextToSpeechEvents ==
  { "onWillspeak", "onSpeechstart", "onSpeechpause", "onSpeechresume",
    "onSpeechcomplete", "onSpeechinterrupted", "onNetworkerror",
    "onPlaybackerror" }

Channels(i, events) == { [owner |-> i, event |-> e] : e \in events }

\* Everything an application can subscribe to: the interface whose
\* SubscriptionManager owns the subscription, and the notification.
Subscribable ==
  UNION { Channels("Accessibility", AccessibilityEvents),
          Channels("Actions", ActionsEvents),
          Channels("Device", DeviceEvents),
          Channels("Lifecycle", LifecycleEvents),
          Channels("Localization", LocalizationEvents),
          Channels("Network", NetworkEvents),
          Channels("Presentation", PresentationEvents),
          Channels("TextToSpeech", TextToSpeechEvents) }

-----------------------------------------------------------------------------
\* A bug of SweepOrder: a second interface is forgotten, as Device was.
SweepOrderWithoutTextToSpeech ==
  << "Accessibility", "Actions", "Lifecycle", "Localization", "Network",
     "Presentation" >>

\* The calls of FireboltAccessorImpl::unsubscribeAll(), in program order.
SweepOrder ==
  << "Accessibility", "Actions", "Lifecycle", "Localization", "Network",
     "Presentation", "TextToSpeech" >>

\* The interfaces whose subscriptions a Disconnect() takes away.  Device has
\* subscriptions too and is not in SweepOrder.
ReleasedByDisconnect == Interface \ { "Device" }

\* Members are destroyed in the reverse of their order of declaration; those
\* without a SubscriptionManager are left out, their destructors do nothing.
TeardownOrder ==
  << "TextToSpeech", "Presentation", "Network", "Localization", "Lifecycle",
     "Device", "Actions", "Accessibility" >>
=============================================================================
