----------------------------- MODULE JsonTypes -----------------------------
(***************************************************************************)
(* What the JSON types of the client make of a JSON value, and what its    *)
(* enumerations are called on the wire.  Constant level: no state.         *)
(*                                                                         *)
(* A decoder is modelled by the set of its outcomes: empty when it throws, *)
(* one value when it decodes, several where a C++ conversion is undefined. *)
(* A decoded C++ scalar is written as the JSON value that means the same,  *)
(* an enumerator as Enumerator(e), and a struct as the sequence of its     *)
(* members' values, in the order the headers declare the members.          *)
(***************************************************************************)
EXTENDS Api, FiniteSets

CONSTANT UintLimit   \* one more than the largest uint32_t

\* It has room for the states of a speech.
ASSUME UintAssumption == UintLimit \in Nat /\ UintLimit > 3

Null          == [t |-> "null"]
Bool(b)       == [t |-> "boolean", b |-> b]
Num(n)        == [t |-> "integer", n |-> n]
Float(h)      == [t |-> "float", halves |-> h]     \* the number h/2
Str(s)        == [t |-> "string", s |-> s]
Arr(q)        == [t |-> "array", items |-> q]
Obj(f)        == [t |-> "object", members |-> f]
Enumerator(e) == [t |-> "enumerator", e |-> e]
Struct(q)     == [t |-> "struct", fields |-> q]

\* What reading an absent member of a const object leaves: not a value.
Crash == [t |-> "crash"]

-----------------------------------------------------------------------------
(***************************************************************************)
(* The enumerations: pairs of JSON text and C++ enumerator.                *)
(***************************************************************************)
AgePolicyEnum ==
  { <<"app:adult", "ADULT">>, <<"app:child", "CHILD">>, <<"app:teen", "TEEN">> }

DeviceClassEnum == { <<"stb", "STB">>, <<"ott", "OTT">>, <<"tv", "TV">> }

CloseReasonEnum ==
  { <<"deactivate", "DEACTIVATE">>, <<"unload", "UNLOAD">>,
    <<"killReload", "KILL_RELOAD">>, <<"killReactivate", "KILL_REACTIVATE">> }

LifecycleStateEnum ==
  { <<"initializing", "INITIALIZING">>, <<"active", "ACTIVE">>,
    <<"paused", "PAUSED">>, <<"suspended", "SUSPENDED">>,
    <<"hibernated", "HIBERNATED">>, <<"terminating", "TERMINATING">> }

ErrorTypeEnum ==
  { <<"network", "Network">>, <<"media", "Media">>,
    <<"restriction", "Restriction">>, <<"entitlement", "Entitlement">>,
    <<"other", "Other">> }

\* EnumType::at(json): a JSON string that names an entry, or an exception.
At(enum, v) == { Enumerator(p[2]) : p \in { q \in enum : v = Str(q[1]) } }

\* JSON::toString(enum, e), which has no text for an enumerator without entry.
ToText(enum, e) ==
  LET entries == { p \in enum : e = Enumerator(p[2]) }
  IN  IF entries = {} THEN Crash ELSE Str((CHOOSE p \in entries : TRUE)[1])

-----------------------------------------------------------------------------
(***************************************************************************)
(* The conversions of nlohmann::json the decoders call.                    *)
(***************************************************************************)
Among(v, types) == { w \in {v} : w.t \in types }

GetBool(v)   == Among(v, {"boolean"})
GetString(v) == Among(v, {"string"})

\* get<double>()
GetDouble(v) ==
  Among(v, {"float"}) \union { Float(2 * w.n) : w \in Among(v, {"integer"}) }

\* A float is cut towards zero; out of uint32_t's range that is undefined.
Truncated(h) ==
  LET whole == IF h >= 0 THEN h \div 2 ELSE -((-h) \div 2)
  IN  { n \in 0 .. UintLimit - 1 : whole \in 0 .. UintLimit - 1 => n = whole }

\* get<uint32_t>() refuses no number, and takes a boolean for one.
GetUint(v) ==
  { Num(w.n % UintLimit)         : w \in Among(v, {"integer"}) } \union
  { Num(IF w.b THEN 1 ELSE 0)    : w \in Among(v, {"boolean"}) } \union
  UNION { { Num(n) : n \in Truncated(w.halves) } : w \in Among(v, {"float"}) }

IsStrings(q) == \A k \in DOMAIN q : q[k].t = "string"

\* get<std::vector<std::string>>()
GetStrings(v) == { w \in Among(v, {"array"}) : IsStrings(w.items) }

\* for (const auto& x : json): the items of an array, the values of an object
\* in some order, nothing for null, and any other value itself.
Iterated(v) ==
  CASE v.t = "array"  -> { v.items }
    [] v.t = "object" ->
         { q \in [1 .. Cardinality(DOMAIN v.members)
                    -> { v.members[f] : f \in DOMAIN v.members }] :
             \E order \in [DOMAIN q -> DOMAIN v.members] :
               /\ \A j, k \in DOMAIN q : order[j] = order[k] => j = k
               /\ \A k \in DOMAIN q : q[k] = v.members[order[k]] }
    [] v.t = "null"   -> { <<>> }
    [] OTHER          -> { <<v>> }

\* The loop of ListVoicesResponse, which takes each item with get<string>().
IterateStrings(v) == { Arr(q) : q \in { r \in Iterated(v) : IsStrings(r) } }

\* static_cast<SpeechState>(get<uint32_t>()): a number that is no enumerator's
\* is let through.
CastSpeechState(v) ==
  { IF n.n + 1 \in DOMAIN SpeechStateNames THEN Enumerator(SpeechStateNames[n.n + 1]) ELSE n
    : n \in GetUint(v) }

\* The member's conversion, by name.  Absent members are Crash.
Read(reader, v) ==
  IF v = Crash THEN { Crash } ELSE
  CASE reader = "bool"           -> GetBool(v)
    [] reader = "string"         -> GetString(v)
    [] reader = "double"         -> GetDouble(v)
    [] reader = "uint"           -> GetUint(v)
    [] reader = "strings"        -> GetStrings(v)
    [] reader = "voices"         -> IterateStrings(v)
    [] reader = "SpeechState"    -> CastSpeechState(v)
    [] reader = "DeviceClass"    -> At(DeviceClassEnum, v)
    [] reader = "LifecycleState" -> At(LifecycleStateEnum, v)
    [] reader = "void"           -> { Null }
    [] OTHER                     -> {}

-----------------------------------------------------------------------------
(***************************************************************************)
(* The classes of json_types.  Each writes its members down three times:   *)
(* in the list it hands to checkRequiredFields(), in the reads of          *)
(* fromJson(), each with its conversion, and in value(), in the order in   *)
(* which they fill the struct.                                             *)
(***************************************************************************)
Class(required, reads, value) == [required |-> required, reads |-> reads, value |-> value]

ClosedCaptions ==
  Class({"enabled", "preferredLanguages"},
        [enabled |-> "bool", preferredLanguages |-> "strings"],
        << "enabled", "preferredLanguages" >>)

\* A bug of VoiceGuidance: two members of the same kind change places.
VoiceGuidanceSwapped ==
  Class({"enabled", "rate", "navigationHints"},
        [enabled |-> "bool", rate |-> "double", navigationHints |-> "bool"],
        << "navigationHints", "rate", "enabled" >>)

VoiceGuidance ==
  Class({"enabled", "rate", "navigationHints"},
        [enabled |-> "bool", rate |-> "double", navigationHints |-> "bool"],
        << "enabled", "rate", "navigationHints" >>)

IfaJson ==
  Class({"ifa", "ifa_type", "lmt"},
        [ifa |-> "string", ifa_type |-> "string", lmt |-> "string"],
        << "ifa", "ifa_type", "lmt" >>)

\* The one class that assigns the members of its struct by name.
HDRFormat ==
  Class({"hdr10", "hdr10Plus", "dolbyVision", "hlg"},
        [hdr10 |-> "bool", hdr10Plus |-> "bool", dolbyVision |-> "bool", hlg |-> "bool"],
        [k \in DOMAIN HDRFormatType |-> HDRFormatType[k].name])

DisplaySizeJson ==
  Class({"width", "height"}, [width |-> "uint", height |-> "uint"], << "width", "height" >>)

StateChange ==
  Class({"oldState", "newState"},
        [oldState |-> "LifecycleState", newState |-> "LifecycleState"],
        << "oldState", "newState" >>)

MemoryInfo ==
  Class({"userMemoryUsedKiB", "userMemoryLimitKiB", "gpuMemoryUsedKiB", "gpuMemoryLimitKiB"},
        [userMemoryUsedKiB |-> "uint", userMemoryLimitKiB |-> "uint",
         gpuMemoryUsedKiB  |-> "uint", gpuMemoryLimitKiB  |-> "uint"],
        << "userMemoryUsedKiB", "userMemoryLimitKiB", "gpuMemoryUsedKiB", "gpuMemoryLimitKiB" >>)

ListVoicesResponse ==
  Class({"TTS_Status", "voices"}, [TTS_Status |-> "uint", voices |-> "voices"],
        << "TTS_Status", "voices" >>)

SpeechIdEvent == Class({"speechid"}, [speechid |-> "uint"], << "speechid" >>)

SpeechResponse ==
  Class({"speechid", "TTS_Status", "success"},
        [speechid |-> "uint", TTS_Status |-> "uint", success |-> "bool"],
        << "speechid", "TTS_Status", "success" >>)

\* A bug of SpeechStateResponse: its list is the one of TTSStatusResponse.
SpeechStateResponseCopied ==
  Class({"TTS_Status", "success"},
        [speechstate |-> "SpeechState", TTS_Status |-> "uint", success |-> "bool"],
        << "speechstate", "TTS_Status", "success" >>)

SpeechStateResponse ==
  Class({"speechstate", "TTS_Status", "success"},
        [speechstate |-> "SpeechState", TTS_Status |-> "uint", success |-> "bool"],
        << "speechstate", "TTS_Status", "success" >>)

TTSStatusResponse ==
  Class({"TTS_Status", "success"}, [TTS_Status |-> "uint", success |-> "bool"],
        << "TTS_Status", "success" >>)

JsonData ==
  [ClosedCaptionsSettings |-> ClosedCaptions,
   VoiceGuidanceSettings  |-> VoiceGuidance,
   IfaJson                |-> IfaJson,
   HDRFormat              |-> HDRFormat,
   DisplaySizeJson        |-> DisplaySizeJson,
   StateChange            |-> StateChange,
   MemoryInfo             |-> MemoryInfo,
   ListVoicesResponse     |-> ListVoicesResponse,
   SpeechIdEvent          |-> SpeechIdEvent,
   SpeechResponse         |-> SpeechResponse,
   SpeechStateResponse    |-> SpeechStateResponse,
   TTSStatusResponse      |-> TTSStatusResponse]

Member(v, f) ==
  IF v.t = "object" /\ f \in DOMAIN v.members THEN v.members[f] ELSE Crash

\* checkRequiredFields(json, fields): json is an object that has them all.
checkRequiredFields(v, fields) ==
  v.t = "object" /\ fields \subseteq DOMAIN v.members

\* fromJson() and value() of a class: once the list is found to be there, every
\* member is read in turn, and the first failure throws.
fromJson(class, v) ==
  LET members  == DOMAIN class.reads
      outcomes == [f \in members |-> Read(class.reads[f], Member(v, f))]
  IN  IF checkRequiredFields(v, class.required)
      THEN { Struct([k \in DOMAIN class.value |-> d[class.value[k]]])
             : d \in { g \in [members -> UNION { outcomes[f] : f \in members }] :
                         \A f \in members : g[f] \in outcomes[f] } }
      ELSE {}

\* NL_Json_Array<StateChange>: one item that throws loses all of them.
History(v) ==
  LET outcomes == [k \in DOMAIN v.items |-> fromJson(StateChange, v.items[k])]
  IN  IF v.t = "array"
      THEN { Arr(q) : q \in { r \in [DOMAIN v.items -> UNION { outcomes[k] : k \in DOMAIN v.items }] :
                                \A k \in DOMAIN v.items : r[k] \in outcomes[k] } }
      ELSE {}

\* The JSON type of a call or of a notification, by name.
Decode(type, v) ==
  CASE type = "history"          -> History(v)
    [] type \in DOMAIN JsonData  -> fromJson(JsonData[type], v)
    [] OTHER                     -> Read(type, v)
=============================================================================
