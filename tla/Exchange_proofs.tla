-------------------------- MODULE Exchange_proofs --------------------------
(***************************************************************************)
(* Theorems about Exchange, for any arguments, any JSON values that may    *)
(* come back, and any width of uint32_t.                                   *)
(***************************************************************************)
EXTENDS Exchange, TLAPS

\* A list of strings is read item by item, and no item is Crash.
LEMMA StringsWhole ==
  ASSUME NEW q, IsStrings(q), NEW k \in DOMAIN q
  PROVE  Whole(q[k])
BY DEF IsStrings, Whole, Crash

\* A getter of a value that is there yields no object, and lists that are whole.
LEMMA ReadWhole ==
  ASSUME NEW reader, NEW v, v # Crash, NEW x \in Read(reader, v)
  PROVE  /\ x.t \notin {"crash", "object", "struct"}
         /\ x.t = "array" => \A k \in DOMAIN x.items : Whole(x.items[k])
<1>1. x \in GetBool(v) => x.t = "boolean"
  BY DEF GetBool, Among
<1>2. x \in GetString(v) => x.t = "string"
  BY DEF GetString, Among
<1>3. x \in GetDouble(v) => x.t = "float"
  BY DEF GetDouble, Among, Float
<1>4. x \in GetUint(v) => x.t = "integer"
  BY DEF GetUint, Num
<1>5. x \in GetStrings(v) => x.t = "array" /\ IsStrings(x.items)
  BY DEF GetStrings, Among
<1>6. x \in IterateStrings(v) => x.t = "array" /\ IsStrings(x.items)
  BY DEF IterateStrings, Arr
<1>7. ASSUME NEW enum, x \in At(enum, v)
      PROVE  x.t = "enumerator"
  BY <1>7 DEF At, Enumerator
<1>8. x \in CastSpeechState(v) => x.t \in {"enumerator", "integer"}
  BY DEF CastSpeechState, GetUint, Num, Enumerator
<1>9. \/ x \in GetBool(v) \/ x \in GetString(v) \/ x \in GetDouble(v)
      \/ x \in GetUint(v) \/ x \in GetStrings(v) \/ x \in IterateStrings(v)
      \/ x \in At(DeviceClassEnum, v) \/ x \in At(LifecycleStateEnum, v)
      \/ x \in CastSpeechState(v) \/ x = Null
  BY DEF Read
<1>10. Null.t = "null"
  BY DEF Null
<1> QED
  BY <1>1, <1>2, <1>3, <1>4, <1>5, <1>6, <1>7, <1>8, <1>9, <1>10, StringsWhole

\* The three lists of a class fit: what it reads it has asked for, and every
\* member it puts into its struct is one that it read.
ReadsWhatItGives(class) ==
  /\ DOMAIN class.reads \subseteq class.required
  /\ \A k \in DOMAIN class.value : class.value[k] \in DOMAIN class.reads

\* They fit in each of the twelve classes.
LEMMA ClassesGiveWhatTheyRead ==
  \A type \in DOMAIN JsonData : ReadsWhatItGives(JsonData[type])
<1>1. ReadsWhatItGives(ClosedCaptions) /\ ReadsWhatItGives(VoiceGuidance)
  BY DEF ReadsWhatItGives, ClosedCaptions, VoiceGuidance, Class
<1>2. ReadsWhatItGives(IfaJson) /\ ReadsWhatItGives(DisplaySizeJson)
  BY DEF ReadsWhatItGives, IfaJson, DisplaySizeJson, Class
<1>3. ReadsWhatItGives(HDRFormat)
  BY DEF ReadsWhatItGives, HDRFormat, HDRFormatType, Class, Named
<1>4. ReadsWhatItGives(StateChange) /\ ReadsWhatItGives(MemoryInfo)
  BY DEF ReadsWhatItGives, StateChange, MemoryInfo, Class
<1>5. ReadsWhatItGives(ListVoicesResponse) /\ ReadsWhatItGives(SpeechIdEvent)
  BY DEF ReadsWhatItGives, ListVoicesResponse, SpeechIdEvent, Class
<1>6. /\ ReadsWhatItGives(SpeechResponse) /\ ReadsWhatItGives(SpeechStateResponse)
      /\ ReadsWhatItGives(TTSStatusResponse)
  BY DEF ReadsWhatItGives, SpeechResponse, SpeechStateResponse, TTSStatusResponse, Class
<1> QED
  BY <1>1, <1>2, <1>3, <1>4, <1>5, <1>6 DEF JsonData

\* A class reads no member that is not there, and hands out no other.
LEMMA FromJsonWhole ==
  ASSUME NEW class, ReadsWhatItGives(class), NEW v, Whole(v), NEW x \in fromJson(class, v)
  PROVE  Whole(x) /\ x.t = "struct"
<1>1. checkRequiredFields(v, class.required)
  BY DEF fromJson
<1>2. PICK d : /\ x = Struct([k \in DOMAIN class.value |-> d[class.value[k]]])
               /\ \A f \in DOMAIN class.reads : d[f] \in Read(class.reads[f], Member(v, f))
  BY <1>1 DEF fromJson
<1>3. ASSUME NEW f \in DOMAIN class.reads
      PROVE  d[f] # Crash
  <2>1. Member(v, f) # Crash
    BY <1>1 DEF ReadsWhatItGives, checkRequiredFields, Member, Whole
  <2>2. d[f].t # "crash"
    BY <1>2, <2>1, ReadWhole
  <2> QED
    BY <2>2 DEF Crash
<1>4. /\ x.t = "struct" /\ DOMAIN x.fields = DOMAIN class.value
      /\ \A k \in DOMAIN class.value : x.fields[k] = d[class.value[k]]
  BY <1>2 DEF Struct
<1>5. \A k \in DOMAIN x.fields : x.fields[k] # Crash
  BY <1>3, <1>4 DEF ReadsWhatItGives
<1> QED
  BY <1>4, <1>5 DEF Whole, Crash

\* A history is whole when its changes are.
LEMMA HistoryWhole ==
  ASSUME NEW v, WholeValue(v), NEW x \in History(v)
  PROVE  WholeValue(x)
<1>1. PICK r : /\ v.t = "array" /\ x = Arr(r) /\ DOMAIN r = DOMAIN v.items
               /\ \A k \in DOMAIN v.items : r[k] \in fromJson(StateChange, v.items[k])
  BY DEF History, Among
<1>2. ReadsWhatItGives(StateChange)
  BY ClassesGiveWhatTheyRead DEF JsonData
<1>3. \A k \in DOMAIN r : Whole(r[k])
  BY <1>1, <1>2, FromJsonWhole DEF WholeValue
<1>4. x.t = "array" /\ x.items = r
  BY <1>1 DEF Arr
<1> QED
  BY <1>1, <1>3, <1>4 DEF WholeValue, Whole, Crash

\* A decoder that is given a whole value yields a whole one.
LEMMA DecodeWhole ==
  ASSUME NEW type, NEW v, WholeValue(v), NEW x \in Decode(type, v)
  PROVE  WholeValue(x)
<1>1. CASE type = "history"
  <2>1. "history" \notin DOMAIN JsonData
    BY DEF JsonData
  <2>2. x \in History(v)
    BY <1>1, <2>1 DEF Decode
  <2> QED
    BY <2>2, HistoryWhole
<1>2. CASE type # "history" /\ type \in DOMAIN JsonData
  BY <1>2, FromJsonWhole, ClassesGiveWhatTheyRead DEF Decode, WholeValue
<1>3. CASE type # "history" /\ type \notin DOMAIN JsonData
  <2>1. x \in Read(type, v)
    BY <1>3 DEF Decode
  <2>2. v # Crash
    BY DEF WholeValue, Whole
  <2>3. /\ x.t \notin {"crash", "object", "struct"}
        /\ x.t = "array" => \A k \in DOMAIN x.items : Whole(x.items[k])
    BY <2>1, <2>2, ReadWhole
  <2> QED
    BY <2>3 DEF WholeValue, Whole, Crash
<1> QED
  BY <1>1, <1>2, <1>3

-----------------------------------------------------------------------------
\* JSON nests no value with an absent member read.
LEMMA JsonWhole ==
  ASSUME NEW v, Json(v)
  PROVE  WholeValue(v)
<1>1. \A w : JsonKind(w) => w # Crash /\ w.t # "struct"
  BY DEF JsonKind, Crash
<1>2. \A w : JsonPart(w) => Whole(w)
  BY <1>1 DEF JsonPart, Whole
<1>3. Json(v) => JsonKind(v) /\ \A f \in DOMAIN v.members : v.t = "object" => JsonPart(v.members[f])
  BY DEF Json
<1>4. v.t = "array" => \A k \in DOMAIN v.items : Whole(v.items[k])
  BY <1>2 DEF Json
<1>5. Whole(v)
  BY <1>1, <1>3 DEF Whole, JsonPart
<1> QED
  BY <1>4, <1>5 DEF WholeValue

\* The outcome is what the JSON type of that name makes of the message.
DecodedAs(type) ==
  /\ Json(message)
  /\ IF outcome.ok THEN outcome.value \in Decode(type, message)
                   ELSE Decode(type, message) = {}

\* A request that is out is one of the client's, and what is done was decoded
\* with the type of the call or notification, unless nothing came back.
Exchanged ==
  /\ stage = "sent" => call \in Calls
  /\ stage = "done" => \/ outcome = Error("NoAnswer")
                       \/ call \in Calls /\ DecodedAs(call.result)
                       \/ call \in Notices /\ DecodedAs(call.type)

\* What an exchange does with a value: decode it, or fail.
LEMMA Decoding ==
  ASSUME NEW type, NEW v, Json(v), NEW e,
         message' = v,
         IF Decode(type, v) = {} THEN outcome' = Error(e)
         ELSE \E x \in Decode(type, v) : outcome' = Value(x)
  PROVE  DecodedAs(type)'
<1>1. Error(e).ok = FALSE /\ \A x : Value(x).ok = TRUE /\ Value(x).value = x
  BY DEF Error, Value
<1> QED
  BY <1>1 DEF DecodedAs

\* Every step of an exchange keeps to that.
LEMMA ExchangedAlways == Spec => []Exchanged
<1>1. Init => Exchanged
  BY DEF Init, Exchanged
<1>2. Exchanged /\ [Next]_vars => Exchanged'
  <2> SUFFICES ASSUME Exchanged, [Next]_vars
               PROVE  Exchanged'
    OBVIOUS
  <2>1. CASE Invoke
    BY <2>1 DEF Invoke, Exchanged
  <2>2. CASE Answer
    <3>1. call \in Calls /\ UNCHANGED call /\ stage' = "done"
      BY <2>2 DEF Answer, Exchanged
    <3>2. PICK v \in Payloads[call.result] :
            /\ message' = v
            /\ IF Decode(call.result, v) = {}
               THEN outcome' = Error("InvalidParams")
               ELSE \E x \in Decode(call.result, v) : outcome' = Value(x)
      BY <2>2 DEF Answer
    <3>3. Json(v)
      BY <3>1, PayloadsAssumption
    <3>4. DecodedAs(call.result)'
      BY <3>1, <3>2, <3>3, Decoding
    <3> QED
      BY <3>1, <3>4 DEF Exchanged
  <2>3. CASE NoAnswer
    BY <2>3 DEF NoAnswer, Exchanged
  <2>4. CASE Notice
    <3>0. PICK n \in Notices :
            \E v \in Payloads[n.type] :
              /\ call' = n
              /\ message' = v
              /\ IF Decode(n.type, v) = {}
                 THEN outcome' = Error("Dropped")
                 ELSE \E x \in Decode(n.type, v) : outcome' = Value(x)
      BY <2>4 DEF Notice
    <3>1. PICK v \in Payloads[n.type] :
            /\ call' = n
            /\ message' = v
            /\ IF Decode(n.type, v) = {}
               THEN outcome' = Error("Dropped")
               ELSE \E x \in Decode(n.type, v) : outcome' = Value(x)
      BY <3>0
    <3>2. Json(v)
      BY PayloadsAssumption
    <3>3. DecodedAs(n.type)'
      BY <3>1, <3>2, Decoding
    <3> QED
      BY <2>4, <3>1, <3>3 DEF Notice, Exchanged
  <2>5. CASE Settle
    BY <2>5 DEF Settle, Exchanged
  <2>6. CASE UNCHANGED vars
    BY <2>6 DEF vars, Exchanged, DecodedAs
  <2> QED
    BY <2>1, <2>2, <2>3, <2>4, <2>5, <2>6 DEF Next
<1> QED
  BY <1>1, <1>2, PTL DEF Spec

\* Whatever JSON comes back, as an answer or as a notification, the
\* application is handed nothing that was read from an absent member: no class
\* reads a member that its list does not ask for.
THEOREM NoHalfReadAlways == Spec => []NoHalfRead
<1>1. Exchanged => NoHalfRead
  <2> SUFFICES ASSUME Exchanged, stage = "done", outcome.ok
               PROVE  WholeValue(outcome.value)
    BY DEF NoHalfRead
  <2>1. outcome # Error("NoAnswer")
    BY DEF Error
  <2>2. PICK type : DecodedAs(type)
    BY <2>1 DEF Exchanged
  <2>3. WholeValue(message) /\ outcome.value \in Decode(type, message)
    BY <2>2, JsonWhole DEF DecodedAs
  <2> QED
    BY <2>3, DecodeWhole
<1> QED
  BY <1>1, ExchangedAlways, PTL
=============================================================================
