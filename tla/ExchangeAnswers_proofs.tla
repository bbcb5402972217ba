----------------------- MODULE ExchangeAnswers_proofs -----------------------
(***************************************************************************)
(* Theorem about what the application is handed by Exchange: an answer or  *)
(* a notification that the OpenRPC document allows arrives and says what   *)
(* it said on the wire.  Getter by getter first, then class by class, then *)
(* the tables of the headers, of the implementation and of the document    *)
(* against one another.                                                    *)
(***************************************************************************)
EXTENDS Exchange_proofs, ExchangeSchemas_proofs

\* What a getter makes of v is there, and means v.
ReadExact(reader, v) ==
  /\ Read(reader, v) # {}
  /\ \A x \in Read(reader, v) : AtomMeans(x, v)

\* get<bool>() of a documented boolean.
LEMMA ReadBool ==
  ASSUME NEW v, JsonKind(v), AtomConforms("boolean", v)
  PROVE  ReadExact("bool", v)
<1>1. v.t = "boolean"
  BY EnumerationNames DEF AtomConforms
<1>2. v # Crash
  BY <1>1 DEF Crash
<1>3. Read("bool", v) = {v}
  BY <1>1, <1>2 DEF Read, GetBool, Among
<1> QED
  BY <1>3 DEF ReadExact, AtomMeans

\* get<std::string>() of a documented string.
LEMMA ReadString ==
  ASSUME NEW v, JsonKind(v), AtomConforms("string", v) \/ AtomConforms("lmt", v)
  PROVE  ReadExact("string", v)
<1>1. v.t = "string"
  BY EnumerationNames DEF AtomConforms
<1>2. v # Crash
  BY <1>1 DEF Crash
<1>3. Read("string", v) = {v}
  BY <1>1, <1>2 DEF Read, GetString, Among
<1> QED
  BY <1>3 DEF ReadExact, AtomMeans

\* A JSON number is whole or a float.
LEMMA Numbers ==
  ASSUME NEW v, JsonKind(v), IsNumber(v)
  PROVE  /\ v # Crash
         /\ \/ v.t = "integer" /\ v = Num(v.n) /\ v.n \in Int /\ Halves(v) = 2 * v.n
            \/ v.t = "float" /\ v = Float(v.halves) /\ v.halves \in Int /\ Halves(v) = v.halves
BY DEF JsonKind, IsNumber, Halves, Crash

\* get<double>() of a number.
LEMMA ReadDouble ==
  ASSUME NEW v, JsonKind(v), IsNumber(v)
  PROVE  ReadExact("double", v)
<1>1. Read("double", v) = GetDouble(v)
  BY Numbers DEF Read
<1>2. CASE v.t = "float"
  <2>1. GetDouble(v) = {v}
    BY <1>2 DEF GetDouble, Among
  <2> QED
    BY <1>1, <2>1 DEF ReadExact, AtomMeans
<1>3. CASE v.t = "integer"
  <2>1. GetDouble(v) = { Float(2 * v.n) }
    BY <1>3 DEF GetDouble, Among
  <2> DEFINE x == Float(2 * v.n)
  <2>2. IsNumber(x) /\ Halves(x) = 2 * v.n
    BY DEF IsNumber, Halves, Float
  <2>3. Halves(v) = 2 * v.n
    BY <1>3 DEF Halves
  <2> HIDE DEF x
  <2>4. AtomMeans(x, v)
    BY <2>2, <2>3 DEF AtomMeans
  <2> QED
    BY <1>1, <2>1, <2>4 DEF ReadExact, x
<1> QED
  BY <1>2, <1>3, Numbers

\* A whole number that a uint32_t can hold is read as itself.
LEMMA UintExact ==
  ASSUME NEW v, JsonKind(v), IsNumber(v), InRange(v)
  PROVE  \E n \in 0 .. UintLimit - 1 : GetUint(v) = {Num(n)} /\ Halves(v) = 2 * n
<1>1. Halves(v) % 2 = 0 /\ Halves(v) \in 0 .. 2 * UintLimit - 1
  BY DEF InRange
<1>2. CASE v.t = "integer"
  <2>1. v.n \in Int /\ Halves(v) = 2 * v.n
    BY <1>2, Numbers
  <2>2. v.n \in 0 .. UintLimit - 1
    BY <1>1, <2>1, UintAssumption
  <2>3. v.n % UintLimit = v.n
    BY <2>2, UintAssumption
  <2>4. GetUint(v) = { Num(v.n % UintLimit) }
    BY <1>2 DEF GetUint, Among
  <2> QED
    BY <2>1, <2>2, <2>3, <2>4
<1>3. CASE v.t = "float"
  <2>1. v.halves \in Int /\ Halves(v) = v.halves
    BY <1>3, Numbers
  <2> DEFINE n == v.halves \div 2
  <2>2. n \in 0 .. UintLimit - 1 /\ v.halves = 2 * n
    BY <1>1, <2>1, UintAssumption
  <2>3. Truncated(v.halves) = {n}
    BY <1>1, <2>1, <2>2 DEF Truncated
  <2>4. GetUint(v) = UNION { { Num(m) : m \in Truncated(v.halves) } }
    BY <1>3 DEF GetUint, Among
  <2>5. GetUint(v) = {Num(n)}
    BY <2>3, <2>4
  <2> QED
    BY <2>1, <2>2, <2>5
<1> QED
  BY <1>2, <1>3, Numbers

\* get<uint32_t>() of a number that it can hold.
LEMMA ReadUint ==
  ASSUME NEW v, JsonKind(v), IsNumber(v), InRange(v)
  PROVE  ReadExact("uint", v)
<1>1. PICK n \in 0 .. UintLimit - 1 : GetUint(v) = {Num(n)} /\ Halves(v) = 2 * n
  BY UintExact
<1>2. Read("uint", v) = {Num(n)}
  BY <1>1, Numbers DEF Read
<1>3. IsNumber(Num(n)) /\ Halves(Num(n)) = 2 * n
  BY DEF IsNumber, Halves, Num
<1> QED
  BY <1>1, <1>2, <1>3 DEF ReadExact, AtomMeans

\* A documented list of strings, as a whole or in a loop.
LEMMA ReadStrings ==
  ASSUME NEW v, JsonKind(v), AtomConforms("strings", v)
  PROVE  ReadExact("strings", v) /\ ReadExact("voices", v)
<1>1. v.t = "array" /\ IsStrings(v.items)
  BY EnumerationNames DEF AtomConforms
<1>2. v = Arr(v.items)
  BY <1>1 DEF JsonKind
<1>3. v # Crash
  BY <1>1 DEF Crash
<1>4. Read("strings", v) = {v}
  BY <1>1, <1>3 DEF Read, GetStrings, Among
<1>5. Iterated(v) = {v.items}
  BY <1>1 DEF Iterated
<1>6. Read("voices", v) = {Arr(v.items)}
  BY <1>1, <1>3, <1>5 DEF Read, IterateStrings
<1> QED
  BY <1>2, <1>4, <1>6 DEF ReadExact, AtomMeans

\* The states of a speech, by their numbers.
LEMMA SpeechStates ==
  ASSUME NEW n \in 0 .. 3
  PROVE  /\ n + 1 \in DOMAIN SpeechStateNames
         /\ SpeechStateNames[n + 1] \in Enums.SpeechState
         /\ SpeechStateNumbered(SpeechStateNames[n + 1]) = n
<1>1. /\ DOMAIN SpeechStateNames = 1 .. 4
      /\ SpeechStateNames[1] = "PENDING" /\ SpeechStateNames[2] = "IN_PROGRESS"
      /\ SpeechStateNames[3] = "PAUSED" /\ SpeechStateNames[4] = "NOT_FOUND"
  BY DEF SpeechStateNames
<1>2. /\ SpeechStateNumbered("PENDING") = 0 /\ SpeechStateNumbered("IN_PROGRESS") = 1
      /\ SpeechStateNumbered("PAUSED") = 2 /\ SpeechStateNumbered("NOT_FOUND") = 3
  BY DEF SpeechStateNumbered
<1>3. n = 0 \/ n = 1 \/ n = 2 \/ n = 3
  OBVIOUS
<1>4. n + 1 \in DOMAIN SpeechStateNames
  BY <1>1
<1>5. SpeechStateNumbered(SpeechStateNames[n + 1]) = n
  BY <1>1, <1>2, <1>3
<1>6. Enums.SpeechState = { SpeechStateNames[k] : k \in DOMAIN SpeechStateNames }
  BY DEF Enums
<1> QED
  BY <1>4, <1>5, <1>6

\* The cast of a documented state of a speech.
LEMMA ReadSpeechState ==
  ASSUME NEW v, JsonKind(v), AtomConforms("upTo3", v)
  PROVE  ReadExact("SpeechState", v)
<1>1. IsNumber(v) /\ Halves(v) % 2 = 0 /\ Halves(v) \in 0 .. 6
  BY EnumerationNames DEF AtomConforms, IsInteger
<1>2. InRange(v)
  BY <1>1, UintAssumption DEF InRange
<1>3. PICK n \in 0 .. UintLimit - 1 : GetUint(v) = {Num(n)} /\ Halves(v) = 2 * n
  BY <1>1, <1>2, UintExact
<1>4. n \in 0 .. 3
  BY <1>1, <1>3, UintAssumption
<1> DEFINE x == Enumerator(SpeechStateNames[n + 1])
<1>5. n + 1 \in DOMAIN SpeechStateNames
  BY <1>4, SpeechStates
<1>6. Num(n).n = n
  BY DEF Num
<1>7. CastSpeechState(v) = {x}
  BY <1>3, <1>5, <1>6 DEF CastSpeechState
<1>8. Read("SpeechState", v) = {x}
  BY <1>1, <1>7, Numbers DEF Read
<1>9. x.t = "enumerator" /\ x.e = SpeechStateNames[n + 1]
  BY DEF Enumerator
<1> HIDE DEF x
<1>10. AtomMeans(x, v)
  BY <1>1, <1>3, <1>4, <1>9, SpeechStates DEF AtomMeans
<1> QED
  BY <1>8, <1>10 DEF ReadExact

\* A text that the document has for an enumeration is in the table, once, and
\* stands there for the enumerator the headers mean by it.
LEMMA AtExact ==
  ASSUME NEW enum, NEW v, v.t = "string", v = Str(v.s),
         \E p \in enum : p[1] = v.s,
         \A p \in enum : p[2] = EnumeratorOf(p[1])
  PROVE  At(enum, v) # {} /\ \A x \in At(enum, v) : AtomMeans(x, v)
<1>1. \A p \in enum : v = Str(p[1]) <=> p[1] = v.s
  BY DEF Str
<1>2. At(enum, v) = { Enumerator(p[2]) : p \in { q \in enum : q[1] = v.s } }
  BY <1>1 DEF At
<1>3. ASSUME NEW p \in enum, p[1] = v.s PROVE AtomMeans(Enumerator(p[2]), v)
  BY <1>3 DEF AtomMeans, Enumerator
<1> QED
  BY <1>2, <1>3

\* EnumType::at() of a documented state of the application.
LEMMA ReadLifecycleState ==
  ASSUME NEW v, JsonKind(v), AtomConforms("LifecycleState", v)
  PROVE  ReadExact("LifecycleState", v)
<1>1. v.t = "string" /\ v.s \in Names["LifecycleState"]
  BY EnumerationNames DEF AtomConforms
<1>2. v = Str(v.s) /\ v # Crash
  BY <1>1 DEF JsonKind, Crash
<1>3. \A s \in Names["LifecycleState"] : \E p \in LifecycleStateEnum : p[1] = s
  BY DEF Names, LifecycleStateEnum
<1>4. \A p \in LifecycleStateEnum : p[2] = EnumeratorOf(p[1])
  BY DEF LifecycleStateEnum, EnumeratorOf
<1>5. Read("LifecycleState", v) = At(LifecycleStateEnum, v)
  BY <1>2 DEF Read
<1> QED
  BY <1>1, <1>2, <1>3, <1>4, <1>5, AtExact DEF ReadExact

\* EnumType::at() of a documented class of device.
LEMMA ReadDeviceClass ==
  ASSUME NEW v, JsonKind(v), AtomConforms("DeviceClass", v)
  PROVE  ReadExact("DeviceClass", v)
<1>1. v.t = "string" /\ v.s \in Names["DeviceClass"]
  BY EnumerationNames DEF AtomConforms
<1>2. v = Str(v.s) /\ v # Crash
  BY <1>1 DEF JsonKind, Crash
<1>3. \A s \in Names["DeviceClass"] : \E p \in DeviceClassEnum : p[1] = s
  BY DEF Names, DeviceClassEnum
<1>4. \A p \in DeviceClassEnum : p[2] = EnumeratorOf(p[1])
  BY DEF DeviceClassEnum, EnumeratorOf
<1>5. Read("DeviceClass", v) = At(DeviceClassEnum, v)
  BY <1>2 DEF Read
<1> QED
  BY <1>1, <1>2, <1>3, <1>4, <1>5, AtExact DEF ReadExact

\* The answer that is not read.
LEMMA ReadVoid ==
  ASSUME NEW v, JsonKind(v), AtomConforms("null", v)
  PROVE  ReadExact("void", v)
<1>1. v.t = "null"
  BY EnumerationNames DEF AtomConforms
<1>2. v = Null /\ v # Crash
  BY <1>1 DEF JsonKind, Crash
<1>3. Read("void", v) = {Null}
  BY <1>2 DEF Read
<1> QED
  BY <1>2, <1>3 DEF ReadExact, AtomMeans

\* Which getters read which schemas exactly; the headers' type is uint32_t for
\* those that get one.
Reads(s, reader, type) ==
  \/ s = "boolean" /\ reader = "bool"
  \/ s \in {"string", "lmt"} /\ reader = "string"
  \/ s = "SpeechRate" /\ reader = "double"
  \/ s \in {"number", "integer", "upTo3"} /\ reader = "uint" /\ type = "uint"
  \/ s = "strings" /\ reader \in {"strings", "voices"}
  \/ s = "upTo3" /\ reader = "SpeechState"
  \/ s = "LifecycleState" /\ reader = "LifecycleState"
  \/ s = "DeviceClass" /\ reader = "DeviceClass"
  \/ s = "null" /\ reader = "void"

\* Each getter is exact on the schemas that it reads.
LEMMA AtomExact ==
  ASSUME NEW s, NEW reader, NEW type, Reads(s, reader, type),
         NEW v, JsonKind(v), AtomConforms(s, v), type = "uint" => InRange(v)
  PROVE  ReadExact(reader, v)
<1>1. s \in {"number", "integer", "upTo3", "SpeechRate"} => IsNumber(v)
  BY EnumerationNames DEF AtomConforms, IsInteger
<1> QED
  BY <1>1, ReadBool, ReadString, ReadDouble, ReadUint, ReadStrings, ReadSpeechState,
     ReadLifecycleState, ReadDeviceClass, ReadVoid DEF Reads

-----------------------------------------------------------------------------
(***************************************************************************)
(* The classes.                                                            *)
(***************************************************************************)
\* The class asks for no more than it reads, reads what the document has, as its
\* members are in the schema, and puts it into the struct of that type where the
\* headers have that member.
Mirrors(class, type, schema) ==
  /\ class.required \subseteq DOMAIN class.reads
  /\ DOMAIN class.value = DOMAIN Structs[type]
  /\ \A f \in DOMAIN class.reads : \E k \in DOMAIN class.value : class.value[k] = f
  /\ \A k \in DOMAIN class.value :
       LET f == class.value[k]
       IN  /\ f = DocumentedMember(Structs[type][k].name)
           /\ f \in DOMAIN class.reads
           /\ f \in DOMAIN schema.properties
           /\ Reads(schema.properties[f], class.reads[f], Structs[type][k].type)

\* A class is exact on what the schema it mirrors allows and its struct can hold.
LEMMA ClassExact ==
  ASSUME NEW type \in DOMAIN Structs, type # "uint",
         NEW class, NEW schema, Mirrors(class, type, schema),
         NEW v, ObjectConforms(schema, v), Holds(type, v),
         \A f \in DOMAIN v.members : JsonKind(v.members[f])
  PROVE  /\ fromJson(class, v) # {}
         /\ \A x \in fromJson(class, v) : ValueMeans(type, x, v)
<1> DEFINE members  == DOMAIN class.reads
           outcomes == [f \in members |-> Read(class.reads[f], Member(v, f))]
           found    == { g \in [members -> UNION { outcomes[f] : f \in members }] :
                           \A f \in members : g[f] \in outcomes[f] }
<1>1. v.t = "object"
  BY DEF ObjectConforms
<1>2. ASSUME NEW k \in DOMAIN class.value
      PROVE  /\ class.value[k] \in DOMAIN v.members
             /\ class.value[k] \in members
             /\ ReadExact(class.reads[class.value[k]], v.members[class.value[k]])
  <2> DEFINE f == class.value[k]
             arg == Structs[type][k]
  <2>1. /\ f = DocumentedMember(arg.name) /\ f \in members /\ f \in DOMAIN schema.properties
        /\ Reads(schema.properties[f], class.reads[f], arg.type)
        /\ k \in DOMAIN Structs[type]
    BY DEF Mirrors
  <2>2. f \in DOMAIN v.members /\ (arg.type = "uint" => InRange(v.members[f]))
    BY <2>1 DEF Holds
  <2>3. AtomConforms(schema.properties[f], v.members[f])
    BY <2>1, <2>2 DEF ObjectConforms
  <2> HIDE DEF f, arg
  <2>4. ReadExact(class.reads[f], v.members[f])
    BY <2>1, <2>2, <2>3, AtomExact
  <2> QED
    BY <2>1, <2>2, <2>4 DEF f
<1>3. ASSUME NEW f \in members
      PROVE  /\ f \in DOMAIN v.members
             /\ outcomes[f] = Read(class.reads[f], v.members[f])
             /\ outcomes[f] # {}
             /\ \A x \in outcomes[f] : AtomMeans(x, v.members[f])
  <2>1. PICK k \in DOMAIN class.value : class.value[k] = f
    BY DEF Mirrors
  <2>2. f \in DOMAIN v.members /\ ReadExact(class.reads[f], v.members[f])
    BY <1>2, <2>1
  <2>3. Member(v, f) = v.members[f]
    BY <1>1, <2>2 DEF Member
  <2> QED
    BY <2>2, <2>3 DEF ReadExact
<1>4. fromJson(class, v)
        = { Struct([k \in DOMAIN class.value |-> d[class.value[k]]]) : d \in found }
  <2>1. checkRequiredFields(v, class.required)
    BY <1>1, <1>3 DEF Mirrors, checkRequiredFields
  <2> QED
    BY <2>1 DEF fromJson
<1> HIDE DEF outcomes
<1>5. found # {}
  <2> DEFINE d == [f \in members |-> CHOOSE x \in outcomes[f] : TRUE]
  <2>1. \A f \in members : d[f] \in outcomes[f]
    BY <1>3
  <2>2. d \in [members -> UNION { outcomes[f] : f \in members }]
    BY <2>1
  <2> QED
    BY <2>1, <2>2
<1>6. ASSUME NEW d \in found,
             NEW x, x = Struct([k \in DOMAIN class.value |-> d[class.value[k]]])
      PROVE  ValueMeans(type, x, v)
  <2>1. x.t = "struct" /\ x.fields = [k \in DOMAIN class.value |-> d[class.value[k]]]
    BY <1>6 DEF Struct
  <2>2. DOMAIN x.fields = DOMAIN Structs[type]
    BY <2>1 DEF Mirrors
  <2>3. ASSUME NEW k \in DOMAIN x.fields
        PROVE  AtomMeans(x.fields[k], v.members[DocumentedMember(Structs[type][k].name)])
    <3>1. k \in DOMAIN class.value /\ x.fields[k] = d[class.value[k]]
      BY <2>1
    <3>2. class.value[k] \in members /\ class.value[k] = DocumentedMember(Structs[type][k].name)
      BY <3>1 DEF Mirrors
    <3>3. d[class.value[k]] \in outcomes[class.value[k]]
      BY <3>2
    <3> QED
      BY <1>3, <3>1, <3>2, <3>3
  <2> QED
    BY <2>1, <2>2, <2>3 DEF ValueMeans
<1> HIDE DEF found
<1> DEFINE built(d) == Struct([k \in DOMAIN class.value |-> d[class.value[k]]])
<1>7. \A d \in found : ValueMeans(type, built(d), v)
  BY <1>6
<1>8. fromJson(class, v) = { built(d) : d \in found }
  BY <1>4
<1> HIDE DEF built
<1> QED
  BY <1>5, <1>7, <1>8

\* The class of that name, with the struct and the schema it mirrors.
ClassOf(type, json, schema) ==
  /\ type \in DOMAIN Structs /\ json \in DOMAIN JsonData /\ schema \in DOMAIN ObjectSchemas
  /\ Mirrors(JsonData[json], type, ObjectSchemas[schema])

\* Every class mirrors the document's schema and the headers' struct.
LEMMA ClassesMirror ==
  /\ ClassOf("ClosedCaptionsSettings", "ClosedCaptionsSettings", "ClosedCaptionsSettings")
  /\ ClassOf("VoiceGuidanceSettings", "VoiceGuidanceSettings", "VoiceGuidanceSettings")
  /\ ClassOf("Ifa", "IfaJson", "AdvertisingIdResult")
  /\ ClassOf("HDRFormat", "HDRFormat", "HDRFormatMap")
  /\ ClassOf("DisplaySize", "DisplaySizeJson", "Size")
  /\ ClassOf("StateChange", "StateChange", "StateChange")
  /\ ClassOf("MemoryInfo", "MemoryInfo", "MemoryUsage")
  /\ ClassOf("ListVoicesResponse", "ListVoicesResponse", "ListVoicesResponse")
  /\ ClassOf("SpeechIdEvent", "SpeechIdEvent", "SpeechIdEvent")
  /\ ClassOf("SpeechResponse", "SpeechResponse", "SpeechResponse")
  /\ ClassOf("SpeechStateResponse", "SpeechStateResponse", "SpeechStateResponse")
  /\ ClassOf("TTSStatusResponse", "TTSStatusResponse", "TTSStatusResponse")
<1> USE DEF ClassOf, Mirrors, JsonData, Class, ObjectSchemas, Schema, AllOf, Structs, Named, Reads,
            DocumentedMember
<1>1. ClassOf("ClosedCaptionsSettings", "ClosedCaptionsSettings", "ClosedCaptionsSettings")
  BY DEF ClosedCaptions, AccessibilityTypes
<1>2. ClassOf("VoiceGuidanceSettings", "VoiceGuidanceSettings", "VoiceGuidanceSettings")
  BY DEF VoiceGuidance, AccessibilityTypes
<1>3. ClassOf("Ifa", "IfaJson", "AdvertisingIdResult")
  BY DEF IfaJson, IfaType
<1>4. ClassOf("HDRFormat", "HDRFormat", "HDRFormatMap")
  BY DEF HDRFormat, HDRFormatType
<1>5. ClassOf("DisplaySize", "DisplaySizeJson", "Size")
  BY DEF DisplaySizeJson, DisplaySizeType, Size
<1>6. ClassOf("StateChange", "StateChange", "StateChange")
  BY DEF StateChange, StateChangeType
<1>7. ClassOf("MemoryInfo", "MemoryInfo", "MemoryUsage")
  BY DEF MemoryInfo, MemoryInfoType
<1>8. ClassOf("ListVoicesResponse", "ListVoicesResponse", "ListVoicesResponse")
  BY DEF ListVoicesResponse, TextToSpeechTypes
<1>9. ClassOf("SpeechIdEvent", "SpeechIdEvent", "SpeechIdEvent")
  BY DEF SpeechIdEvent, TextToSpeechTypes
<1>10. ClassOf("SpeechResponse", "SpeechResponse", "SpeechResponse")
  BY DEF SpeechResponse, TextToSpeechTypes
<1>11. ClassOf("SpeechStateResponse", "SpeechStateResponse", "SpeechStateResponse")
  BY DEF SpeechStateResponse, TextToSpeechTypes
<1>12. ClassOf("TTSStatusResponse", "TTSStatusResponse", "TTSStatusResponse")
  BY DEF TTSStatusResponse, TextToSpeechTypes
<1> HIDE DEF ClassOf
<1> QED
  BY <1>1, <1>2, <1>3, <1>4, <1>5, <1>6, <1>7, <1>8, <1>9, <1>10, <1>11, <1>12

\* What the header declares, the JSON type and the document's schema, where the
\* three are of one kind.
Matching(type, json, schema) ==
  \/ ClassOf(type, json, schema)
  \/ type = "StateChanges" /\ json = "history" /\ schema = "history"
  \/ /\ type \notin DOMAIN Structs /\ type # "StateChanges"
     /\ json \notin DOMAIN JsonData /\ json # "history"
     /\ schema \notin DOMAIN ObjectSchemas /\ schema # "history"
     /\ Reads(schema, json, type)

\* The names that are no struct, no class and no schema of an object.
LEMMA NoStruct ==
  /\ "uint" \notin DOMAIN Structs /\ "StateChanges" \notin DOMAIN Structs
  /\ "history" \notin DOMAIN JsonData /\ "history" \notin DOMAIN ObjectSchemas
BY DEF Structs, JsonData, ObjectSchemas

\* A documented list of state changes is decoded change by change, exactly.
LEMMA HistoryExact ==
  ASSUME NEW v, Json(v), Conforms("history", v),
         \A k \in DOMAIN v.items : Holds("StateChange", v.items[k])
  PROVE  /\ History(v) # {}
         /\ \A x \in History(v) : Means("StateChanges", x, v)
<1>1. /\ v.t = "array"
      /\ \A k \in DOMAIN v.items : ObjectConforms(ObjectSchemas["StateChange"], v.items[k])
  BY NoStruct DEF Conforms
<1>2. \A k \in DOMAIN v.items : JsonPart(v.items[k])
  BY <1>1 DEF Json
<1>3. /\ "StateChange" \in DOMAIN Structs /\ JsonData["StateChange"] = StateChange
      /\ Mirrors(StateChange, "StateChange", ObjectSchemas["StateChange"])
  <2>1. JsonData["StateChange"] = StateChange
    BY DEF JsonData
  <2> QED
    BY <2>1, ClassesMirror DEF ClassOf
<1>4. ASSUME NEW k \in DOMAIN v.items
      PROVE  /\ fromJson(StateChange, v.items[k]) # {}
             /\ \A x \in fromJson(StateChange, v.items[k]) :
                  ValueMeans("StateChange", x, v.items[k])
  <2>1. v.items[k].t = "object"
    BY <1>1 DEF ObjectConforms
  <2>2. \A f \in DOMAIN v.items[k].members : JsonKind(v.items[k].members[f])
    BY <1>2, <2>1 DEF JsonPart
  <2> QED
    BY <1>1, <1>3, <2>2, ClassExact
<1> DEFINE outcomes == [k \in DOMAIN v.items |-> fromJson(StateChange, v.items[k])]
           found    == { r \in [DOMAIN v.items -> UNION { outcomes[k] : k \in DOMAIN v.items }] :
                           \A k \in DOMAIN v.items : r[k] \in outcomes[k] }
<1>5. History(v) = { Arr(q) : q \in found }
  BY <1>1 DEF History
<1>6. \A k \in DOMAIN v.items : outcomes[k] # {}
  BY <1>4
<1>7. \A k \in DOMAIN v.items : \A x \in outcomes[k] : ValueMeans("StateChange", x, v.items[k])
  BY <1>4
<1> HIDE DEF outcomes
<1>8. found # {}
  <2> DEFINE r == [k \in DOMAIN v.items |-> CHOOSE x \in outcomes[k] : TRUE]
  <2>1. \A k \in DOMAIN v.items : r[k] \in outcomes[k]
    BY <1>6
  <2>2. r \in [DOMAIN v.items -> UNION { outcomes[k] : k \in DOMAIN v.items }]
    BY <2>1
  <2> QED
    BY <2>1, <2>2
<1>9. ASSUME NEW r \in found
      PROVE  Means("StateChanges", Arr(r), v)
  <2>1. Arr(r).t = "array" /\ Arr(r).items = r
    BY DEF Arr
  <2> QED
    BY <1>7, <2>1 DEF Means
<1> HIDE DEF found
<1> QED
  BY <1>5, <1>8, <1>9

\* Where the three are of one kind, what is decoded means what was received.
LEMMA DecodeExact ==
  ASSUME NEW type, NEW json, NEW schema, Matching(type, json, schema),
         Json(message), Conforms(schema, message),
         Declared.result = type, Representable
  PROVE  /\ Decode(json, message) # {}
         /\ \A x \in Decode(json, message) : Means(type, x, message)
<1>1. JsonKind(message)
  BY DEF Json
<1>2. CASE ClassOf(type, json, schema)
  <2>1. /\ type \in DOMAIN Structs /\ type # "uint" /\ type # "StateChanges"
        /\ json \in DOMAIN JsonData /\ json # "history"
        /\ schema \in DOMAIN ObjectSchemas
        /\ Mirrors(JsonData[json], type, ObjectSchemas[schema])
    BY <1>2, NoStruct DEF ClassOf
  <2>2. ObjectConforms(ObjectSchemas[schema], message)
    BY <2>1 DEF Conforms
  <2>3. Holds(type, message)
    BY <2>1 DEF Representable
  <2>4. \A f \in DOMAIN message.members : JsonKind(message.members[f])
    BY <2>2 DEF ObjectConforms, Json, JsonPart
  <2>5. Decode(json, message) = fromJson(JsonData[json], message)
    BY <2>1 DEF Decode
  <2>6. /\ fromJson(JsonData[json], message) # {}
        /\ \A x \in fromJson(JsonData[json], message) : ValueMeans(type, x, message)
    BY <2>1, <2>2, <2>3, <2>4, ClassExact
  <2> QED
    BY <2>1, <2>5, <2>6 DEF Means
<1>3. CASE type = "StateChanges" /\ json = "history" /\ schema = "history"
  <2>1. \A k \in DOMAIN message.items : Holds("StateChange", message.items[k])
    BY <1>3 DEF Representable
  <2>2. Decode(json, message) = History(message)
    BY <1>3, NoStruct DEF Decode
  <2> QED
    BY <1>3, <2>1, <2>2, HistoryExact
<1>4. CASE /\ type \notin DOMAIN Structs /\ type # "StateChanges"
           /\ json \notin DOMAIN JsonData /\ json # "history"
           /\ schema \notin DOMAIN ObjectSchemas /\ schema # "history"
           /\ Reads(schema, json, type)
  <2>1. AtomConforms(schema, message)
    BY <1>4 DEF Conforms
  <2>2. type = "uint" => InRange(message)
    BY <1>4 DEF Representable, Holds
  <2>3. ReadExact(json, message)
    BY <1>1, <1>4, <2>1, <2>2, AtomExact
  <2>4. Decode(json, message) = Read(json, message)
    BY <1>4 DEF Decode
  <2> QED
    BY <1>4, <2>3, <2>4 DEF ReadExact, Means, ValueMeans
<1> QED
  BY <1>2, <1>3, <1>4 DEF Matching

-----------------------------------------------------------------------------
(***************************************************************************)
(* The tables.                                                             *)
(***************************************************************************)
\* The type the headers declare of a documented method or notification.
TypeOf(m) ==
  CASE m \in { "Accessibility.audioDescription", "Accessibility.highContrastUI",
               "Network.connected", "Presentation.focused", "Discovery.watched",
               "Discovery.watchedV2", "Accessibility.onAudioDescriptionChanged",
               "Accessibility.onHighContrastUIChanged", "Network.onConnectedChanged",
               "Presentation.onFocusedChanged" } -> "bool"
    [] m \in { "Actions.intent", "Device.uid", "Device.chipsetId", "Display.edid",
               "Localization.country", "Localization.presentationLanguage", "Actions.onIntent",
               "Localization.onCountryChanged",
               "Localization.onPresentationLanguageChanged" } -> "string"
    [] m \in { "Device.uptime", "Device.timeInActiveState" } -> "uint"
    [] m \in { "Localization.preferredAudioLanguages",
               "Localization.onPreferredAudioLanguagesChanged" } -> "strings"
    [] m = "Device.deviceClass" -> "DeviceClass"
    [] m = "Lifecycle2.state" -> "LifecycleState"
    [] m = "Lifecycle2.onStateChanged" -> "StateChanges"
    [] m \in { "Accessibility.closedCaptionsSettings",
               "Accessibility.onClosedCaptionsSettingsChanged" } -> "ClosedCaptionsSettings"
    [] m \in { "Accessibility.voiceGuidanceSettings",
               "Accessibility.onVoiceGuidanceSettingsChanged" } -> "VoiceGuidanceSettings"
    [] m = "Advertising.advertisingId" -> "Ifa"
    [] m \in { "Device.hdr", "Device.onHdrChanged" } -> "HDRFormat"
    [] m \in { "Display.size", "Display.maxResolution" } -> "DisplaySize"
    [] m = "Stats.memoryUsage" -> "MemoryInfo"
    [] m = "TextToSpeech.listvoices" -> "ListVoicesResponse"
    [] m = "TextToSpeech.speak" -> "SpeechResponse"
    [] m = "TextToSpeech.getspeechstate" -> "SpeechStateResponse"
    [] m \in { "TextToSpeech.pause", "TextToSpeech.resume",
               "TextToSpeech.cancel" } -> "TTSStatusResponse"
    [] m \in { "TextToSpeech.onWillspeak", "TextToSpeech.onSpeechstart",
               "TextToSpeech.onSpeechpause", "TextToSpeech.onSpeechresume",
               "TextToSpeech.onSpeechcomplete", "TextToSpeech.onSpeechinterrupted",
               "TextToSpeech.onNetworkerror", "TextToSpeech.onPlaybackerror" } -> "SpeechIdEvent"
    [] OTHER -> "void"

\* The implementation's name for a type of the headers.
JsonFor(type, json) ==
  \/ type = "Ifa" /\ json = "IfaJson"
  \/ type = "DisplaySize" /\ json = "DisplaySizeJson"
  \/ type = "StateChanges" /\ json = "history"
  \/ type \notin { "Ifa", "DisplaySize", "StateChanges" } /\ json = type

\* The document's.
SchemaFor(type, schema) ==
  \/ type = "bool" /\ schema = "boolean"
  \/ type = "uint" /\ schema = "number"
  \/ type = "void" /\ schema = "null"
  \/ type = "Ifa" /\ schema = "AdvertisingIdResult"
  \/ type = "HDRFormat" /\ schema = "HDRFormatMap"
  \/ type = "DisplaySize" /\ schema = "Size"
  \/ type = "MemoryInfo" /\ schema = "MemoryUsage"
  \/ type = "StateChanges" /\ schema = "history"
  \/ /\ type \notin { "bool", "uint", "void", "Ifa", "HDRFormat", "DisplaySize", "MemoryInfo",
                      "StateChanges" }
     /\ schema = type

\* The header declares it with the type that is the document's for it.
Typed(d) == \A m : m = DocumentedName(d.call) => d.result = TypeOf(m)

\* The requests of Metrics, which are documented under their own names.
MetricsNames ==
  { "Metrics.ready", "Metrics.signIn", "Metrics.signOut", "Metrics.startContent",
    "Metrics.stopContent", "Metrics.page", "Metrics.error", "Metrics.mediaLoadStart",
    "Metrics.mediaPlaying", "Metrics.mediaPlay", "Metrics.mediaPause", "Metrics.mediaWaiting",
    "Metrics.mediaSeeking", "Metrics.mediaSeeked", "Metrics.mediaRateChanged",
    "Metrics.mediaRenditionChanged", "Metrics.mediaEnded", "Metrics.event", "Metrics.appInfo" }

\* Nothing comes back for the requests of Metrics.
LEMMA MetricsVoid ==
  ASSUME NEW n \in MetricsNames
  PROVE  DocumentedName(n) = n /\ TypeOf(n) = "void"
<1>1. DocumentedName(n) = n
  BY DEF MetricsNames, DocumentedName
<1>2. TypeOf(n) = "void"
  BY DEF MetricsNames, TypeOf
<1> QED
  BY <1>1, <1>2

\* And so their header says.
LEMMA MetricsTyped ==
  \A r \in MetricsAppRequests \union MetricsPlaybackRequests \union MetricsStreamRequests :
    Typed(r)
<1>1. \A r \in MetricsAppRequests : r.call \in MetricsNames /\ r.result = "void"
  BY DEF MetricsAppRequests, MetricsNames, Getter, Request
<1>2. \A r \in MetricsPlaybackRequests : r.call \in MetricsNames /\ r.result = "void"
  BY DEF MetricsPlaybackRequests, MetricsNames, Request
<1>3. \A r \in MetricsStreamRequests : r.call \in MetricsNames /\ r.result = "void"
  BY DEF MetricsStreamRequests, MetricsNames, Request
<1> QED
  BY <1>1, <1>2, <1>3, MetricsVoid DEF Typed

\* Every header declares the type that TypeOf has for the documented name.
LEMMA HeaderTyped ==
  ASSUME NEW i \in Accessors
  PROVE  (\A r \in i.requests : Typed(r)) /\ (\A e \in i.events : Typed(e))
<1> DEFINE Fits(h) == (\A r \in h.requests : Typed(r)) /\ (\A e \in h.events : Typed(e))
<1> USE DEF Header, Getter, Request, Event, Typed, TypeOf, DocumentedName
<1>1. Fits(IAccessibility)
  BY DEF IAccessibility
<1>2. Fits(IActions)
  BY DEF IActions
<1>3. Fits(IAdvertising)
  BY DEF IAdvertising
<1>4. Fits(IDevice)
  BY DEF IDevice
<1>5. Fits(IDiscovery)
  BY DEF IDiscovery
<1>6. Fits(IDisplay)
  BY DEF IDisplay
<1>7. Fits(ILifecycle)
  BY DEF ILifecycle
<1>8. Fits(ILocalization)
  BY DEF ILocalization
<1>9. Fits(INetwork)
  BY DEF INetwork
<1>10. Fits(IPresentation)
  BY DEF IPresentation
<1>11. Fits(IStats)
  BY DEF IStats
<1>12. Fits(Header(TextToSpeechRequests, TextToSpeechEvents))
  BY DEF TextToSpeechRequests, TextToSpeechEvents
<1>13. Fits(Header(MetricsAppRequests \union MetricsPlaybackRequests \union MetricsStreamRequests,
                   {}))
  BY MetricsTyped
<1> HIDE DEF Fits
<1>14. Fits(i)
  BY <1>1, <1>2, <1>3, <1>4, <1>5, <1>6, <1>7, <1>8, <1>9, <1>10, <1>11, <1>12, <1>13
     DEF Accessors
<1> QED
  BY <1>14 DEF Fits

\* The name of a type of the headers that is the implementation's, and the
\* document's, too.
LEMMA JsonNames ==
  /\ JsonFor("Ifa", "IfaJson") /\ JsonFor("DisplaySize", "DisplaySizeJson")
  /\ JsonFor("StateChanges", "history")
  /\ \A t : t \notin { "Ifa", "DisplaySize", "StateChanges" } => JsonFor(t, t)
BY DEF JsonFor

\* Every answer is read with the JSON type for that.
LEMMA CallsTyped ==
  \A c \in Calls : JsonFor(TypeOf(c.method), c.result)
<1> DEFINE Fit(c) == JsonFor(TypeOf(c.method), c.result)
<1> USE JsonNames DEF Get, Same, Call
<1>1. \A c \in AccessibilityCalls \union NetworkCalls \union PresentationCalls : Fit(c)
  <2>1. /\ TypeOf("Accessibility.audioDescription") = "bool"
        /\ TypeOf("Accessibility.highContrastUI") = "bool"
        /\ TypeOf("Accessibility.closedCaptionsSettings") = "ClosedCaptionsSettings"
        /\ TypeOf("Accessibility.voiceGuidanceSettings") = "VoiceGuidanceSettings"
        /\ TypeOf("Network.connected") = "bool"
        /\ TypeOf("Presentation.focused") = "bool"
    BY DEF TypeOf
  <2> QED
    BY <2>1 DEF AccessibilityCalls, NetworkCalls, PresentationCalls
<1>2. \A c \in ActionsCalls \union AdvertisingCalls \union StatsCalls : Fit(c)
  <2>1. /\ TypeOf("Actions.intent") = "string"
        /\ TypeOf("Advertising.advertisingId") = "Ifa"
        /\ TypeOf("Stats.memoryUsage") = "MemoryInfo"
    BY DEF TypeOf
  <2> QED
    BY <2>1 DEF ActionsCalls, AdvertisingCalls, StatsCalls
<1>3. \A c \in DeviceCalls : Fit(c)
  <2>1. /\ TypeOf("Device.chipsetId") = "string" /\ TypeOf("Device.uid") = "string"
        /\ TypeOf("Device.deviceClass") = "DeviceClass" /\ TypeOf("Device.hdr") = "HDRFormat"
        /\ TypeOf("Device.timeInActiveState") = "uint" /\ TypeOf("Device.uptime") = "uint"
    BY DEF TypeOf
  <2> QED
    BY <2>1 DEF DeviceCalls
<1>4. \A c \in DiscoveryCalls \union DisplayCalls : Fit(c)
  <2>1. /\ TypeOf("Discovery.watched") = "bool" /\ TypeOf("Discovery.watchedV2") = "bool"
        /\ TypeOf("Display.edid") = "string" /\ TypeOf("Display.size") = "DisplaySize"
        /\ TypeOf("Display.maxResolution") = "DisplaySize"
    BY DEF TypeOf
  <2> QED
    BY <2>1 DEF DiscoveryCalls, DisplayCalls
<1>5. \A c \in LifecycleCalls \union LocalizationCalls : Fit(c)
  <2>1. /\ TypeOf("Lifecycle2.close") = "void" /\ TypeOf("Lifecycle2.state") = "LifecycleState"
        /\ TypeOf("Localization.country") = "string"
        /\ TypeOf("Localization.preferredAudioLanguages") = "strings"
        /\ TypeOf("Localization.presentationLanguage") = "string"
    BY DEF TypeOf
  <2> QED
    BY <2>1 DEF LifecycleCalls, LocalizationCalls
<1>6. \A c \in TextToSpeechCalls : Fit(c)
  <2>1. /\ TypeOf("TextToSpeech.listvoices") = "ListVoicesResponse"
        /\ TypeOf("TextToSpeech.speak") = "SpeechResponse"
        /\ TypeOf("TextToSpeech.getspeechstate") = "SpeechStateResponse"
        /\ TypeOf("TextToSpeech.pause") = "TTSStatusResponse"
        /\ TypeOf("TextToSpeech.resume") = "TTSStatusResponse"
        /\ TypeOf("TextToSpeech.cancel") = "TTSStatusResponse"
    BY DEF TypeOf
  <2> QED
    BY <2>1 DEF TextToSpeechCalls
<1>7. \A c \in UNION { MetricsPlainCalls, MetricsContentCalls, MetricsPageCalls, MetricsErrorCalls,
                       MetricsMediaCalls, MetricsSeekCalls, MetricsRateCalls, MetricsLastCalls } :
        Fit(c)
  <2>1. \A c \in MetricsPlainCalls \union MetricsContentCalls \union MetricsPageCalls
                   \union MetricsErrorCalls :
          c.method \in MetricsNames /\ c.result = "void"
    BY DEF MetricsPlainCalls, MetricsContentCalls, MetricsPageCalls, MetricsErrorCalls, MetricsNames
  <2>2. \A c \in MetricsMediaCalls \union MetricsSeekCalls \union MetricsRateCalls
                   \union MetricsLastCalls :
          c.method \in MetricsNames /\ c.result = "void"
    BY DEF MetricsMediaCalls, MetricsSeekCalls, MetricsRateCalls, MetricsLastCalls, MetricsNames
  <2> QED
    BY <2>1, <2>2, MetricsVoid
<1> HIDE DEF Fit
<1>8. \A c \in Calls : Fit(c)
  BY <1>1, <1>2, <1>3, <1>4, <1>5, <1>6, <1>7 DEF Calls
<1> QED
  BY <1>8 DEF Fit

\* A notification is documented, and read as the type that its header declares.
Notifies(n) ==
  /\ n.method = DocumentedName(n.call)
  /\ \E e \in Events : e.method = n.method
  /\ JsonFor(TypeOf(n.method), n.type)

\* Every notification is documented, and read with the JSON type for that.
LEMMA NoticesTyped == \A n \in Notices : Notifies(n)
<1> USE DEF On, Notified
<1>1. \A n \in Notices : n.method = DocumentedName(n.call)
  BY DEF Notices, AccessibilityNotices, LocalizationNotices, TextToSpeechNotices, ActionsNotices,
         DeviceNotices, LifecycleNotices, NetworkNotices, PresentationNotices, DocumentedName
<1>2. \A n \in Notices : \E e \in Events : e.method = n.method
  <2> USE DEF Events
  <2> DEFINE Found(n) == \E y : Carries(n.method, y) \in Events
  <2>1. \A n \in AccessibilityNotices : Found(n)
    BY DEF AccessibilityNotices
  <2>2. \A n \in LocalizationNotices : Found(n)
    BY DEF LocalizationNotices
  <2>3. \A n \in TextToSpeechNotices : Found(n)
    BY DEF TextToSpeechNotices
  <2>4. \A n \in ActionsNotices \union DeviceNotices : Found(n)
    BY DEF ActionsNotices, DeviceNotices
  <2>5. \A n \in LifecycleNotices \union NetworkNotices \union PresentationNotices : Found(n)
    BY DEF LifecycleNotices, NetworkNotices, PresentationNotices
  <2> HIDE DEF Found
  <2>6. \A n \in Notices : Found(n)
    BY <2>1, <2>2, <2>3, <2>4, <2>5 DEF Notices
  <2> HIDE DEF Events
  <2> QED
    BY <2>6 DEF Found, Carries
<1>3. \A n \in Notices : JsonFor(TypeOf(n.method), n.type)
  <2> USE JsonNames
  <2> DEFINE Fit(n) == JsonFor(TypeOf(n.method), n.type)
  <2>1. \A n \in AccessibilityNotices : Fit(n)
    <3>1. /\ TypeOf("Accessibility.onAudioDescriptionChanged") = "bool"
          /\ TypeOf("Accessibility.onHighContrastUIChanged") = "bool"
          /\ TypeOf("Accessibility.onClosedCaptionsSettingsChanged") = "ClosedCaptionsSettings"
          /\ TypeOf("Accessibility.onVoiceGuidanceSettingsChanged") = "VoiceGuidanceSettings"
      BY DEF TypeOf
    <3> QED
      BY <3>1 DEF AccessibilityNotices
  <2>2. \A n \in LocalizationNotices : Fit(n)
    <3>1. /\ TypeOf("Localization.onCountryChanged") = "string"
          /\ TypeOf("Localization.onPreferredAudioLanguagesChanged") = "strings"
          /\ TypeOf("Localization.onPresentationLanguageChanged") = "string"
      BY DEF TypeOf
    <3> QED
      BY <3>1 DEF LocalizationNotices
  <2>3. \A n \in TextToSpeechNotices : Fit(n)
    <3>1. \A m \in { "TextToSpeech.onWillspeak", "TextToSpeech.onSpeechstart",
                     "TextToSpeech.onSpeechpause", "TextToSpeech.onSpeechresume",
                     "TextToSpeech.onSpeechcomplete", "TextToSpeech.onSpeechinterrupted",
                     "TextToSpeech.onNetworkerror", "TextToSpeech.onPlaybackerror" } :
            TypeOf(m) = "SpeechIdEvent"
      BY DEF TypeOf
    <3>2. JsonFor("SpeechIdEvent", "SpeechIdEvent")
      OBVIOUS
    <3> QED
      BY <3>1, <3>2 DEF TextToSpeechNotices
  <2>4. \A n \in ActionsNotices \union DeviceNotices : Fit(n)
    <3>1. TypeOf("Actions.onIntent") = "string" /\ TypeOf("Device.onHdrChanged") = "HDRFormat"
      BY DEF TypeOf
    <3> QED
      BY <3>1 DEF ActionsNotices, DeviceNotices
  <2>5. \A n \in LifecycleNotices \union NetworkNotices \union PresentationNotices : Fit(n)
    <3>1. /\ TypeOf("Lifecycle2.onStateChanged") = "StateChanges"
          /\ TypeOf("Network.onConnectedChanged") = "bool"
          /\ TypeOf("Presentation.onFocusedChanged") = "bool"
      BY DEF TypeOf
    <3> QED
      BY <3>1 DEF LifecycleNotices, NetworkNotices, PresentationNotices
  <2> HIDE DEF Fit
  <2>6. \A n \in Notices : Fit(n)
    BY <2>1, <2>2, <2>3, <2>4, <2>5 DEF Notices
  <2> QED
    BY <2>6 DEF Fit
<1> QED
  BY <1>1, <1>2, <1>3 DEF Notifies

\* The document's names of the types of the headers.
LEMMA SchemaNames ==
  /\ SchemaFor("bool", "boolean") /\ SchemaFor("uint", "number") /\ SchemaFor("void", "null")
  /\ SchemaFor("Ifa", "AdvertisingIdResult") /\ SchemaFor("HDRFormat", "HDRFormatMap")
  /\ SchemaFor("DisplaySize", "Size") /\ SchemaFor("MemoryInfo", "MemoryUsage")
  /\ SchemaFor("StateChanges", "history")
  /\ \A t : t \notin { "bool", "uint", "void", "Ifa", "HDRFormat", "DisplaySize", "MemoryInfo",
                       "StateChanges" } => SchemaFor(t, t)
BY DEF SchemaFor

\* The getters of the document have the schemas for the types of the headers.
LEMMA GettersTyped == \A d \in GetterMethods : SchemaFor(TypeOf(d.method), d.result)
<1> USE SchemaNames
<1>1. \A n \in { "Accessibility.audioDescription", "Accessibility.highContrastUI",
                 "Network.connected", "Presentation.focused" } : TypeOf(n) = "bool"
  BY DEF TypeOf
<1>2. \A n \in { "Actions.intent", "Device.uid", "Device.chipsetId", "Display.edid",
                 "Localization.country", "Localization.presentationLanguage" } :
        TypeOf(n) = "string"
  BY DEF TypeOf
<1>3. \A n \in { "Device.uptime", "Device.timeInActiveState" } : TypeOf(n) = "uint"
  BY DEF TypeOf
<1>4. \A n \in { "Display.size", "Display.maxResolution" } : TypeOf(n) = "DisplaySize"
  BY DEF TypeOf
<1>5. /\ TypeOf("Accessibility.closedCaptionsSettings") = "ClosedCaptionsSettings"
      /\ TypeOf("Accessibility.voiceGuidanceSettings") = "VoiceGuidanceSettings"
      /\ TypeOf("Advertising.advertisingId") = "Ifa"
      /\ TypeOf("Device.deviceClass") = "DeviceClass"
      /\ TypeOf("Device.hdr") = "HDRFormat"
      /\ TypeOf("Lifecycle2.state") = "LifecycleState"
      /\ TypeOf("Localization.preferredAudioLanguages") = "strings"
      /\ TypeOf("Stats.memoryUsage") = "MemoryInfo"
  BY DEF TypeOf
<1> QED
  BY <1>1, <1>2, <1>3, <1>4, <1>5 DEF GetterMethods, Gives, Method

\* And so have its other methods and its events.
LEMMA SchemasTyped ==
  \A d \in Methods \union Events : SchemaFor(TypeOf(d.method), d.result)
<1> DEFINE Fit(d) == SchemaFor(TypeOf(d.method), d.result)
<1> USE SchemaNames DEF Method
<1>1. \A d \in DiscoveryMethods : Fit(d)
  <2>1. TypeOf("Discovery.watched") = "bool" /\ TypeOf("Discovery.watchedV2") = "bool"
    BY DEF TypeOf
  <2> QED
    BY <2>1 DEF DiscoveryMethods
<1>2. \A d \in TextToSpeechMethods : Fit(d)
  <2>1. /\ TypeOf("TextToSpeech.listvoices") = "ListVoicesResponse"
        /\ TypeOf("TextToSpeech.speak") = "SpeechResponse"
        /\ TypeOf("TextToSpeech.getspeechstate") = "SpeechStateResponse"
        /\ TypeOf("TextToSpeech.pause") = "TTSStatusResponse"
        /\ TypeOf("TextToSpeech.resume") = "TTSStatusResponse"
        /\ TypeOf("TextToSpeech.cancel") = "TTSStatusResponse"
    BY DEF TypeOf
  <2> QED
    BY <2>1 DEF TextToSpeechMethods
<1>3. \A d \in Events : Fit(d)
  <2>1. \A m \in { "Accessibility.onAudioDescriptionChanged",
                   "Accessibility.onHighContrastUIChanged", "Network.onConnectedChanged",
                   "Presentation.onFocusedChanged" } : TypeOf(m) = "bool"
    BY DEF TypeOf
  <2>2. \A m \in { "Actions.onIntent", "Localization.onCountryChanged",
                   "Localization.onPresentationLanguageChanged" } : TypeOf(m) = "string"
    BY DEF TypeOf
  <2>3. \A m \in { "TextToSpeech.onWillspeak", "TextToSpeech.onSpeechstart",
                   "TextToSpeech.onSpeechpause", "TextToSpeech.onSpeechresume",
                   "TextToSpeech.onSpeechcomplete", "TextToSpeech.onSpeechinterrupted",
                   "TextToSpeech.onNetworkerror", "TextToSpeech.onPlaybackerror" } :
          TypeOf(m) = "SpeechIdEvent"
    BY DEF TypeOf
  <2>4. /\ TypeOf("Accessibility.onClosedCaptionsSettingsChanged") = "ClosedCaptionsSettings"
        /\ TypeOf("Accessibility.onVoiceGuidanceSettingsChanged") = "VoiceGuidanceSettings"
        /\ TypeOf("Device.onHdrChanged") = "HDRFormat"
        /\ TypeOf("Lifecycle2.onStateChanged") = "StateChanges"
        /\ TypeOf("Localization.onPreferredAudioLanguagesChanged") = "strings"
    BY DEF TypeOf
  <2> QED
    BY <2>1, <2>2, <2>3, <2>4 DEF Events, Carries
<1>4. \A d \in MetricsMethods : Fit(d)
  <2>1. \A d \in MetricsMethods : d.method \in MetricsNames /\ d.result = "null"
    BY DEF MetricsMethods, MetricsNames, Gives
  <2> QED
    BY <2>1, MetricsVoid
<1>5. Fit(Method("Lifecycle2.close", [type |-> "CloseType"], Nothing, "null"))
  <2>1. TypeOf("Lifecycle2.close") = "void"
    BY DEF TypeOf
  <2> QED
    BY <2>1
<1> QED
  BY <1>1, <1>2, <1>3, <1>4, <1>5, GettersTyped DEF Methods

\* The JSON type and the schema for a type of the headers match.
LEMMA TypesMatch ==
  ASSUME NEW m, NEW json, NEW schema,
         JsonFor(TypeOf(m), json), SchemaFor(TypeOf(m), schema)
  PROVE  Matching(TypeOf(m), json, schema)
<1> DEFINE type == TypeOf(m)
<1>1. type \in { "bool", "string", "uint", "strings", "DeviceClass", "LifecycleState", "void",
                 "StateChanges", "ClosedCaptionsSettings", "VoiceGuidanceSettings", "Ifa", "HDRFormat",
                 "DisplaySize", "MemoryInfo", "ListVoicesResponse", "SpeechResponse",
                 "SpeechStateResponse", "TTSStatusResponse", "SpeechIdEvent" }
  BY DEF TypeOf
<1> HIDE DEF type
<1>2. JsonFor(type, json) /\ SchemaFor(type, schema)
  BY DEF type
<1>3. CASE type \in { "bool", "string", "uint", "strings", "DeviceClass", "LifecycleState", "void" }
  <2>1. Reads(schema, json, type) /\ json = type
    BY <1>2, <1>3 DEF JsonFor, SchemaFor, Reads
  <2>2. /\ type \notin DOMAIN Structs /\ type # "StateChanges"
        /\ json \notin DOMAIN JsonData /\ json # "history"
    BY <1>3, <2>1 DEF Structs, JsonData
  <2>3. schema \notin DOMAIN ObjectSchemas /\ schema # "history"
    BY <2>1 DEF Reads, ObjectSchemas
  <2> QED
    BY <2>1, <2>2, <2>3 DEF Matching, type
<1>4. CASE type = "StateChanges"
  BY <1>2, <1>4 DEF JsonFor, SchemaFor, Matching, type
<1>5. CASE type \in { "ClosedCaptionsSettings", "VoiceGuidanceSettings", "Ifa", "HDRFormat",
                      "DisplaySize", "MemoryInfo", "ListVoicesResponse", "SpeechResponse",
                      "SpeechStateResponse", "TTSStatusResponse", "SpeechIdEvent" }
  <2>1. ClassOf(type, json, schema)
    BY <1>2, <1>5, ClassesMirror DEF JsonFor, SchemaFor
  <2> QED
    BY <2>1 DEF Matching, type
<1> QED
  BY <1>1, <1>3, <1>4, <1>5

-----------------------------------------------------------------------------
(***************************************************************************)
(* What was answered or notified.                                          *)
(***************************************************************************)
\* The header of what was called or subscribed with declares its documented type.
LEMMA DeclaredTyped ==
  ASSUME call \in Calls \union Notices
  PROVE  Declared.result = TypeOf(DocumentedName(call.call))
<1>1. \E d \in Requests \union EventsDeclared : d.call = call.call
  BY OverrideAssumption
<1>2. Declared \in Requests \union EventsDeclared /\ Declared.call = call.call
  BY <1>1 DEF Declared
<1>3. Typed(Declared)
  BY <1>2, HeaderTyped DEF Requests, EventsDeclared
<1> QED
  BY <1>2, <1>3 DEF Typed

\* The document has what was called or subscribed with, and a schema of that type.
LEMMA DocumentTyped ==
  ASSUME call \in Calls \union Notices
  PROVE  SchemaFor(TypeOf(DocumentedName(call.call)), ResultSchema)
<1>1. \E d \in Methods \union Events : d.method = DocumentedName(call.call)
  <2>1. CASE call \in Calls
    <3>1. PICK r \in Requests : r.call = call.call
      BY <2>1, OverrideAssumption
    <3> QED
      BY <3>1, RequestsDocumented DEF IsDocumented, Describes
  <2>2. CASE call \in Notices
    BY <2>2, NoticesTyped DEF Notifies
  <2> QED
    BY <2>1, <2>2
<1> DEFINE d == CHOOSE d \in Methods \union Events : d.method = DocumentedName(call.call)
<1>2. d \in Methods \union Events /\ d.method = DocumentedName(call.call)
  BY <1>1
<1>3. ResultSchema = d.result
  BY DEF ResultSchema
<1> HIDE DEF d
<1> QED
  BY <1>2, <1>3, SchemasTyped

\* What the document allows, and the declared type can hold, arrives and says
\* what it said on the wire, for every answer and every notification.
THEOREM ExactWhenDocumentedAlways == Spec => []ExactWhenDocumented
<1>1. Exchanged => ExactWhenDocumented
  <2> SUFFICES ASSUME Exchanged, Answered, Documented, Representable
               PROVE  outcome.ok /\ Means(Declared.result, outcome.value, message)
    BY DEF ExactWhenDocumented
  <2>1. PICK type : /\ call \in Calls \union Notices
                    /\ JsonFor(TypeOf(DocumentedName(call.call)), type)
                    /\ DecodedAs(type)
    <3>1. \/ call \in Calls /\ DecodedAs(call.result)
          \/ call \in Notices /\ DecodedAs(call.type)
      BY DEF Answered, Exchanged
    <3>2. CASE call \in Calls /\ DecodedAs(call.result)
      <4>1. call.method = DocumentedName(call.call)
        BY <3>2, CallsAgree DEF Agrees
      <4> QED
        BY <3>2, <4>1, CallsTyped
    <3>3. CASE call \in Notices /\ DecodedAs(call.type)
      BY <3>3, NoticesTyped DEF Notifies
    <3> QED
      BY <3>1, <3>2, <3>3
  <2>2. /\ Declared.result = TypeOf(DocumentedName(call.call))
        /\ SchemaFor(TypeOf(DocumentedName(call.call)), ResultSchema)
    BY <2>1, DeclaredTyped, DocumentTyped
  <2>3. Matching(Declared.result, type, ResultSchema)
    BY <2>1, <2>2, TypesMatch
  <2>4. Json(message) /\ Conforms(ResultSchema, message)
    BY <2>1 DEF DecodedAs, Documented
  <2>5. /\ Decode(type, message) # {}
        /\ \A x \in Decode(type, message) : Means(Declared.result, x, message)
    BY <2>3, <2>4, DecodeExact
  <2> QED
    BY <2>1, <2>5 DEF DecodedAs
<1> QED
  BY <1>1, ExchangedAlways, PTL
=============================================================================
