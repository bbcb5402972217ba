------------------------------ MODULE Exchange ------------------------------
(***************************************************************************)
(* One request of the application, or one notification, from the call to   *)
(* its outcome: what an interface sends, what may come back, and what the  *)
(* application is handed.  The requests of the interfaces share no state,  *)
(* so one exchange at a time stands for all of them.                       *)
(*                                                                         *)
(* The other side of the connection is not trusted to follow the OpenRPC   *)
(* document: any value of Payloads may come back.                          *)
(***************************************************************************)
EXTENDS Calls, OpenRpc

CONSTANTS
  Arguments,   \* for each type of an argument, the values calls are made with
  Payloads     \* for each JSON type, the JSON values that may come back for it

Absent == [t |-> "absent"]      \* std::nullopt for an optional argument

\* A value with no absent member read: what is decoded nests no deeper.
Whole(v) ==
  /\ v # Crash
  /\ v.t = "object" => \A f \in DOMAIN v.members : v.members[f] # Crash
  /\ v.t = "struct" => \A k \in DOMAIN v.fields : v.fields[k] # Crash

WholeValue(v) ==
  /\ Whole(v)
  /\ v.t = "array" => \A k \in DOMAIN v.items : Whole(v.items[k])

\* The classes are not abstract: they override every member of the headers.
ASSUME OverrideAssumption ==
  /\ { r.call : r \in Requests } = { c.call : c \in Calls }
  /\ { e.call : e \in EventsDeclared } = { n.call : n \in Notices }

\* What comes back is JSON: a value of one of its kinds, and so are its items
\* or members, and theirs.
JsonKind(v) ==
  CASE v.t = "null"    -> v = Null
    [] v.t = "boolean" -> v = Bool(v.b) /\ v.b \in BOOLEAN
    [] v.t = "integer" -> v = Num(v.n) /\ v.n \in Int
    [] v.t = "float"   -> v = Float(v.halves) /\ v.halves \in Int
    [] v.t = "string"  -> v = Str(v.s)
    [] v.t = "array"   -> v = Arr(v.items) /\ DOMAIN v.items = 1 .. Len(v.items)
    [] v.t = "object"  -> v = Obj(v.members)
    [] OTHER           -> FALSE

JsonPart(v) ==
  /\ JsonKind(v)
  /\ v.t = "array"  => \A k \in DOMAIN v.items : JsonKind(v.items[k])
  /\ v.t = "object" => \A f \in DOMAIN v.members : JsonKind(v.members[f])

Json(v) ==
  /\ JsonKind(v)
  /\ v.t = "array"  => \A k \in DOMAIN v.items : JsonPart(v.items[k])
  /\ v.t = "object" => \A f \in DOMAIN v.members : JsonPart(v.members[f])

ASSUME PayloadsAssumption ==
  /\ \A c \in Calls : \A v \in Payloads[c.result] : Json(v)
  /\ \A n \in Notices : \A v \in Payloads[n.type] : Json(v)

\* An argument is a value of its C++ type.
ASSUME ArgumentsAssumption ==
  /\ Arguments["bool"] \subseteq { Bool(b) : b \in BOOLEAN }
  /\ \A v \in Arguments["string"]  : v = Str(v.s)
  /\ \A v \in Arguments["double"]  : v = Float(v.halves) /\ v.halves \in Int
  /\ \A v \in Arguments["uint"]    : v = Num(v.n) /\ v.n \in 0 .. UintLimit - 1
  /\ \A v \in Arguments["flatmap"] :
       v = Obj(v.members) /\ \A f \in DOMAIN v.members : v.members[f].t = "string"
  /\ \A type \in {"AgePolicy", "CloseType", "ErrorType"} :
       Arguments[type] \subseteq { Enumerator(e) : e \in Enums[type] }

VARIABLES
  stage,     \* "idle", "sent" (a request is out) or "done"
  call,      \* the request or notification the exchange is about
  given,     \* the arguments of the request, in the caller's order
  message,   \* the parameters sent; once done, the JSON value received
  outcome    \* what the application is handed: a value or an error

vars == <<stage, call, given, message, outcome>>

Value(x) == [ok |-> TRUE, value |-> x]
Error(e) == [ok |-> FALSE, error |-> e]
None     == Error("None")
NoCall   == On("none", "none")

-----------------------------------------------------------------------------
(***************************************************************************)
(* The parameters of a request.                                            *)
(***************************************************************************)
\* The arguments a request can be called with, in the order of the header.
ArgumentLists(args) ==
  LET choices == [k \in DOMAIN args |->
                    Arguments[args[k].type] \union IF args[k].optional THEN {Absent} ELSE {}]
  IN  { q \in [DOMAIN args -> UNION { choices[k] : k \in DOMAIN args }] :
          \A k \in DOMAIN args : q[k] \in choices[k] }

\* How an argument is put into the parameters: enumerators as their text.
Encode(type, a) ==
  CASE type = "AgePolicy" -> ToText(AgePolicyEnum, a)
    [] type = "CloseType" -> ToText(CloseReasonEnum, a)
    [] type = "ErrorType" -> ToText(ErrorTypeEnum, a)
    [] OTHER              -> a

\* The parameters of a call: the argument of every position that is given,
\* under its name.  A JSON value nothing was assigned to is null.
Parameters(args, sends, q) ==
  LET sent == { k \in DOMAIN q : q[k] # Absent }
  IN  IF sent = {} THEN Null
      ELSE Obj([p \in { sends[k] : k \in sent } |->
                  LET k == CHOOSE i \in sent : sends[i] = p
                  IN  Encode(args[k].type, q[k])])

-----------------------------------------------------------------------------
(***************************************************************************)
(* The exchange.                                                           *)
(***************************************************************************)
Init ==
  /\ stage = "idle"
  /\ call = NoCall
  /\ given = <<>>
  /\ message = Null
  /\ outcome = None

\* The application calls a method: IHelper::get() or invoke() is entered.
Invoke ==
  /\ stage = "idle"
  /\ \E c \in Calls, r \in Requests :
       /\ r.call = c.call
       /\ call' = c
       /\ given' \in ArgumentLists(r.args)
       /\ message' = Parameters(r.args, c.sends, given')
  /\ stage' = "sent"
  /\ UNCHANGED outcome

\* A result came back: it is decoded, or the call fails with InvalidParams.
Answer ==
  /\ stage = "sent"
  /\ \E v \in Payloads[call.result] :
       /\ message' = v
       /\ IF Decode(call.result, v) = {}
          THEN outcome' = Error("InvalidParams")
          ELSE \E x \in Decode(call.result, v) : outcome' = Value(x)
  /\ stage' = "done"
  /\ UNCHANGED <<call, given>>

\* An error response, no response in time, or no connection.
NoAnswer ==
  /\ stage = "sent"
  /\ outcome' = Error("NoAnswer")
  /\ message' = Null
  /\ stage' = "done"
  /\ UNCHANGED <<call, given>>

\* A notification: the subscribers are told what it decodes to, or nothing.
Notice ==
  /\ stage = "idle"
  /\ \E n \in Notices : \E v \in Payloads[n.type] :
       /\ call' = n
       /\ message' = v
       /\ IF Decode(n.type, v) = {}
          THEN outcome' = Error("Dropped")
          ELSE \E x \in Decode(n.type, v) : outcome' = Value(x)
  /\ stage' = "done"
  /\ UNCHANGED given

\* The application takes the outcome; it is free to call again.
Settle ==
  /\ stage = "done"
  /\ stage' = "idle"
  /\ call' = NoCall
  /\ given' = <<>>
  /\ message' = Null
  /\ outcome' = None

Next == Invoke \/ Answer \/ NoAnswer \/ Notice \/ Settle

Spec == Init /\ [][Next]_vars

-----------------------------------------------------------------------------
(***************************************************************************)
(* The properties.                                                         *)
(***************************************************************************)
\* What goes out as parameters.  Null is no parameters at all: whoever takes a
\* request leaves "params" out of it then, as the unit tests' helper does
\* (src/test/unit/mock_helper.h:79, 119).
Sent == IF message = Null THEN Obj(Nothing) ELSE message

\* What the header declares of the member that was called or subscribed with.
Declared == CHOOSE d \in Requests \union EventsDeclared : d.call = call.call

\* The headers ask for more than the C++ type does of an argument of some names:
\* a position is a fraction or a whole number of seconds up to a day, and no
\* progress is negative.
Asked(name, a) ==
  /\ name \in {"target", "position"} =>
       Halves(a) \in 0 .. 2 * DayLong /\ (Halves(a) = 1 \/ Halves(a) % 2 = 0)
  /\ name = "progress" => Halves(a) >= 0

\* The caller gives what the headers ask for.
AsAsked ==
  \A k \in DOMAIN given : given[k] # Absent => Asked(Declared.args[k].name, given[k])

\* A request of such a caller is one the OpenRPC document describes: the method
\* exists, every required parameter is there under its documented name, none is
\* there that the document does not have, and each conforms to its schema.
RequestsAsDocumented ==
  stage = "sent" /\ AsAsked =>
    \E m \in Methods :
      /\ m.method = call.method
      /\ ObjectConforms(m.params, Sent)
      /\ DOMAIN Sent.members \subseteq DOMAIN m.params.properties

\* x is what the JSON value v says: the same value, the same number, or the
\* enumerator of that text or number.
AtomMeans(x, v) ==
  \/ x = v
  \/ IsNumber(x) /\ IsNumber(v) /\ Halves(x) = Halves(v)
  \/ x.t = "enumerator" /\ v.t = "string" /\ x.e = EnumeratorOf(v.s)
  \/ /\ x.t = "enumerator" /\ IsNumber(v)
     /\ x.e \in Enums.SpeechState /\ Halves(v) = 2 * SpeechStateNumbered(x.e)

\* A request says what it was called for: it names the documented method of
\* the member that was called, and each argument that was given, and no other,
\* is under its documented name and with its value, whatever arguments of the
\* same kind stand beside it.
RequestSaysTheCall ==
  stage = "sent" =>
    /\ call.method = DocumentedName(call.call)
    /\ \A k \in DOMAIN given :
         LET name == DocumentedMember(Declared.args[k].name)
         IN  IF given[k] = Absent THEN name \notin DOMAIN Sent.members
             ELSE name \in DOMAIN Sent.members /\ AtomMeans(given[k], Sent.members[name])

Answered == stage = "done" /\ outcome # Error("NoAnswer")

ResultSchema ==
  (CHOOSE d \in Methods \union Events : d.method = DocumentedName(call.call)).result

Documented == Conforms(ResultSchema, message)

InRange(v) == Halves(v) % 2 = 0 /\ Halves(v) \in 0 .. 2 * UintLimit - 1

\* The C++ type of the headers can hold the documented value v: no member is
\* missing, and what is a uint32_t there is a whole number in range.
Holds(type, v) ==
  CASE type = "uint"           -> InRange(v)
    [] type \in DOMAIN Structs -> \A k \in DOMAIN Structs[type] :
         LET f == DocumentedMember(Structs[type][k].name)
         IN  f \in DOMAIN v.members /\ (Structs[type][k].type = "uint" => InRange(v.members[f]))
    [] OTHER -> TRUE

Representable ==
  IF Declared.result = "StateChanges"
  THEN \A k \in DOMAIN message.items : Holds("StateChange", message.items[k])
  ELSE Holds(Declared.result, message)

\* Every member of a struct says what the member it is documented as says.
ValueMeans(type, x, v) ==
  IF type \in DOMAIN Structs
  THEN /\ x.t = "struct" /\ DOMAIN x.fields = DOMAIN Structs[type]
       /\ \A k \in DOMAIN x.fields :
            AtomMeans(x.fields[k], v.members[DocumentedMember(Structs[type][k].name)])
  ELSE AtomMeans(x, v)

Means(type, x, v) ==
  IF type = "StateChanges"
  THEN /\ x.t = "array" /\ DOMAIN x.items = DOMAIN v.items
       /\ \A k \in DOMAIN x.items : ValueMeans("StateChange", x.items[k], v.items[k])
  ELSE ValueMeans(type, x, v)

\* An answer or notification that the OpenRPC document allows, and that the
\* declared C++ type can hold, reaches the application and says there what it
\* said on the wire: no member of a struct is lost, rounded, or filled with
\* another one of the same kind, and a speech's state is the one numbered so.
ExactWhenDocumented ==
  Answered /\ Documented /\ Representable =>
    /\ outcome.ok
    /\ Means(Declared.result, outcome.value, message)

\* Whatever comes back, the application is never handed an object of which a
\* member was read that was not there: each class asks for all that it reads.
NoHalfRead == stage = "done" /\ outcome.ok => WholeValue(outcome.value)

\* A subscription hears its event: the name a notification is registered under
\* is that of an event the OpenRPC document has, and of the one that is
\* documented for the member function that was subscribed with.
HearsItsEvent ==
  stage = "done" /\ call \in Notices =>
    /\ call.method = DocumentedName(call.call)
    /\ \E e \in Events : e.method = call.method

\* Every answer the OpenRPC document allows reaches the application.  The
\* document's optional members are mandatory to the classes.
DocumentedAnswersAccepted ==
  Answered /\ call \in Calls /\ Documented => outcome.ok
=============================================================================
