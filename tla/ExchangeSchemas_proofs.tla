----------------------- MODULE ExchangeSchemas_proofs -----------------------
(***************************************************************************)
(* Theorem about the requests of Exchange and the OpenRPC document: what   *)
(* is sent conforms to the schemas of the documented method.  The tables   *)
(* of the headers (Api) and of the document (OpenRpc) are compared row by  *)
(* row; ExchangeRequests_proofs has compared the headers with the          *)
(* implementation.                                                         *)
(***************************************************************************)
EXTENDS ExchangeRequests_proofs

\* Values of the C++ type, of an argument of that name, conform to the schema s.
Suits(name, type, s) ==
  \/ type = "string" /\ s = "string"
  \/ type = "bool" /\ s = "boolean"
  \/ type = "uint" /\ s \in {"integer", "number"}
  \/ type = "double" /\ s = "number"
  \/ type = "double" /\ name \in {"target", "position"} /\ s = "MediaPosition"
  \/ type = "double" /\ name = "progress" /\ s = "not negative"
  \/ type = "AgePolicy" /\ s = "string"
  \/ type \in {"CloseType", "ErrorType"} /\ s = type
  \/ type = "flatmap" /\ s = "FlatMap"

\* The method m has the parameter p, with the schema s.
Has(m, p, s) == p \in DOMAIN m.params.properties /\ m.params.properties[p] = s

\* The method m has the argument among its parameters, with a schema it suits.
TakesArg(m, arg) ==
  \E s : Has(m, DocumentedMember(arg.name), s) /\ Suits(arg.name, arg.type, s)

\* The request r never goes without the parameter p.
Gets(r, p) ==
  \E k \in DOMAIN r.args : DocumentedMember(r.args[k].name) = p /\ ~r.args[k].optional

\* The method m of the document is the request r of the headers.
Describes(m, r) ==
  /\ m.method = DocumentedName(r.call)
  /\ \A k \in DOMAIN r.args : TakesArg(m, r.args[k])
  /\ \A p \in m.params.required : Gets(r, p)

\* Some method of the document is the request r.
IsDocumented(r) == \E m \in Methods : Describes(m, r)

\* The documented names of the arguments.
LEMMA ArgumentNames ==
  /\ DocumentedMember("speechId") = "speechid"
  /\ DocumentedMember("entityId") = "entityId"
  /\ DocumentedMember("progress") = "progress"
  /\ DocumentedMember("completed") = "completed"
  /\ DocumentedMember("watchedOn") = "watchedOn"
  /\ DocumentedMember("agePolicy") = "agePolicy"
  /\ DocumentedMember("type") = "type"
  /\ DocumentedMember("language") = "language"
  /\ DocumentedMember("text") = "text"
  /\ DocumentedMember("pageId") = "pageId"
  /\ DocumentedMember("code") = "code"
  /\ DocumentedMember("description") = "description"
  /\ DocumentedMember("visible") = "visible"
  /\ DocumentedMember("parameters") = "parameters"
  /\ DocumentedMember("target") = "target"
  /\ DocumentedMember("position") = "position"
  /\ DocumentedMember("rate") = "rate"
  /\ DocumentedMember("bitrate") = "bitrate"
  /\ DocumentedMember("width") = "width"
  /\ DocumentedMember("height") = "height"
  /\ DocumentedMember("profile") = "profile"
  /\ DocumentedMember("schema") = "schema"
  /\ DocumentedMember("data") = "data"
  /\ DocumentedMember("build") = "build"
BY DEF DocumentedMember

\* Which C++ types suit which schemas.
LEMMA Suiting ==
  /\ \A n : Suits(n, "string", "string")
  /\ \A n : Suits(n, "bool", "boolean")
  /\ \A n : Suits(n, "uint", "integer")
  /\ \A n : Suits(n, "uint", "number")
  /\ \A n : Suits(n, "double", "number")
  /\ \A n : Suits(n, "AgePolicy", "string")
  /\ \A n : Suits(n, "CloseType", "CloseType")
  /\ \A n : Suits(n, "ErrorType", "ErrorType")
  /\ \A n : Suits(n, "flatmap", "FlatMap")
  /\ Suits("target", "double", "MediaPosition") /\ Suits("position", "double", "MediaPosition")
  /\ Suits("progress", "double", "not negative")
BY DEF Suits

\* An argument with a parameter of a schema it suits is taken, optional or not.
LEMMA Taken ==
  ASSUME NEW m, NEW n, NEW t, NEW s, Has(m, DocumentedMember(n), s), Suits(n, t, s)
  PROVE  TakesArg(m, Named(n, t)) /\ TakesArg(m, Opt(n, t))
BY DEF TakesArg, Named, Opt

-----------------------------------------------------------------------------
(***************************************************************************)
(* The requests with arguments, row by row.                                *)
(***************************************************************************)
\* The document has the requests of IDiscovery.
LEMMA DiscoveryDescribed ==
  ASSUME NEW c \in { "Discovery.watched", "Discovery.watchedV2" },
         NEW r, r = Request(c, << Named("entityId", "string"), Opt("progress", "double"),
                                  Opt("completed", "bool"), Opt("watchedOn", "string"),
                                  Opt("agePolicy", "AgePolicy") >>, "bool")
  PROVE  IsDocumented(r)
<1>0. PICK m \in Methods :
        m = Method(c, [entityId |-> "string"], WatchedDetails, "boolean")
  BY DEF Methods, DiscoveryMethods
<1>1. /\ m.params.required = {"entityId"}
      /\ Has(m, "entityId", "string")
      /\ Has(m, "progress", "not negative")
      /\ Has(m, "completed", "boolean")
      /\ Has(m, "watchedOn", "string")
      /\ Has(m, "agePolicy", "string")
  BY <1>0 DEF Has, Method, Schema, Joined, WatchedDetails
<1>2. m.method = DocumentedName(r.call)
  BY <1>0 DEF Method, Request, DocumentedName
<1>3. /\ TakesArg(m, Named("entityId", "string"))
      /\ TakesArg(m, Opt("progress", "double"))
      /\ TakesArg(m, Opt("completed", "bool"))
      /\ TakesArg(m, Opt("watchedOn", "string"))
      /\ TakesArg(m, Opt("agePolicy", "AgePolicy"))
  BY <1>1, Suiting, ArgumentNames, Taken
<1>4. \A k \in DOMAIN r.args : TakesArg(m, r.args[k])
  BY <1>3 DEF Request
<1>5. Gets(r, "entityId")
  BY ArgumentNames DEF Request, Gets, Named, Opt
<1>6. \A p \in m.params.required : Gets(r, p)
  BY <1>1, <1>5
<1> QED
  BY <1>2, <1>4, <1>6 DEF Describes, IsDocumented

\* The document has Metrics.startContent and stopContent.
LEMMA ContentDescribed ==
  ASSUME NEW c \in { "Metrics.startContent", "Metrics.stopContent" },
         NEW r, r = Request(c,
                            << Opt("entityId", "string"), Opt("agePolicy", "AgePolicy") >>,
                            "void")
  PROVE  IsDocumented(r)
<1>0. PICK m \in Methods :
        m = Method(c, Nothing, [entityId |-> "string", agePolicy |-> "string"], "null")
  BY DEF Methods, MetricsMethods
<1>1. /\ m.params.required = {}
      /\ Has(m, "entityId", "string")
      /\ Has(m, "agePolicy", "string")
  BY <1>0 DEF Has, Method, Schema, Joined, Nothing
<1>2. m.method = DocumentedName(r.call)
  BY <1>0 DEF Method, Request, DocumentedName
<1>3. /\ TakesArg(m, Opt("entityId", "string"))
      /\ TakesArg(m, Opt("agePolicy", "AgePolicy"))
  BY <1>1, Suiting, ArgumentNames, Taken
<1>4. \A k \in DOMAIN r.args : TakesArg(m, r.args[k])
  BY <1>3 DEF Request
<1> QED
  BY <1>1, <1>2, <1>4 DEF Describes, IsDocumented

\* The document has the playback requests without an argument of their own.
LEMMA MediaDescribed ==
  ASSUME NEW c \in { "Metrics.mediaLoadStart", "Metrics.mediaPlay",
                     "Metrics.mediaPlaying", "Metrics.mediaPause",
                     "Metrics.mediaWaiting", "Metrics.mediaEnded" },
         NEW r, r = Request(c,
                            << Named("entityId", "string"), Opt("agePolicy", "AgePolicy") >>,
                            "void")
  PROVE  IsDocumented(r)
<1>0. PICK m \in Methods :
        m = Method(c, [entityId |-> "string"], Policy, "null")
  BY DEF Methods, MetricsMethods
<1>1. /\ m.params.required = {"entityId"}
      /\ Has(m, "entityId", "string")
      /\ Has(m, "agePolicy", "string")
  BY <1>0 DEF Has, Method, Schema, Joined, Policy
<1>2. m.method = DocumentedName(r.call)
  BY <1>0 DEF Method, Request, DocumentedName
<1>3. /\ TakesArg(m, Named("entityId", "string"))
      /\ TakesArg(m, Opt("agePolicy", "AgePolicy"))
  BY <1>1, Suiting, ArgumentNames, Taken
<1>4. \A k \in DOMAIN r.args : TakesArg(m, r.args[k])
  BY <1>3 DEF Request
<1>5. Gets(r, "entityId")
  BY ArgumentNames DEF Request, Gets, Named, Opt
<1>6. \A p \in m.params.required : Gets(r, p)
  BY <1>1, <1>5
<1> QED
  BY <1>2, <1>4, <1>6 DEF Describes, IsDocumented

\* The document has Metrics.page.
LEMMA PageDescribed ==
  ASSUME NEW r, r = Request("Metrics.page",
                            << Named("pageId", "string"), Opt("agePolicy", "AgePolicy") >>,
                            "void")
  PROVE  IsDocumented(r)
<1>0. PICK m \in Methods :
        m = Method("Metrics.page", [pageId |-> "string"], Policy, "null")
  BY DEF Methods, MetricsMethods
<1>1. /\ m.params.required = {"pageId"}
      /\ Has(m, "pageId", "string")
      /\ Has(m, "agePolicy", "string")
  BY <1>0 DEF Has, Method, Schema, Joined, Policy
<1>2. m.method = DocumentedName(r.call)
  BY <1>0 DEF Method, Request, DocumentedName
<1>3. /\ TakesArg(m, Named("pageId", "string"))
      /\ TakesArg(m, Opt("agePolicy", "AgePolicy"))
  BY <1>1, Suiting, ArgumentNames, Taken
<1>4. \A k \in DOMAIN r.args : TakesArg(m, r.args[k])
  BY <1>3 DEF Request
<1>5. Gets(r, "pageId")
  BY ArgumentNames DEF Request, Gets, Named, Opt
<1>6. \A p \in m.params.required : Gets(r, p)
  BY <1>1, <1>5
<1> QED
  BY <1>2, <1>4, <1>6 DEF Describes, IsDocumented

\* The document has Metrics.error.
LEMMA ErrorDescribed ==
  ASSUME NEW r, r = Request("Metrics.error",
                            << Named("type", "ErrorType"), Named("code", "string"),
                               Named("description", "string"), Named("visible", "bool"),
                               Opt("parameters", "flatmap"), Opt("agePolicy", "AgePolicy") >>,
                            "void")
  PROVE  IsDocumented(r)
<1>0. PICK m \in Methods :
        m = Method("Metrics.error", ErrorReport,
                   [parameters |-> "FlatMap", agePolicy |-> "string"], "null")
  BY DEF Methods, MetricsMethods
<1>1. /\ m.params.required = {"type", "code", "description", "visible"}
      /\ Has(m, "type", "ErrorType")
      /\ Has(m, "code", "string")
      /\ Has(m, "description", "string")
      /\ Has(m, "visible", "boolean")
      /\ Has(m, "parameters", "FlatMap")
      /\ Has(m, "agePolicy", "string")
  BY <1>0 DEF Has, Method, Schema, Joined, ErrorReport
<1>2. m.method = DocumentedName(r.call)
  BY <1>0 DEF Method, Request, DocumentedName
<1>3. /\ TakesArg(m, Named("type", "ErrorType"))
      /\ TakesArg(m, Named("code", "string"))
      /\ TakesArg(m, Named("description", "string"))
  BY <1>1, Suiting, ArgumentNames, Taken
<1>4. /\ TakesArg(m, Named("visible", "bool"))
      /\ TakesArg(m, Opt("parameters", "flatmap"))
      /\ TakesArg(m, Opt("agePolicy", "AgePolicy"))
  BY <1>1, Suiting, ArgumentNames, Taken
<1>5. \A k \in DOMAIN r.args : TakesArg(m, r.args[k])
  BY <1>3, <1>4 DEF Request
<1>6. Gets(r, "type") /\ Gets(r, "code") /\ Gets(r, "description") /\
      Gets(r, "visible")
  BY ArgumentNames DEF Request, Gets, Named, Opt
<1>7. \A p \in m.params.required : Gets(r, p)
  BY <1>1, <1>6
<1> QED
  BY <1>2, <1>5, <1>7 DEF Describes, IsDocumented

\* The document has Metrics.mediaSeeking.
LEMMA SeekingDescribed ==
  ASSUME NEW r, r = Request("Metrics.mediaSeeking",
                            << Named("entityId", "string"), Named("target", "double"),
                               Opt("agePolicy", "AgePolicy") >>, "void")
  PROVE  IsDocumented(r)
<1>0. PICK m \in Methods :
        m = Method("Metrics.mediaSeeking",
                   [entityId |-> "string", target |-> "MediaPosition"], Policy, "null")
  BY DEF Methods, MetricsMethods
<1>1. /\ m.params.required = {"entityId", "target"}
      /\ Has(m, "entityId", "string")
      /\ Has(m, "target", "MediaPosition")
      /\ Has(m, "agePolicy", "string")
  BY <1>0 DEF Has, Method, Schema, Joined, Policy
<1>2. m.method = DocumentedName(r.call)
  BY <1>0 DEF Method, Request, DocumentedName
<1>3. /\ TakesArg(m, Named("entityId", "string"))
      /\ TakesArg(m, Named("target", "double"))
      /\ TakesArg(m, Opt("agePolicy", "AgePolicy"))
  BY <1>1, Suiting, ArgumentNames, Taken
<1>4. \A k \in DOMAIN r.args : TakesArg(m, r.args[k])
  BY <1>3 DEF Request
<1>5. Gets(r, "entityId") /\ Gets(r, "target")
  BY ArgumentNames DEF Request, Gets, Named, Opt
<1>6. \A p \in m.params.required : Gets(r, p)
  BY <1>1, <1>5
<1> QED
  BY <1>2, <1>4, <1>6 DEF Describes, IsDocumented

\* The document has Metrics.mediaSeeked.
LEMMA SeekedDescribed ==
  ASSUME NEW r, r = Request("Metrics.mediaSeeked",
                            << Named("entityId", "string"), Named("position", "double"),
                               Opt("agePolicy", "AgePolicy") >>, "void")
  PROVE  IsDocumented(r)
<1>0. PICK m \in Methods :
        m = Method("Metrics.mediaSeeked",
                   [entityId |-> "string", position |-> "MediaPosition"], Policy, "null")
  BY DEF Methods, MetricsMethods
<1>1. /\ m.params.required = {"entityId", "position"}
      /\ Has(m, "entityId", "string")
      /\ Has(m, "position", "MediaPosition")
      /\ Has(m, "agePolicy", "string")
  BY <1>0 DEF Has, Method, Schema, Joined, Policy
<1>2. m.method = DocumentedName(r.call)
  BY <1>0 DEF Method, Request, DocumentedName
<1>3. /\ TakesArg(m, Named("entityId", "string"))
      /\ TakesArg(m, Named("position", "double"))
      /\ TakesArg(m, Opt("agePolicy", "AgePolicy"))
  BY <1>1, Suiting, ArgumentNames, Taken
<1>4. \A k \in DOMAIN r.args : TakesArg(m, r.args[k])
  BY <1>3 DEF Request
<1>5. Gets(r, "entityId") /\ Gets(r, "position")
  BY ArgumentNames DEF Request, Gets, Named, Opt
<1>6. \A p \in m.params.required : Gets(r, p)
  BY <1>1, <1>5
<1> QED
  BY <1>2, <1>4, <1>6 DEF Describes, IsDocumented

\* The document has Metrics.mediaRateChanged.
LEMMA RateDescribed ==
  ASSUME NEW r, r = Request("Metrics.mediaRateChanged",
                            << Named("entityId", "string"), Named("rate", "double"),
                               Opt("agePolicy", "AgePolicy") >>, "void")
  PROVE  IsDocumented(r)
<1>0. PICK m \in Methods :
        m = Method("Metrics.mediaRateChanged", [entityId |-> "string", rate |-> "number"],
                   Policy, "null")
  BY DEF Methods, MetricsMethods
<1>1. /\ m.params.required = {"entityId", "rate"}
      /\ Has(m, "entityId", "string")
      /\ Has(m, "rate", "number")
      /\ Has(m, "agePolicy", "string")
  BY <1>0 DEF Has, Method, Schema, Joined, Policy
<1>2. m.method = DocumentedName(r.call)
  BY <1>0 DEF Method, Request, DocumentedName
<1>3. /\ TakesArg(m, Named("entityId", "string"))
      /\ TakesArg(m, Named("rate", "double"))
      /\ TakesArg(m, Opt("agePolicy", "AgePolicy"))
  BY <1>1, Suiting, ArgumentNames, Taken
<1>4. \A k \in DOMAIN r.args : TakesArg(m, r.args[k])
  BY <1>3 DEF Request
<1>5. Gets(r, "entityId") /\ Gets(r, "rate")
  BY ArgumentNames DEF Request, Gets, Named, Opt
<1>6. \A p \in m.params.required : Gets(r, p)
  BY <1>1, <1>5
<1> QED
  BY <1>2, <1>4, <1>6 DEF Describes, IsDocumented

\* The document has Metrics.mediaRenditionChanged.
LEMMA RenditionDescribed ==
  ASSUME NEW r, r = Request("Metrics.mediaRenditionChanged",
                            << Named("entityId", "string"), Named("bitrate", "uint"),
                               Named("width", "uint"), Named("height", "uint"),
                               Opt("profile", "string"), Opt("agePolicy", "AgePolicy") >>,
                            "void")
  PROVE  IsDocumented(r)
<1>0. PICK m \in Methods :
        m = Method("Metrics.mediaRenditionChanged", Rendition,
                   [profile |-> "string", agePolicy |-> "string"], "null")
  BY DEF Methods, MetricsMethods
<1>1. /\ m.params.required = {"entityId", "bitrate", "width", "height"}
      /\ Has(m, "entityId", "string")
      /\ Has(m, "bitrate", "number")
      /\ Has(m, "width", "number")
      /\ Has(m, "height", "number")
      /\ Has(m, "profile", "string")
      /\ Has(m, "agePolicy", "string")
  BY <1>0 DEF Has, Method, Schema, Joined, Rendition
<1>2. m.method = DocumentedName(r.call)
  BY <1>0 DEF Method, Request, DocumentedName
<1>3. /\ TakesArg(m, Named("entityId", "string"))
      /\ TakesArg(m, Named("bitrate", "uint"))
      /\ TakesArg(m, Named("width", "uint"))
  BY <1>1, Suiting, ArgumentNames, Taken
<1>4. /\ TakesArg(m, Named("height", "uint"))
      /\ TakesArg(m, Opt("profile", "string"))
      /\ TakesArg(m, Opt("agePolicy", "AgePolicy"))
  BY <1>1, Suiting, ArgumentNames, Taken
<1>5. \A k \in DOMAIN r.args : TakesArg(m, r.args[k])
  BY <1>3, <1>4 DEF Request
<1>6. Gets(r, "entityId") /\ Gets(r, "bitrate") /\ Gets(r, "width") /\
      Gets(r, "height")
  BY ArgumentNames DEF Request, Gets, Named, Opt
<1>7. \A p \in m.params.required : Gets(r, p)
  BY <1>1, <1>6
<1> QED
  BY <1>2, <1>5, <1>7 DEF Describes, IsDocumented

\* The document has Metrics.event.
LEMMA CustomDescribed ==
  ASSUME NEW r, r = Request("Metrics.event",
                            << Named("schema", "string"), Named("data", "string"),
                               Opt("agePolicy", "AgePolicy") >>, "void")
  PROVE  IsDocumented(r)
<1>0. PICK m \in Methods :
        m = Method("Metrics.event", [schema |-> "string", data |-> "string"], Policy, "null")
  BY DEF Methods, MetricsMethods
<1>1. /\ m.params.required = {"schema", "data"}
      /\ Has(m, "schema", "string")
      /\ Has(m, "data", "string")
      /\ Has(m, "agePolicy", "string")
  BY <1>0 DEF Has, Method, Schema, Joined, Policy
<1>2. m.method = DocumentedName(r.call)
  BY <1>0 DEF Method, Request, DocumentedName
<1>3. /\ TakesArg(m, Named("schema", "string"))
      /\ TakesArg(m, Named("data", "string"))
      /\ TakesArg(m, Opt("agePolicy", "AgePolicy"))
  BY <1>1, Suiting, ArgumentNames, Taken
<1>4. \A k \in DOMAIN r.args : TakesArg(m, r.args[k])
  BY <1>3 DEF Request
<1>5. Gets(r, "schema") /\ Gets(r, "data")
  BY ArgumentNames DEF Request, Gets, Named, Opt
<1>6. \A p \in m.params.required : Gets(r, p)
  BY <1>1, <1>5
<1> QED
  BY <1>2, <1>4, <1>6 DEF Describes, IsDocumented

\* The document has Metrics.appInfo.
LEMMA BuildDescribed ==
  ASSUME NEW r, r = Request("Metrics.appInfo", << Named("build", "string") >>, "void")
  PROVE  IsDocumented(r)
<1>0. PICK m \in Methods :
        m = Method("Metrics.appInfo", [build |-> "string"], Nothing, "null")
  BY DEF Methods, MetricsMethods
<1>1. /\ m.params.required = {"build"}
      /\ Has(m, "build", "string")
  BY <1>0 DEF Has, Method, Schema, Joined, Nothing
<1>2. m.method = DocumentedName(r.call)
  BY <1>0 DEF Method, Request, DocumentedName
<1>3. TakesArg(m, Named("build", "string"))
  BY <1>1, Suiting, ArgumentNames, Taken
<1>4. \A k \in DOMAIN r.args : TakesArg(m, r.args[k])
  BY <1>3 DEF Request
<1>5. Gets(r, "build")
  BY ArgumentNames DEF Request, Gets, Named, Opt
<1>6. \A p \in m.params.required : Gets(r, p)
  BY <1>1, <1>5
<1> QED
  BY <1>2, <1>4, <1>6 DEF Describes, IsDocumented

\* The document has Lifecycle.close, under another name.
LEMMA CloseDescribed ==
  ASSUME NEW r, r = Request("Lifecycle.close", << Named("type", "CloseType") >>, "void")
  PROVE  IsDocumented(r)
<1>0. PICK m \in Methods :
        m = Method("Lifecycle2.close", [type |-> "CloseType"], Nothing, "null")
  BY DEF Methods
<1>1. /\ m.params.required = {"type"}
      /\ Has(m, "type", "CloseType")
  BY <1>0 DEF Has, Method, Schema, Joined, Nothing
<1>2. m.method = DocumentedName(r.call)
  BY <1>0 DEF Method, Request, DocumentedName
<1>3. TakesArg(m, Named("type", "CloseType"))
  BY <1>1, Suiting, ArgumentNames, Taken
<1>4. \A k \in DOMAIN r.args : TakesArg(m, r.args[k])
  BY <1>3 DEF Request
<1>5. Gets(r, "type")
  BY ArgumentNames DEF Request, Gets, Named, Opt
<1>6. \A p \in m.params.required : Gets(r, p)
  BY <1>1, <1>5
<1> QED
  BY <1>2, <1>4, <1>6 DEF Describes, IsDocumented

\* The document has TextToSpeech.listVoices, under another name.
LEMMA VoicesDescribed ==
  ASSUME NEW r, r = Request("TextToSpeech.listVoices", << Named("language", "string") >>,
                            "ListVoicesResponse")
  PROVE  IsDocumented(r)
<1>0. PICK m \in Methods :
        m = Method("TextToSpeech.listvoices", [language |-> "string"], Nothing,
                   "ListVoicesResponse")
  BY DEF Methods, TextToSpeechMethods
<1>1. /\ m.params.required = {"language"}
      /\ Has(m, "language", "string")
  BY <1>0 DEF Has, Method, Schema, Joined, Nothing
<1>2. m.method = DocumentedName(r.call)
  BY <1>0 DEF Method, Request, DocumentedName
<1>3. TakesArg(m, Named("language", "string"))
  BY <1>1, Suiting, ArgumentNames, Taken
<1>4. \A k \in DOMAIN r.args : TakesArg(m, r.args[k])
  BY <1>3 DEF Request
<1>5. Gets(r, "language")
  BY ArgumentNames DEF Request, Gets, Named, Opt
<1>6. \A p \in m.params.required : Gets(r, p)
  BY <1>1, <1>5
<1> QED
  BY <1>2, <1>4, <1>6 DEF Describes, IsDocumented

\* The document has TextToSpeech.speak.
LEMMA SpeakDescribed ==
  ASSUME NEW r, r = Request("TextToSpeech.speak", << Named("text", "string") >>,
                            "SpeechResponse")
  PROVE  IsDocumented(r)
<1>0. PICK m \in Methods :
        m = Method("TextToSpeech.speak", [text |-> "string"], Nothing, "SpeechResponse")
  BY DEF Methods, TextToSpeechMethods
<1>1. /\ m.params.required = {"text"}
      /\ Has(m, "text", "string")
  BY <1>0 DEF Has, Method, Schema, Joined, Nothing
<1>2. m.method = DocumentedName(r.call)
  BY <1>0 DEF Method, Request, DocumentedName
<1>3. TakesArg(m, Named("text", "string"))
  BY <1>1, Suiting, ArgumentNames, Taken
<1>4. \A k \in DOMAIN r.args : TakesArg(m, r.args[k])
  BY <1>3 DEF Request
<1>5. Gets(r, "text")
  BY ArgumentNames DEF Request, Gets, Named, Opt
<1>6. \A p \in m.params.required : Gets(r, p)
  BY <1>1, <1>5
<1> QED
  BY <1>2, <1>4, <1>6 DEF Describes, IsDocumented

\* The document has TextToSpeech.getSpeechState, under another name.
LEMMA StateDescribed ==
  ASSUME NEW r, r = Request("TextToSpeech.getSpeechState",
                            << Named("speechId", "uint") >>, "SpeechStateResponse")
  PROVE  IsDocumented(r)
<1>0. PICK m \in Methods :
        m = Method("TextToSpeech.getspeechstate", [speechid |-> "integer"], Nothing,
                   "SpeechStateResponse")
  BY DEF Methods, TextToSpeechMethods
<1>1. /\ m.params.required = {"speechid"}
      /\ Has(m, "speechid", "integer")
  BY <1>0 DEF Has, Method, Schema, Joined, Nothing
<1>2. m.method = DocumentedName(r.call)
  BY <1>0 DEF Method, Request, DocumentedName
<1>3. TakesArg(m, Named("speechId", "uint"))
  BY <1>1, Suiting, ArgumentNames, Taken
<1>4. \A k \in DOMAIN r.args : TakesArg(m, r.args[k])
  BY <1>3 DEF Request
<1>5. Gets(r, "speechid")
  BY ArgumentNames DEF Request, Gets, Named, Opt
<1>6. \A p \in m.params.required : Gets(r, p)
  BY <1>1, <1>5
<1> QED
  BY <1>2, <1>4, <1>6 DEF Describes, IsDocumented

\* The document has the requests about one speech.
LEMMA PauseDescribed ==
  ASSUME NEW c \in { "TextToSpeech.pause", "TextToSpeech.resume",
                     "TextToSpeech.cancel" },
         NEW r, r = Request(c, << Named("speechId", "uint") >>, "TTSStatusResponse")
  PROVE  IsDocumented(r)
<1>0. PICK m \in Methods :
        m = Method(c, [speechid |-> "integer"], Nothing, "TTSStatusResponse")
  BY DEF Methods, TextToSpeechMethods
<1>1. /\ m.params.required = {"speechid"}
      /\ Has(m, "speechid", "integer")
  BY <1>0 DEF Has, Method, Schema, Joined, Nothing
<1>2. m.method = DocumentedName(r.call)
  BY <1>0 DEF Method, Request, DocumentedName
<1>3. TakesArg(m, Named("speechId", "uint"))
  BY <1>1, Suiting, ArgumentNames, Taken
<1>4. \A k \in DOMAIN r.args : TakesArg(m, r.args[k])
  BY <1>3 DEF Request
<1>5. Gets(r, "speechid")
  BY ArgumentNames DEF Request, Gets, Named, Opt
<1>6. \A p \in m.params.required : Gets(r, p)
  BY <1>1, <1>5
<1> QED
  BY <1>2, <1>4, <1>6 DEF Describes, IsDocumented

-----------------------------------------------------------------------------
(***************************************************************************)
(* The headers, one by one.                                                *)
(***************************************************************************)
\* A getter takes nothing, and nothing is asked of it.
LEMMA GetterTaken ==
  ASSUME NEW r, r.args = <<>>, NEW y
  PROVE  Describes(Gives(DocumentedName(r.call), y), r)
BY DEF Describes, Gives, Method, Schema, Joined, Nothing

\* The getters of the headers are getters of the document.
Gettable(r) == r.args = <<>> /\ \E y : Gives(DocumentedName(r.call), y) \in GetterMethods

\* A getter of the document describes that of the header.
LEMMA GettableDocumented ==
  ASSUME NEW r, Gettable(r)
  PROVE  IsDocumented(r)
BY GetterTaken DEF Gettable, IsDocumented, Methods

\* The getters the document has under their own names.
GetterNames ==
  { "Accessibility.audioDescription", "Accessibility.highContrastUI", "Network.connected",
    "Presentation.focused", "Actions.intent", "Device.uid", "Device.chipsetId", "Display.edid",
    "Localization.country", "Localization.presentationLanguage", "Device.uptime",
    "Device.timeInActiveState", "Display.size", "Display.maxResolution",
    "Accessibility.closedCaptionsSettings", "Accessibility.voiceGuidanceSettings",
    "Advertising.advertisingId", "Device.deviceClass", "Device.hdr",
    "Localization.preferredAudioLanguages", "Stats.memoryUsage" }

\* A getter of a header with such a name is one of the document, whatever the
\* header declares to come back.
LEMMA NamedGettable ==
  ASSUME NEW n \in GetterNames
  PROVE  \A type : Gettable(Getter(n, type))
<1>1. DocumentedName(n) = n
  BY DEF GetterNames, DocumentedName
<1>2. \E y : Gives(n, y) \in GetterMethods
  <2> DEFINE Given(m) == \E y : Gives(m, y) \in GetterMethods
  <2>1. \A m \in { "Accessibility.audioDescription", "Accessibility.highContrastUI",
                   "Network.connected", "Presentation.focused" } : Given(m)
    BY DEF GetterMethods
  <2>2. \A m \in { "Actions.intent", "Device.uid", "Device.chipsetId", "Display.edid",
                   "Localization.country", "Localization.presentationLanguage" } : Given(m)
    BY DEF GetterMethods
  <2>3. \A m \in { "Device.uptime", "Device.timeInActiveState", "Display.size",
                   "Display.maxResolution" } : Given(m)
    BY DEF GetterMethods
  <2>4. \A m \in { "Accessibility.closedCaptionsSettings",
                   "Accessibility.voiceGuidanceSettings", "Advertising.advertisingId",
                   "Device.deviceClass", "Device.hdr", "Localization.preferredAudioLanguages",
                   "Stats.memoryUsage" } : Given(m)
    BY DEF GetterMethods
  <2> HIDE DEF Given
  <2>5. Given(n)
    BY <2>1, <2>2, <2>3, <2>4 DEF GetterNames
  <2> QED
    BY <2>5 DEF Given
<1> QED
  BY <1>1, <1>2 DEF Gettable, Getter, Request

\* The document has every getter of the headers.
LEMMA GettersDocumented ==
  /\ \A r \in IAccessibility.requests : Gettable(r)
  /\ \A r \in IActions.requests : Gettable(r)
  /\ \A r \in IAdvertising.requests : Gettable(r)
  /\ \A r \in IDevice.requests : Gettable(r)
  /\ \A r \in IDisplay.requests : Gettable(r)
  /\ \A r \in ILocalization.requests : Gettable(r)
  /\ \A r \in INetwork.requests : Gettable(r)
  /\ \A r \in IPresentation.requests : Gettable(r)
  /\ \A r \in IStats.requests : Gettable(r)
  /\ Gettable(Getter("Lifecycle.state", "LifecycleState"))
<1> USE NamedGettable DEF Header, GetterNames
<1>1. \A r \in IAccessibility.requests : Gettable(r)
  BY DEF IAccessibility
<1>2. \A r \in IActions.requests : Gettable(r)
  BY DEF IActions
<1>3. \A r \in IAdvertising.requests : Gettable(r)
  BY DEF IAdvertising
<1>4. \A r \in IDevice.requests : Gettable(r)
  BY DEF IDevice
<1>5. \A r \in IDisplay.requests : Gettable(r)
  BY DEF IDisplay
<1>6. \A r \in ILocalization.requests : Gettable(r)
  BY DEF ILocalization
<1>7. \A r \in INetwork.requests : Gettable(r)
  BY DEF INetwork
<1>8. \A r \in IPresentation.requests : Gettable(r)
  BY DEF IPresentation
<1>9. \A r \in IStats.requests : Gettable(r)
  BY DEF IStats
<1>10. Gettable(Getter("Lifecycle.state", "LifecycleState"))
  <2>1. Gives("Lifecycle2.state", "LifecycleState") \in GetterMethods
    BY DEF GetterMethods
  <2> QED
    BY <2>1 DEF Gettable, Getter, Request, DocumentedName
<1> QED
  BY <1>1, <1>2, <1>3, <1>4, <1>5, <1>6, <1>7, <1>8, <1>9, <1>10

\* The document has every request of ITextToSpeech.
LEMMA SpeechDocumented == \A r \in TextToSpeechRequests : IsDocumented(r)
BY VoicesDescribed, SpeakDescribed, StateDescribed, PauseDescribed DEF TextToSpeechRequests

\* The document has every request of IDiscovery.
LEMMA DiscoveryDocumented == \A r \in IDiscovery.requests : IsDocumented(r)
BY DiscoveryDescribed DEF IDiscovery, Header

\* The document has every request of ILifecycle.
LEMMA LifecycleDocumented == \A r \in ILifecycle.requests : IsDocumented(r)
BY CloseDescribed, GettersDocumented, GettableDocumented DEF ILifecycle, Header

\* The document has every request of IMetrics.
LEMMA MetricsDocumented ==
  /\ \A r \in MetricsAppRequests : IsDocumented(r)
  /\ \A r \in MetricsPlaybackRequests : IsDocumented(r)
  /\ \A r \in MetricsStreamRequests : IsDocumented(r)
<1>1. \A c \in { "Metrics.ready", "Metrics.signIn", "Metrics.signOut" } :
        IsDocumented(Getter(c, "void"))
  <2> SUFFICES ASSUME NEW c \in { "Metrics.ready", "Metrics.signIn", "Metrics.signOut" }
               PROVE  IsDocumented(Getter(c, "void"))
    OBVIOUS
  <2> DEFINE r == Getter(c, "void")
  <2>1. r.args = <<>> /\ DocumentedName(r.call) = c
    BY DEF Getter, Request, DocumentedName
  <2> HIDE DEF r
  <2>2. Gives(DocumentedName(r.call), "null") \in Methods
    BY <2>1 DEF Methods, MetricsMethods
  <2> QED
    BY <2>1, <2>2, GetterTaken DEF IsDocumented, r
<1>2. \A r \in MetricsAppRequests : IsDocumented(r)
  BY <1>1, ContentDescribed, PageDescribed, ErrorDescribed DEF MetricsAppRequests
<1>3. \A r \in MetricsPlaybackRequests : IsDocumented(r)
  BY MediaDescribed, SeekingDescribed, SeekedDescribed DEF MetricsPlaybackRequests
<1>4. \A r \in MetricsStreamRequests : IsDocumented(r)
  BY MediaDescribed, RateDescribed, RenditionDescribed, CustomDescribed, BuildDescribed
     DEF MetricsStreamRequests
<1> QED
  BY <1>2, <1>3, <1>4

\* The document has every request of the headers, with what it takes.
LEMMA RequestsDocumented == \A r \in Requests : IsDocumented(r)
<1>1. ASSUME NEW i \in Accessors PROVE \A r \in i.requests : IsDocumented(r)
  BY GettersDocumented, GettableDocumented, SpeechDocumented, DiscoveryDocumented,
     LifecycleDocumented, MetricsDocumented DEF Accessors, Header
<1> QED
  BY <1>1 DEF Requests

-----------------------------------------------------------------------------
(***************************************************************************)
(* The values of the arguments.                                            *)
(***************************************************************************)
\* The document's texts of the two enumerations it spells out are the table's.
LEMMA EnumerationsDocumented ==
  /\ \A p \in CloseReasonEnum : p[1] \in Names["CloseType"]
  /\ \A p \in ErrorTypeEnum : p[1] \in Names["ErrorType"]
BY DEF CloseReasonEnum, ErrorTypeEnum, Names

\* The names of the document's enumerations are no other schemas.
LEMMA EnumerationNames ==
  DOMAIN Names = {"lmt", "DeviceClass", "CloseType", "ErrorType", "LifecycleState"}
BY DEF Names

\* A position the headers ask for is one of the document.
LEMMA PositionAsked ==
  ASSUME NEW name \in {"target", "position"}, NEW a, IsNumber(a), Asked(name, a)
  PROVE  IsMediaPosition(a)
BY DEF Asked, IsMediaPosition, IsInteger

\* A progress the headers ask for is not negative.
LEMMA ProgressAsked ==
  ASSUME NEW a, Asked("progress", a)
  PROVE  Halves(a) >= 0
BY DEF Asked

\* An argument of a caller who keeps to the headers conforms, as it is sent, to
\* the schema its type suits.
LEMMA ArgumentConforms ==
  ASSUME NEW name, NEW type, NEW s, Suits(name, type, s),
         NEW a \in Arguments[type], Asked(name, a)
  PROVE  AtomConforms(s, Encode(type, a))
<1>1. CASE type = "string" /\ s = "string"
  BY <1>1, ArgumentsAssumption, EnumerationNames DEF Encode, AtomConforms, Str
<1>2. CASE type = "bool" /\ s = "boolean"
  <2>1. a.t = "boolean"
    BY <1>2, ArgumentsAssumption DEF Bool
  <2> QED
    BY <1>2, <2>1, EnumerationNames DEF Encode, AtomConforms
<1>3. CASE type = "uint" /\ s \in {"integer", "number"}
  <2>1. a.t = "integer" /\ a.n \in Int
    BY <1>3, ArgumentsAssumption, UintAssumption DEF Num
  <2>2. (2 * a.n) % 2 = 0
    BY <2>1
  <2>3. IsNumber(a) /\ IsInteger(a)
    BY <2>1, <2>2 DEF IsInteger, IsNumber, Halves
  <2>4. AtomConforms("integer", a) /\ AtomConforms("number", a)
    BY <2>3, EnumerationNames DEF AtomConforms
  <2> QED
    BY <1>3, <2>4 DEF Encode
<1>4. CASE type = "double"
  <2>1. a.t = "float" /\ Encode(type, a) = a
    BY <1>4, ArgumentsAssumption DEF Float, Encode
  <2>2. IsNumber(a) /\ Halves(a) \in Int
    BY <1>4, <2>1, ArgumentsAssumption DEF IsNumber, Halves, Float
  <2>3. CASE s = "number"
    BY <2>1, <2>2, <2>3, EnumerationNames DEF AtomConforms
  <2>4. CASE name \in {"target", "position"} /\ s = "MediaPosition"
    BY <2>1, <2>2, <2>4, PositionAsked, EnumerationNames DEF AtomConforms
  <2>5. CASE name = "progress" /\ s = "not negative"
    <3>1. AtomConforms("not negative", a)
      BY <2>2, <2>5, ProgressAsked, EnumerationNames DEF AtomConforms
    <3> QED
      BY <2>1, <2>5, <3>1
  <2> QED
    BY <1>4, <2>3, <2>4, <2>5 DEF Suits
<1>5. ASSUME NEW enum, type \in {"AgePolicy", "CloseType", "ErrorType"},
             Textual(type, enum), Encode(type, a) = ToText(enum, a)
      PROVE  \E p \in enum : Encode(type, a) = Str(p[1])
  <2>1. PICK e \in Enums[type] : a = Enumerator(e)
    BY <1>5, ArgumentsAssumption
  <2> QED
    BY <1>5, <2>1 DEF Textual
<1>6. CASE type = "AgePolicy" /\ s = "string"
  <2>1. \E p \in AgePolicyEnum : Encode(type, a) = Str(p[1])
    BY <1>5, <1>6, EnumeratorsTextual DEF Encode
  <2> QED
    BY <1>6, <2>1, EnumerationNames DEF AtomConforms, Str
<1>7. CASE type = "CloseType" /\ s = type
  <2>1. \E p \in CloseReasonEnum : Encode(type, a) = Str(p[1])
    BY <1>5, <1>7, EnumeratorsTextual DEF Encode
  <2> QED
    BY <1>7, <2>1, EnumerationNames, EnumerationsDocumented DEF AtomConforms, Str
<1>8. CASE type = "ErrorType" /\ s = type
  <2>1. \E p \in ErrorTypeEnum : Encode(type, a) = Str(p[1])
    BY <1>5, <1>8, EnumeratorsTextual DEF Encode
  <2> QED
    BY <1>8, <2>1, EnumerationNames, EnumerationsDocumented DEF AtomConforms, Str
<1>9. CASE type = "flatmap" /\ s = "FlatMap"
  <2>1. a.t = "object" /\ \A f \in DOMAIN a.members : a.members[f].t = "string"
    BY <1>9, ArgumentsAssumption DEF Obj
  <2>2. Encode(type, a) = a
    BY <1>9 DEF Encode
  <2> QED
    BY <1>9, <2>1, <2>2, EnumerationNames DEF AtomConforms
<1> QED
  BY <1>1, <1>2, <1>3, <1>4, <1>6, <1>7, <1>8, <1>9 DEF Suits

\* An argument that is given is not absent.
LEMMA GivenThere ==
  ASSUME NEW name, NEW type, NEW s, Suits(name, type, s), NEW a \in Arguments[type]
  PROVE  a # Absent
<1>1. Absent.t = "absent"
  BY DEF Absent
<1>2. CASE type \in {"string", "double", "uint", "flatmap"}
  BY <1>1, <1>2, ArgumentsAssumption DEF Str, Float, Num, Obj
<1>3. CASE type = "bool"
  BY <1>1, <1>3, ArgumentsAssumption DEF Bool
<1>4. CASE type \in {"AgePolicy", "CloseType", "ErrorType"}
  BY <1>1, <1>4, ArgumentsAssumption DEF Enumerator
<1> QED
  BY <1>2, <1>3, <1>4 DEF Suits

\* The name of a header's argument that AsAsked speaks of is the document's.
LEMMA AskedNames ==
  ASSUME NEW m, NEW n, DocumentedMember(m) = DocumentedMember(n),
         n \in {"target", "position", "progress"}
  PROVE  m = n
BY DEF DocumentedMember

-----------------------------------------------------------------------------
(***************************************************************************)
(* The request that is out.                                                *)
(***************************************************************************)
\* What AsAsked says of the header's argument, it says of r's.
LEMMA ArgumentAsked ==
  ASSUME AsAsked, NEW r \in Requests, r.call = call.call, Declares(r),
         DOMAIN given = DOMAIN r.args,
         NEW k \in DOMAIN given, given[k] # Absent
  PROVE  Asked(r.args[k].name, given[k])
<1>1. Declared \in Requests /\ Declared.call = r.call
  BY DeclaredRequest
<1>2. DocumentedMember(Declared.args[k].name) = DocumentedMember(r.args[k].name)
  BY <1>1, RequestsDeclare DEF Declares
<1>3. Asked(Declared.args[k].name, given[k])
  BY DEF AsAsked
<1>4. r.args[k].name \in {"target", "position", "progress"} =>
        Declared.args[k].name = r.args[k].name
  BY <1>2, AskedNames
<1> QED
  BY <1>3, <1>4 DEF Asked

\* What is sent is an object of nothing but the arguments that are given.
LEMMA ParametersOnly ==
  ASSUME NEW args, NEW sends, NEW q, message = Parameters(args, sends, q)
  PROVE  /\ Sent.t = "object"
         /\ DOMAIN Sent.members = { sends[k] : k \in { i \in DOMAIN q : q[i] # Absent } }
<1> DEFINE sent == { i \in DOMAIN q : q[i] # Absent }
           at(p) == CHOOSE i \in sent : sends[i] = p
           members == [p \in { sends[i] : i \in sent } |-> Encode(args[at(p)].type, q[at(p)])]
<1>1. CASE sent = {}
  <2>1. message = Null
    BY <1>1 DEF Parameters
  <2> QED
    BY <1>1, <2>1 DEF Sent, Obj, Nothing
<1>2. CASE sent # {}
  <2>1. message = Obj(members)
    BY <1>2 DEF Parameters
  <2>2. Sent = message
    BY <2>1 DEF Sent, Obj, Null
  <2>3. Sent.t = "object" /\ Sent.members = members
    BY <2>1, <2>2 DEF Obj
  <2> QED
    BY <2>3
<1> QED
  BY <1>1, <1>2

\* A request is one the document describes, for all arguments of any call that
\* the headers ask for: the method is there, none of its required parameters is
\* missing, and no parameter is unknown or of another schema.
THEOREM RequestsAsDocumentedAlways == Spec => []RequestsAsDocumented
<1>1. Invoked => RequestsAsDocumented
  <2> SUFFICES ASSUME Invoked, stage = "sent", AsAsked
               PROVE  \E m \in Methods :
                        /\ m.method = call.method
                        /\ ObjectConforms(m.params, Sent)
                        /\ DOMAIN Sent.members \subseteq DOMAIN m.params.properties
    BY DEF RequestsAsDocumented
  <2>1. PICK c \in Calls, r \in Requests : InvokedWith(c, r)
    BY DEF Invoked
  <2>2. call = c /\ r.call = c.call /\ Agrees(c) /\ Declares(r)
    BY <2>1, CallsAgree, RequestsDeclare DEF InvokedWith
  <2>3. PICK m \in Methods : Describes(m, r)
    BY RequestsDocumented DEF IsDocumented
  <2>4. m.method = call.method
    BY <2>2, <2>3 DEF Describes, Agrees
  <2>5. DOMAIN given = DOMAIN r.args /\ DOMAIN r.args = DOMAIN c.sends
    BY <2>1, <2>2 DEF InvokedWith, ArgumentLists, Agrees, Declares
  <2>6. \A i, j \in DOMAIN c.sends : c.sends[i] = c.sends[j] => i = j
    BY <2>2, SendsInjective DEF Agrees
  <2>7. ASSUME NEW k \in DOMAIN given
        PROVE  /\ c.sends[k] = DocumentedMember(r.args[k].name)
               /\ TakesArg(m, r.args[k])
               /\ given[k] # Absent => given[k] \in Arguments[r.args[k].type]
               /\ ~r.args[k].optional => given[k] \in Arguments[r.args[k].type]
    <3>1. c.sends[k] = DocumentedMember(r.args[k].name)
      BY <2>2, <2>5 DEF Agrees, Declares
    <3>2. TakesArg(m, r.args[k])
      BY <2>3, <2>5 DEF Describes
    <3>3. given[k] \in Arguments[r.args[k].type]
                         \union IF r.args[k].optional THEN {Absent} ELSE {}
      BY <2>1, <2>5 DEF InvokedWith, ArgumentLists
    <3> QED
      BY <3>1, <3>2, <3>3
  <2>8. /\ Sent.t = "object"
        /\ DOMAIN Sent.members
             = { c.sends[k] : k \in { i \in DOMAIN given : given[i] # Absent } }
    BY <2>1, ParametersOnly DEF InvokedWith
  <2>9. ASSUME NEW p \in m.params.required PROVE p \in DOMAIN Sent.members
    <3>1. PICK k \in DOMAIN given :
            DocumentedMember(r.args[k].name) = p /\ ~r.args[k].optional
      BY <2>3, <2>5 DEF Describes, Gets
    <3>2. given[k] # Absent
      BY <2>7, <3>1, GivenThere DEF TakesArg, Has
    <3> QED
      BY <2>7, <2>8, <3>1, <3>2
  <2>10. ASSUME NEW p \in DOMAIN Sent.members
         PROVE  /\ p \in DOMAIN m.params.properties
                /\ AtomConforms(m.params.properties[p], Sent.members[p])
    <3>1. PICK k \in DOMAIN given : given[k] # Absent /\ p = c.sends[k]
      BY <2>8
    <3>2. /\ p \in DOMAIN m.params.properties
          /\ Suits(r.args[k].name, r.args[k].type, m.params.properties[p])
      BY <2>7, <3>1 DEF TakesArg, Has
    <3>3. Asked(r.args[k].name, given[k])
      BY <2>1, <2>2, <2>5, <3>1, ArgumentAsked
    <3>4. AtomConforms(m.params.properties[p], Encode(r.args[k].type, given[k]))
      BY <2>7, <3>1, <3>2, <3>3, ArgumentConforms
    <3>5. Sent.members[p] = Encode(r.args[k].type, given[k])
      BY <2>1, <2>5, <2>6, <3>1, ParametersSay DEF InvokedWith
    <3> QED
      BY <3>2, <3>4, <3>5
  <2>11. ObjectConforms(m.params, Sent)
    BY <2>8, <2>9, <2>10 DEF ObjectConforms
  <2> QED
    BY <2>4, <2>10, <2>11
<1> QED
  BY <1>1, InvokedAlways, PTL
=============================================================================
