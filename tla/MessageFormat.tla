---------------------------- MODULE MessageFormat ----------------------------
(* How one message of the server lies in the two streams the client reads:   *)
(* plain data in m_messageStream, names in m_messageNames.  The server       *)
(* (runtime/src/command_server.cpp) writes the fields, the client            *)
(* (runtime/src/command_queue.cpp) extracts them in an order of its own      *)
(* choosing that depends on what it has read so far.  Nothing separates two  *)
(* messages: one field too many or too few shifts every later message.       *)
(*                                                                           *)
(* A message is told apart by its kind and its shape, a sequence:            *)
(*   the enums of a file          one number of enumerants for every enum    *)
(*   the properties of a model    one data type for every property           *)
(*   a property value             its data type                              *)
(*   a list of names              one element for every name                 *)
EXTENDS Naturals, Sequences, SequencesExt

ErrorKinds ==
    {"fileError", "viewModelError", "imageError", "audioError", "fontError",
     "stateMachineError", "artboardError"}

\* Messages that carry a handle and a request only.
PlainKinds ==
    {"fileLoaded", "fileDeleted", "imageDecoded", "imageDeleted",
     "audioDecoded", "audioDeleted", "fontDecoded", "fontDeleted",
     "artboardDeleted", "viewModelDeleted", "stateMachineSettled",
     "stateMachineDeleted"}

ListKinds ==
    {"artboardsListed", "stateMachinesListed", "viewModelsListend",
     "viewModelInstanceNamesListed"}

\* The lists that come with nothing but their names.
NameListKinds == ListKinds \ {"viewModelInstanceNamesListed"}

PODTypes == {"boolean", "number", "color"}
NameTypes == {"enumType", "string"}

\* Every data type of the library, also those no message carries.
DataTypes ==
    PODTypes \cup NameTypes
        \cup {"none", "list", "trigger", "viewModel", "integer",
               "symbolListIndex", "assetImage", "artboard", "input"}

\* The shape a message of each kind has.  The marker of processMessages is not
\* a message of the server.
HasLayout(m) ==
    /\ m.kind # "messageLoopBreak"
    /\ m.kind = "viewModelPropertyValueReceived" =>
          \E type \in DataTypes : m.shape = <<type>>
    /\ m.kind = "viewModelPropertiesListed" => m.shape \in Seq(DataTypes)
    /\ m.kind \notin {"viewModelPropertyValueReceived",
                     "viewModelPropertiesListed"} => m.shape \in Seq(Nat)

Field(name, value) == [field |-> name, value |-> value]

FieldNames(tokens) == [i \in DOMAIN tokens |-> tokens[i].field]

Repeated(name, n) == [i \in 1 .. n |-> Field(name, i)]

(***************************************************************************)
(* What the server writes                                                  *)
(***************************************************************************)

Header(m) == <<Field("message", m.kind), Field("handle", m.handle)>>

\* The values of these types go to m_messageStream; the others of a type the
\* property commands accept have a name or nothing but their type.
PropertyValuePODs(m) ==
    Header(m) \o <<Field("type", m.shape[1]), Field("requestId", 0)>>
              \o (IF m.shape[1] \in PODTypes THEN <<Field("value", 0)>>
                  ELSE <<>>)

EnumCounts(shape) == [i \in DOMAIN shape |-> Field("count", shape[i])]
PropertyTypes(shape) == [i \in DOMAIN shape |-> Field("type", shape[i])]

WritePODs(m) ==
    CASE m.kind = "viewModelPropertyValueReceived" -> PropertyValuePODs(m)
      [] m.kind = "viewModelListSizeReceived" ->
            Header(m) \o <<Field("size", 0), Field("requestId", 0)>>
      [] m.kind = "viewModelEnumsListed" ->
            Header(m) \o <<Field("requestId", 0), Field("count", Len(m.shape))>>
                      \o EnumCounts(m.shape)
      [] m.kind = "viewModelPropertiesListed" ->
            Header(m) \o <<Field("requestId", 0), Field("count", Len(m.shape))>>
                      \o PropertyTypes(m.shape)
      [] m.kind \in ListKinds ->
            Header(m) \o <<Field("requestId", 0), Field("count", Len(m.shape))>>
      [] OTHER -> Header(m) \o <<Field("requestId", 0)>>

EnumNames(n) == <<Field("enum", 0)>> \o Repeated("enumerant", n)

PropertyNames(type) ==
    <<Field("property", 0)>>
        \o (IF type = "enumType" THEN <<Field("metaData", 0)>> ELSE <<>>)

WriteNames(m) ==
    CASE m.kind \in ErrorKinds -> <<Field("error", 0)>>
      [] m.kind = "defaultViewModelReceived" ->
            <<Field("viewModel", 0), Field("instance", 0)>>
      [] m.kind = "viewModelPropertyValueReceived" ->
            <<Field("property", 0)>>
                \o (IF m.shape[1] \in NameTypes THEN <<Field("string", 0)>>
                    ELSE <<>>)
      [] m.kind = "viewModelListSizeReceived" -> <<Field("path", 0)>>
      [] m.kind = "viewModelEnumsListed" ->
            FlattenSeq([i \in DOMAIN m.shape |-> EnumNames(m.shape[i])])
      [] m.kind = "viewModelPropertiesListed" ->
            <<Field("viewModel", 0)>>
                \o FlattenSeq([i \in DOMAIN m.shape |-> PropertyNames(m.shape[i])])
      [] m.kind = "viewModelInstanceNamesListed" ->
            <<Field("viewModel", 0)>> \o Repeated("name", Len(m.shape))
      [] m.kind \in NameListKinds -> Repeated("name", Len(m.shape))
      [] OTHER -> <<>>

(***************************************************************************)
(* What the client extracts                                                *)
(***************************************************************************)

\* The message at the head of the stream.
KindAt(pods) == IF pods[1].field = "message" THEN pods[1].value ELSE "unknown"

\* The number in a field; a field that holds no count (a stream out of step)
\* reads as zero here and as garbage in the program.
CountAt(pods, i) ==
    IF i \in DOMAIN pods /\ pods[i].field = "count" THEN pods[i].value ELSE 0

TypeAt(pods, i) ==
    IF i \in DOMAIN pods /\ pods[i].field = "type" THEN pods[i].value ELSE "none"

\* A bug of this kind: whatever is not a name is taken from m_messageStream.
ReadValueOfAnyType(type) == IF type \in NameTypes THEN <<>> ELSE <<"value">>

\* The value of a property, if its type has one in m_messageStream.
ReadValue(type) == IF type \in PODTypes THEN <<"value">> ELSE <<>>

\* The fields processMessages extracts from m_messageStream for the message at
\* its head, by their place in its code.
ReadPODs(pods) ==
    LET kind == KindAt(pods)
        head == <<"message", "handle">>
    IN  CASE kind = "messageLoopBreak" -> <<"message">>
          [] kind = "viewModelPropertyValueReceived" ->
                head \o <<"type", "requestId">>
                     \o ReadValue(TypeAt(pods, 3))
          [] kind = "viewModelListSizeReceived" ->
                head \o <<"size", "requestId">>
          [] kind = "viewModelEnumsListed" ->
                head \o <<"requestId", "count">>
                     \o [i \in 1 .. CountAt(pods, 4) |-> "count"]
          [] kind = "viewModelPropertiesListed" ->
                head \o <<"requestId", "count">>
                     \o [i \in 1 .. CountAt(pods, 4) |-> "type"]
          [] kind \in ListKinds -> head \o <<"requestId", "count">>
          [] OTHER -> head \o <<"requestId">>

ReadEnum(n) == <<"enum">> \o [i \in 1 .. n |-> "enumerant"]

ReadProperty(type) ==
    IF type = "enumType" THEN <<"property", "metaData">> ELSE <<"property">>

\* The fields it extracts from m_messageNames for that message.
ReadNames(pods) ==
    LET kind == KindAt(pods)
        n == CountAt(pods, 4)
    IN  CASE kind \in ErrorKinds -> <<"error">>
          [] kind = "defaultViewModelReceived" -> <<"viewModel", "instance">>
          [] kind = "viewModelPropertyValueReceived" ->
                <<"property">> \o (IF TypeAt(pods, 3) \in NameTypes
                                   THEN <<"string">> ELSE <<>>)
          [] kind = "viewModelListSizeReceived" -> <<"path">>
          [] kind = "viewModelEnumsListed" ->
                FlattenSeq([i \in 1 .. n |-> ReadEnum(CountAt(pods, 4 + i))])
          [] kind = "viewModelPropertiesListed" ->
                <<"viewModel">>
                    \o FlattenSeq([i \in 1 .. n |-> ReadProperty(TypeAt(pods, 4 + i))])
          [] kind = "viewModelInstanceNamesListed" ->
                <<"viewModel">> \o [i \in 1 .. n |-> "name"]
          [] kind \in NameListKinds -> [i \in 1 .. n |-> "name"]
          [] OTHER -> <<>>
==============================================================================
