-------------------------------- MODULE Wire --------------------------------
(***************************************************************************)
(* What goes over the wire: ws_message() decodes every frame, feeds chunks *)
(* to the assembler of TransitionChunks and ends the connection over what  *)
(* it cannot decode; the client encodes its messages; http_client and the  *)
(* file helpers read HTTP responses.                                       *)
(*                                                                         *)
(* The server is external.  It stores the arguments the client sends and   *)
(* sends them back in messages of the documented shape, some of which are  *)
(* damaged.  The chunks of SendPart are not written out as documents.      *)
(***************************************************************************)
EXTENDS TransitionChunks, WireMessages

CONSTANTS
    ServerMessages,  \* messages the server sends
    DamagedMessages, \* messages it also sends damaged, in every way there is
    ClientMessages   \* messages the client sends

\* bound: the chunks are those of TransitionChunks.
ASSUME WireAssumption ==
    /\ NoData \notin Values
    /\ ServerMessages \subseteq ServerMessage
    /\ DamagedMessages \subseteq ServerMessage
    /\ ClientMessages \subseteq ClientMessage
    /\ \A m \in ServerMessages : m.type = "TransitionChunk" =>
          /\ \E t \in Transitions : m.transition_id = <<t>>
          /\ m.part_number <= MaxParts /\ m.total_parts <= MaxParts

VARIABLE last   \* what was sent or received last, and what was made of it

wireVars == <<vars, last>>

Nothing == [kind |-> "nothing"]

-----------------------------------------------------------------------------
(* The documents the server writes: the structs of protocol.h with their   *)
(* optional members absent or null.                                        *)

Lines(lines) == <<"array", [i \in DOMAIN lines |-> <<"string", lines[i]>>]>>

VersionDoc(v) == Object([querySet |-> Integer(v.query_set), identity |-> Integer(v.identity),
                         ts |-> Timestamp64(v.ts)])

\* Values are written the way the client writes them.
ValueDoc(v) == IF v = NoData THEN Null ELSE WriteValue(v)

ModificationDoc(mod) ==
    CASE mod.type = "QueryUpdated" ->
           Object([type |-> Word(mod.type), queryId |-> Integer(mod.id),
                   value |-> ValueDoc(mod.result), logLines |-> Lines(mod.log_lines),
                   journal |-> IfGiven(mod.journal, Text)])
      [] mod.type = "QueryFailed" ->
           Object([type |-> Word(mod.type), queryId |-> Integer(mod.id),
                   errorMessage |-> Text(mod.error), errorData |-> ValueDoc(mod.error_data),
                   logLines |-> Lines(mod.log_lines), journal |-> IfGiven(mod.journal, Text)])
      [] mod.type = "QueryRemoved" ->
           Object([type |-> Word(mod.type), queryId |-> Integer(mod.id)])

ServerDoc(m) ==
    CASE m.type = "Transition" ->
           Object([type |-> Word(m.type), startVersion |-> VersionDoc(m.start_version),
                   endVersion |-> VersionDoc(m.end_version),
                   modifications |-> <<"array", [i \in DOMAIN m.modifications |->
                                                    ModificationDoc(m.modifications[i])]>>])
      [] m.type \in {"MutationResponse", "ActionResponse"} ->
           Object([type |-> Word(m.type), requestId |-> Integer(m.id),
                   success |-> <<"boolean", m.result.ok>>,
                   result |-> IF m.result.ok THEN ValueDoc(m.result.value)
                              ELSE Text(m.result.error),
                   errorData |-> IF m.result.ok THEN Absent ELSE ValueDoc(m.result.error_data),
                   ts |-> IfGiven(m.ts, Timestamp64), logLines |-> Lines(m.log_lines)])
      [] m.type = "AuthError" ->
           Object([type |-> Word(m.type), error |-> Text(m.error),
                   baseVersion |-> IfGiven(m.base_version, Integer),
                   authUpdateAttempted |-> <<"boolean", m.auth_update_attempted>>])
      [] m.type = "FatalError" -> Object([type |-> Word(m.type), error |-> Text(m.error)])
      [] m.type = "Ping" -> Object([type |-> Word(m.type)])

      [] m.type = "TransitionChunk" ->
           Object([type |-> Word(m.type), chunk |-> Text(m.chunk),
                   partNumber |-> Integer(m.part_number), totalParts |-> Integer(m.total_parts),
                   transitionId |-> Text(m.transition_id)])

\* What a message says once its values are read: NaN is NaN.
DataMeaning(d) == IF d = NoData THEN NoData ELSE SameValue(d)

ResultMeaning(r) ==
    IF r.ok THEN Success(SameValue(r.value)) ELSE Failure(r.error, DataMeaning(r.error_data))

ModificationMeaning(mod) ==
    CASE mod.type = "QueryUpdated" -> [mod EXCEPT !.result = SameValue(@)]
      [] mod.type = "QueryFailed" -> [mod EXCEPT !.error_data = DataMeaning(@)]
      [] mod.type = "QueryRemoved" -> mod

Meaning(m) ==
    CASE m.type = "Transition" ->
           [m EXCEPT !.modifications = [i \in DOMAIN @ |-> ModificationMeaning(@[i])]]
      [] m.type \in {"MutationResponse", "ActionResponse"} ->
           [m EXCEPT !.result = ResultMeaning(@)]
      [] OTHER -> m

-----------------------------------------------------------------------------
(* Damaged documents.                                                      *)

\* The members a struct cannot do without, and optional ones that have a type.
Required ==
    [Transition |-> {"startVersion", "endVersion", "modifications"},
     version |-> {"querySet", "identity", "ts"},
     QueryUpdated |-> {"type", "queryId", "value"},
     QueryFailed |-> {"type", "queryId", "errorMessage"},
     QueryRemoved |-> {"type", "queryId"},
     MutationResponse |-> {"type", "requestId", "success", "result"},
     ActionResponse |-> {"type", "requestId", "success", "result"},
     AuthError |-> {"type", "error"}, FatalError |-> {"type", "error"}, Ping |-> {"type"},
     TransitionChunk |-> {"type", "chunk", "partNumber", "totalParts", "transitionId"}]

Typed(type) ==
    (IF type \in {"QueryUpdated", "QueryFailed"} THEN {"logLines", "journal"} ELSE {}) \cup
    (IF type \in {"MutationResponse", "ActionResponse"} THEN {"logLines"} ELSE {}) \cup
    (IF type = "MutationResponse" THEN {"ts"} ELSE {})

\* Fits no field: no string, number or list, and no Convex value.
Garbage == Wrapper("$set", <<>>)

\* What the messages need of the codec of values: what it writes is there, is
\* taken, and is read as the same value; only null is written as null.
ASSUME CodecAssumption ==
    /\ \A v \in Values :
          /\ CanRead(WriteValue(v)) /\ ReadValue(WriteValue(v)) = SameValue(v)
          /\ WriteValue(v) \notin {Absent, NotJson}
          /\ WriteValue(v) = Null => v = Null
    /\ ~CanRead(Garbage)

Without(j, f) == <<"object", [g \in DOMAIN j[2] \ {f} |-> j[2][g]]>>
With(j, f, node) == <<"object", [g \in DOMAIN j[2] \cup {f} |-> IF g = f THEN node ELSE j[2][g]]>>

Broken(j, type) ==
    {Without(j, f) : f \in Required[type]}
        \cup {With(j, f, Garbage) : f \in Required[type] \cup Typed(type)}

\* The document j of a Transition with its i-th modification replaced.
WithModification(j, i, mod) ==
    With(j, "modifications", <<"array", [j[2].modifications[2] EXCEPT ![i] = mod]>>)

MalformedDocs(m) ==
    LET j == ServerDoc(m) IN
    Broken(j, m.type) \cup
    (IF m.type # "Transition" THEN {}
     ELSE (UNION {{With(j, v, bad) : bad \in Broken(j[2][v], "version")} :
                     v \in {"startVersion", "endVersion"}})
          \cup (UNION {{WithModification(j, i, bad) :
                           bad \in Broken(j[2].modifications[2][i], m.modifications[i].type)} :
                     i \in DOMAIN m.modifications}))

\* Errors whose errorData is no Convex value.
BadErrorDocs(m) ==
    LET j == ServerDoc(m) IN
    CASE m.type = "Transition" ->
           {WithModification(j, i, With(j[2].modifications[2][i], "errorData", Garbage)) :
               i \in {i \in DOMAIN m.modifications : m.modifications[i].type = "QueryFailed"}}
      [] m.type \in {"MutationResponse", "ActionResponse"} ->
           IF m.result.ok THEN {} ELSE {With(j, "errorData", Garbage)}
      [] OTHER -> {}

NoMessages == {NotJson, Null, <<"array", <<>>>>, Object([type |-> Word("Nonsense")])}

-----------------------------------------------------------------------------
(* Frames, with what decode_server_message() makes of them.                *)

Frame(doc, means, damage) ==
    [kind |-> "frame", doc |-> doc, means |-> means, damage |-> damage,
     verdict |-> Verdict(doc), got |-> IF Verdict(doc) = "ok" THEN GetMessage(doc) ELSE Nothing]

\* The set, each member compared with itself: TLC then has evaluated it in full
\* before its workers share it.
Evaluated(S) == {x \in S : x = x}

Frames == Evaluated(
    {Frame(ServerDoc(m), Meaning(m), "none") : m \in ServerMessages}
    \cup {Frame(With(ServerDoc(m), "baseVersion", Garbage), [m EXCEPT !.base_version = Nil],
                 "none") : m \in {m \in ServerMessages : m.type = "AuthError"}}
    \cup {Frame(j, Nothing, "malformed") :
            j \in NoMessages \cup UNION {MalformedDocs(m) : m \in DamagedMessages}}
    \cup {Frame(j, Nothing, "errorData") : j \in UNION {BadErrorDocs(m) : m \in DamagedMessages}})

\* ws_message(): what cannot be decoded ends the connection; the exception
\* over errorData leaves the function with everything as it was.
ReceiveFrame(f) ==
    /\ last' = f
    /\ \/ /\ f.verdict = "ok"
          /\ IF f.got.type = "TransitionChunk"
             THEN SendRogue([transition_id |-> f.got.transition_id[1],
                             part_number |-> f.got.part_number, total_parts |-> f.got.total_parts])
             ELSE ReceiveWhole(IF f.got.type = "Ping" THEN "ping" ELSE "other")
       \/ f.verdict = "protocol_error" /\ Lose
       \/ f.verdict = "codec_error" /\ UNCHANGED vars

\* The parts of a Transition, in order.
ReceivePart ==
    /\ \E t \in Transitions, n \in 1..MaxParts : SendPart(t, n)
    /\ last' = Nothing

Sent(m) == [kind |-> "sent", message |-> m, doc |-> encode_client_message(m)]

\* bound: sending, and HTTP, depend on nothing that was received before.
SendMessage ==
    /\ last = Nothing
    /\ \E m \in ClientMessages : last' = Sent(m)
    /\ UNCHANGED vars

-----------------------------------------------------------------------------
(* HTTP responses, with the results the callback of the call was given.    *)

\* What functions and the upload URL answer, and what the answer says.
Bodies ==
    {[body |-> Object([status |-> Word("success"), value |-> ValueDoc(v)]),
      means |-> Success(SameValue(v))] : v \in Values}
    \cup {[body |-> Object([status |-> Word("error"), errorMessage |-> Word("no"),
                            errorData |-> ValueDoc(d)]),
           means |-> Failure(<<"no">>, DataMeaning(d))] : d \in ErrorData}

BadBodies ==
    NoMessages \cup {Object([status |-> Word("success")]),
                     Object([status |-> Word("success"), value |-> Garbage]),
                     Object([status |-> Word("error"), errorMessage |-> Null]),
                     Object([status |-> Word("error"), errorData |-> Garbage]),
                     Object([value |-> Null]), Garbage}

\* Statuses of HTTP.  A function that throws is answered with FunctionFailed.
Ok == 200
NotFound == 404
FunctionFailed == 560

HttpResponse(status, body) == [status |-> status, error |-> FALSE, body |-> body]
NoResponse(body) == [status |-> 0, error |-> TRUE, body |-> body]

Answer(call, r, means, throws, results) ==
    [kind |-> "http", call |-> call, response |-> r, means |-> means, throws |-> throws,
     results |-> results]

Unusable == Trouble("unusable")   \* the response says nothing: any error will do

FunctionAnswer(r, means) == Answer("call", r, means, FALSE, <<ParseFunctionResponse(r)>>)

UploadAnswer(r, means, throws) == Answer("store", r, means, throws, StoreResults(r, throws))

FetchAnswer(r, means) == Answer("fetch", r, means, FALSE, FetchResults(r))

FunctionAnswers ==
    {FunctionAnswer(HttpResponse(status, b.body), b.means) : status \in {Ok, FunctionFailed}, b \in Bodies}
    \cup {FunctionAnswer(HttpResponse(status, j), Unusable) : status \in {Ok, NotFound}, j \in BadBodies}
    \cup {FunctionAnswer(NoResponse(NotJson), Unusable)}

FailedUploads ==
    {HttpResponse(NotFound, Null), NoResponse(NotJson)} \cup {HttpResponse(Ok, j) : j \in {NotJson, Garbage}}

UploadAnswers ==
    {UploadAnswer(HttpResponse(Ok, ValueDoc(v)), Success(SameValue(v)), throws) :
       v \in Values, throws \in BOOLEAN}
    \cup {UploadAnswer(r, Unusable, throws) : r \in FailedUploads, throws \in BOOLEAN}

FetchAnswers ==
    {FetchAnswer(HttpResponse(Ok, <<1, 2>>), Success(<<"bytes", <<1, 2>>>>)),
     FetchAnswer(HttpResponse(NotFound, <<>>), Unusable),
     FetchAnswer(NoResponse(<<>>), Unusable)}

Answers == Evaluated(FunctionAnswers \cup UploadAnswers \cup FetchAnswers)

ReceiveAnswer ==
    /\ last = Nothing
    /\ last' \in Answers
    /\ UNCHANGED vars

-----------------------------------------------------------------------------
WireInit == Init /\ last = Nothing

WireNext ==
    \/ \E f \in Frames : ReceiveFrame(f)
    \/ ReceivePart
    \/ SendMessage
    \/ ReceiveAnswer

WireSpec == WireInit /\ [][WireNext]_wireVars

-----------------------------------------------------------------------------
\* What is said is what is read: a message of the server, with any value the
\* client once sent, is decoded to itself; and no two messages of the client
\* look the same to the server (protocol.cpp, json_codec.cpp, base64.cpp).
SaidAndRead ==
    /\ last.kind = "frame" /\ last.damage = "none" => last.got = last.means
    /\ last.kind = "sent" => \A m \in ClientMessages :
          encode_client_message(m) = last.doc => m = last.message

\* A frame that is no message ends the connection, whichever member is missing
\* or of the wrong kind, and is never half of a message; only what is wrong
\* with errorData escapes as another exception (protocol.cpp, ws_message).
MalformedEndsConnection ==
    last.kind = "frame" =>
        /\ last.damage = "malformed" => last.verdict = "protocol_error" /\ ~buffering
        /\ last.verdict = "codec_error" => last.damage = "errorData"

\* Every HTTP response gives the caller one result, never an exception: the
\* one it carries, and an error if it carries none.  A store_file() callback
\* that throws gets a second one (http_client.cpp, file_storage.cpp).
OneHttpResult ==
    last.kind = "http" =>
        /\ Len(last.results) = 1 \/ last.throws
        /\ IF last.means = Unusable THEN ~last.results[1].ok ELSE last.results[1] = last.means
=============================================================================
