---------------------------- MODULE WireMessages ----------------------------
(***************************************************************************)
(* The messages of the sync protocol as JSON documents: protocol.cpp's     *)
(* encoding of what the client sends and decoding of what it receives, and *)
(* the results http_client and the file helpers read from HTTP responses.  *)
(*                                                                         *)
(* Decoding is a list of checks in the order of the code, the first of     *)
(* which that fails names the exception, and the message that is read when *)
(* none does.  A message is a record of the members of its struct.         *)
(*                                                                         *)
(* Values are written and read by the codec of WireValues, of which this   *)
(* module knows nothing.                                                   *)
(***************************************************************************)
EXTENDS WireBytes

CONSTANTS
    Values,          \* values an application uses
    WriteValue(_),   \* what the text of value_to_json() is parsed to
    CanRead(_),      \* json_to_value() takes the node
    ReadValue(_),    \* json_to_value()
    SameValue(_)     \* the value it stands for: any NaN is the canonical one

Absent == <<"absent">>     \* the field that is not there
NoData == <<"no data">>    \* an error that is no ConvexError

\* The values of an optional<>.
Nil == <<>>
Some(x) == <<x>>

U32 == 4                   \* 2^32 in the code

-----------------------------------------------------------------------------
(* The structs of protocol.h.                                              *)

Numbers == 0..(U32 - 1)
Strings == Seq(STRING)
Optional(S) == {s \in Seq(S) : Len(s) <= 1}

\* Arguments without a NaN that is not canonical.  An errorData of null is read
\* as none.
Args == {v \in Values : SameValue(v) = v}
ErrorData == {NoData} \cup (Values \ {Null})

Connect ==
    [type : {"Connect"}, session_id : STRING, connection_count : Numbers,
     last_close_reason : STRING, max_observed_timestamp : Optional(Words),
     client_ts : Optional(Nat)]

AuthToken ==
    [kind : {"None"}, value : {""}, acting_as : {Nil}]
        \cup [kind : {"User"}, value : STRING, acting_as : {Nil}]
        \cup [kind : {"Admin"}, value : STRING, acting_as : Optional(Args)]

Authenticate == [type : {"Authenticate"}, base_version : Numbers, token : AuthToken]

QuerySetModification ==
    [type : {"Add"}, id : Numbers, udf_path : STRING, args : Args,
     journal : Optional(Strings), component_path : Optional(Strings)]
        \cup [type : {"Remove"}, id : Numbers]

ModifyQuerySet ==
    [type : {"ModifyQuerySet"}, base_version : Numbers, new_version : Numbers,
     modifications : Seq(QuerySetModification)]

Request ==
    [type : {"Mutation", "Action"}, id : Numbers, udf_path : STRING, args : Args,
     component_path : Optional(Strings)]

ClientMessage == Connect \cup Authenticate \cup ModifyQuerySet \cup Request

StateVersion == [query_set : Numbers, identity : Numbers, ts : Words]

QueryUpdated ==
    [type : {"QueryUpdated"}, id : Numbers, result : Values, log_lines : Seq(Strings),
     journal : Optional(Strings)]

QueryFailed ==
    [type : {"QueryFailed"}, id : Numbers, error : Strings, error_data : ErrorData,
     log_lines : Seq(Strings), journal : Optional(Strings)]

QueryRemoved == [type : {"QueryRemoved"}, id : Numbers]

Transition ==
    [type : {"Transition"}, start_version : StateVersion, end_version : StateVersion,
     modifications : Seq(QueryUpdated \cup QueryFailed \cup QueryRemoved)]

FunctionResult ==
    [ok : {TRUE}, value : Values]
        \cup [ok : {FALSE}, error : Strings, error_data : ErrorData]

\* Only a mutation has a timestamp.
Response ==
    [type : {"MutationResponse"}, id : Numbers, result : FunctionResult,
     ts : Optional(Words), log_lines : Seq(Strings)]
        \cup [type : {"ActionResponse"}, id : Numbers, result : FunctionResult,
              ts : {Nil}, log_lines : Seq(Strings)]

AuthError ==
    [type : {"AuthError"}, error : Strings, base_version : Optional(Numbers),
     auth_update_attempted : BOOLEAN]

FatalError == [type : {"FatalError"}, error : Strings]
Ping == [type : {"Ping"}]

TransitionChunk ==
    [type : {"TransitionChunk"}, chunk : Strings, part_number : Numbers,
     total_parts : Numbers, transition_id : Strings]

ServerMessage ==
    Transition \cup Response \cup AuthError \cup FatalError \cup Ping \cup TransitionChunk

Word(w) == <<"string", <<w>>>>

-----------------------------------------------------------------------------
(* Fields.                                                                 *)

\* json::find(), which finds nothing in what is no object.
Has(j, f) == j[1] = "object" /\ f \in DOMAIN j[2]

Field(j, f) == IF Has(j, f) THEN j[2][f] ELSE Absent

\* An optional field that may also be null.
Given(j, f) == Field(j, f) \notin {Absent, Null}

IsString(j) == j[1] = "string"

Check(ok, exception) == IF ok THEN "ok" ELSE exception
Protocol(ok) == Check(ok, "protocol_error")

RequireU32(j, f) == Protocol(Field(j, f)[1] = "integer")
RequireString(j, f) == Protocol(IsString(Field(j, f)))
RequireTimestamp(j) == Protocol(IsString(j) /\ is_le_base64(j[2]))

\* Mutant: a value that cannot be decoded is let through as codec_error.
RequireValueUncaught(j) ==
    IF j = Absent THEN "protocol_error" ELSE Check(CanRead(j), "codec_error")

\* Mutant: a value that is null is taken for one that is not there.
RequireValueGiven(j) == Protocol(j \notin {Absent, Null} /\ CanRead(j))

RequireValue(j) == Protocol(j # Absent /\ CanRead(j))

\* errorData is decoded with no handler for codec_error.
CheckErrorData(j) == Check(Given(j, "errorData") => CanRead(j[2]["errorData"]), "codec_error")
CheckLogLines(j) == Protocol(Field(j, "logLines")[1] \in {"absent", "array"})
CheckJournal(j) == Protocol(Given(j, "journal") => IsString(j[2]["journal"]))

\* The integer read, whatever its size and sign.
GetU32(j, f) == j[2][f][2] % U32
GetString(j, f) == j[2][f][2]
GetErrorData(j) == IF Given(j, "errorData") THEN ReadValue(j[2]["errorData"]) ELSE NoData
GetOptional(j, f) == IF Given(j, f) THEN Some(j[2][f][2]) ELSE Nil
GetLogLines(j) ==
    LET lines == j[2]["logLines"][2]
        First[n \in 0..Len(lines)] ==
            IF n = 0 THEN <<>>
            ELSE IF IsString(lines[n]) THEN Append(First[n - 1], lines[n][2])
            ELSE First[n - 1]
    IN IF Has(j, "logLines") THEN First[Len(lines)] ELSE <<>>

\* decode_state_version().
CheckVersion(j) == <<RequireU32(j, "querySet"), RequireU32(j, "identity"),
                     RequireTimestamp(Field(j, "ts"))>>
GetVersion(j) == [query_set |-> GetU32(j, "querySet"), identity |-> GetU32(j, "identity"),
                  ts |-> le_base64_to_word(j[2]["ts"][2])]

-----------------------------------------------------------------------------
(* decode_server_message().                                                *)

\* What is thrown by the first of the checks that fails, or "ok".
Outcome(checks) ==
    LET failed == {i \in DOMAIN checks : checks[i] # "ok"}
    IN IF failed = {} THEN "ok"
       ELSE checks[CHOOSE i \in failed : \A k \in failed : i <= k]

ModificationChecks(mod) ==
    LET type == Field(mod, "type") IN
    <<RequireString(mod, "type")>> \o
    (CASE type = Word("QueryUpdated") ->
            <<RequireU32(mod, "queryId"), RequireValue(Field(mod, "value")),
              CheckLogLines(mod), CheckJournal(mod)>>
       [] type = Word("QueryFailed") ->
            <<RequireU32(mod, "queryId"), RequireString(mod, "errorMessage"),
              CheckErrorData(mod), CheckLogLines(mod), CheckJournal(mod)>>
       [] type = Word("QueryRemoved") -> <<RequireU32(mod, "queryId")>>
       [] OTHER -> <<"protocol_error">>)

GetModification(mod) ==
    LET id == GetU32(mod, "queryId") IN
    CASE mod[2].type = Word("QueryUpdated") ->
            [type |-> "QueryUpdated", id |-> id, result |-> ReadValue(mod[2].value),
             log_lines |-> GetLogLines(mod), journal |-> GetOptional(mod, "journal")]
      [] mod[2].type = Word("QueryFailed") ->
            [type |-> "QueryFailed", id |-> id, error |-> GetString(mod, "errorMessage"),
             error_data |-> GetErrorData(mod),
             log_lines |-> GetLogLines(mod), journal |-> GetOptional(mod, "journal")]
      [] mod[2].type = Word("QueryRemoved") -> [type |-> "QueryRemoved", id |-> id]

\* decode_function_result().
ResultChecks(j) ==
    LET success == Field(j, "success")
        result == Field(j, "result")
    IN <<Protocol(success[1] = "boolean"), Protocol(result # Absent)>> \o
       (IF success = <<"boolean", TRUE>> THEN <<RequireValue(result)>>
        ELSE <<Protocol(IsString(result)), CheckErrorData(j)>>)

GetResult(j) ==
    IF j[2]["success"][2] THEN [ok |-> TRUE, value |-> ReadValue(j[2]["result"])]
    ELSE [ok |-> FALSE, error |-> GetString(j, "result"), error_data |-> GetErrorData(j)]

Types == {"Transition", "MutationResponse", "ActionResponse", "AuthError", "FatalError",
          "Ping", "TransitionChunk"}

TypeOf(j) == IF \E t \in Types : Field(j, "type") = Word(t)
             THEN CHOOSE t \in Types : Field(j, "type") = Word(t) ELSE "unsupported"

MessageChecks(j) ==
    LET type == TypeOf(j)
        mods == Field(j, "modifications")
    IN <<Protocol(j[1] = "object"), RequireString(j, "type")>> \o
       (CASE type = "Transition" ->
               CheckVersion(Field(j, "startVersion")) \o CheckVersion(Field(j, "endVersion"))
                  \o <<Protocol(mods[1] = "array")>>
                  \o (IF mods[1] = "array"
                      THEN [i \in DOMAIN mods[2] |-> Outcome(ModificationChecks(mods[2][i]))]
                      ELSE <<>>)
          [] type = "MutationResponse" ->
               <<RequireU32(j, "requestId")>> \o ResultChecks(j)
                  \o <<IF Given(j, "ts") THEN RequireTimestamp(j[2]["ts"]) ELSE "ok",
                       CheckLogLines(j)>>
          [] type = "ActionResponse" ->
               <<RequireU32(j, "requestId")>> \o ResultChecks(j) \o <<CheckLogLines(j)>>
          [] type \in {"AuthError", "FatalError"} -> <<RequireString(j, "error")>>
          [] type = "Ping" -> <<>>
          [] type = "TransitionChunk" ->
               <<RequireString(j, "chunk"), RequireU32(j, "partNumber"),
                 RequireU32(j, "totalParts"), RequireString(j, "transitionId")>>
          [] type = "unsupported" -> <<"protocol_error">>)

\* What decode_server_message() throws, or "ok".
Verdict(j) == Outcome(MessageChecks(j))

\* Optional fields that are ignored unless they have the right kind.
GetBaseVersion(j) ==
    IF Field(j, "baseVersion")[1] = "integer" THEN Some(GetU32(j, "baseVersion")) ELSE Nil
GetAttempted(j) == Field(j, "authUpdateAttempted") = <<"boolean", TRUE>>

GetMessage(j) ==
    LET type == TypeOf(j) IN
    CASE type = "Transition" ->
           [type |-> type, start_version |-> GetVersion(j[2].startVersion),
            end_version |-> GetVersion(j[2].endVersion),
            modifications |-> [i \in DOMAIN j[2].modifications[2] |->
                                  GetModification(j[2].modifications[2][i])]]
      [] type \in {"MutationResponse", "ActionResponse"} ->
           [type |-> type, id |-> GetU32(j, "requestId"), result |-> GetResult(j),
            ts |-> IF type = "MutationResponse" /\ Given(j, "ts")
                   THEN Some(le_base64_to_word(j[2]["ts"][2])) ELSE Nil,
            log_lines |-> GetLogLines(j)]
      [] type = "AuthError" ->
           [type |-> type, error |-> GetString(j, "error"),
            base_version |-> GetBaseVersion(j), auth_update_attempted |-> GetAttempted(j)]
      [] type = "FatalError" -> [type |-> type, error |-> GetString(j, "error")]
      [] type = "Ping" -> [type |-> type]
      [] type = "TransitionChunk" ->
           [type |-> type, chunk |-> GetString(j, "chunk"),
            part_number |-> GetU32(j, "partNumber"), total_parts |-> GetU32(j, "totalParts"),
            transition_id |-> GetString(j, "transitionId")]

-----------------------------------------------------------------------------
(* encode_client_message().                                                *)

\* An object without the fields that are absent.
Object(fields) ==
    <<"object", [f \in {g \in DOMAIN fields : fields[g] # Absent} |-> fields[f]]>>

Integer(n) == <<"integer", n>>
Text(s) == <<"string", s>>
Timestamp64(ts) == <<"string", le_base64(ts)>>
IfGiven(optional, Node(_)) == IF optional = Nil THEN Absent ELSE Node(optional[1])

\* Arguments travel as text, serialize_args()'s, that args_dom() parses.
args_dom(args) == <<"array", <<WriteValue(args)>>>>

EncodeModification(mod) ==
    IF mod.type = "Add"
    THEN Object([type |-> Word("Add"), queryId |-> Integer(mod.id),
                 udfPath |-> Word(mod.udf_path), args |-> args_dom(mod.args),
                 journal |-> IfGiven(mod.journal, Text),
                 componentPath |-> IfGiven(mod.component_path, Text)])
    ELSE Object([type |-> Word("Remove"), queryId |-> Integer(mod.id)])

EncodeRequest(m) ==
    Object([type |-> Word(m.type), requestId |-> Integer(m.id), udfPath |-> Word(m.udf_path),
            args |-> args_dom(m.args), componentPath |-> IfGiven(m.component_path, Text)])

EncodeAuthenticate(m) ==
    Object([type |-> Word("Authenticate"), baseVersion |-> Integer(m.base_version),
            tokenType |-> Word(m.token.kind),
            value |-> IF m.token.kind = "None" THEN Absent ELSE Word(m.token.value),
            impersonating |-> IF m.token.kind # "Admin" THEN Absent
                              ELSE IfGiven(m.token.acting_as, WriteValue)])

\* The document that the text is parsed to.  Outside of values that makes no
\* difference.
encode_client_message(m) ==
    CASE m.type = "Connect" ->
           Object([type |-> Word("Connect"), sessionId |-> Word(m.session_id),
                   connectionCount |-> Integer(m.connection_count),
                   lastCloseReason |-> Word(m.last_close_reason),
                   maxObservedTimestamp |-> IfGiven(m.max_observed_timestamp, Timestamp64),
                   clientTs |-> IfGiven(m.client_ts, Integer)])
      [] m.type = "Authenticate" -> EncodeAuthenticate(m)
      [] m.type = "ModifyQuerySet" ->
           Object([type |-> Word("ModifyQuerySet"), baseVersion |-> Integer(m.base_version),
                   newVersion |-> Integer(m.new_version),
                   modifications |-> <<"array", [i \in DOMAIN m.modifications |->
                                          EncodeModification(m.modifications[i])]>>])
      [] m.type \in {"Mutation", "Action"} -> EncodeRequest(m)

-----------------------------------------------------------------------------
(* HTTP.  A response has an error of the transport, or a status and a body *)
(* that is JSON or is no JSON.                                             *)

NotJson == <<"not JSON">>

Success(v) == [ok |-> TRUE, value |-> v]
Failure(message, data) == [ok |-> FALSE, error |-> message, error_data |-> data]
Trouble(what) == Failure(<<what>>, NoData)   \* an error the client makes up

\* Mutant: what has no status is read as a success.
ParseWithoutStatus(r) ==
    IF r.error THEN Trouble("transport error")
    ELSE IF r.body = NotJson THEN Trouble("unparsable body")
    ELSE IF Has(r.body, "value") THEN Success(ReadValue(r.body[2]["value"]))
    ELSE Trouble("malformed response")

\* parse_function_response(): the status of HTTP does not count.
ParseFunctionResponse(r) ==
    LET body == r.body
        status == Field(body, "status")
        message == Field(body, "errorMessage")
    IN CASE r.error -> Trouble("transport error")
         [] ~r.error /\ body = NotJson -> Trouble("unparsable body")
         [] ~r.error /\ body # NotJson /\ ~IsString(status) -> Trouble("no status field")
         [] ~r.error /\ status = Word("success") ->
              IF Has(body, "value") /\ CanRead(body[2]["value"])
              THEN Success(ReadValue(body[2]["value"]))
              ELSE Trouble("malformed response")
         [] ~r.error /\ IsString(status) /\ status # Word("success") ->
              IF /\ message = Absent \/ IsString(message)
                 /\ CheckErrorData(body) = "ok"
              THEN Failure(IF message = Absent THEN <<"unknown Convex error">> ELSE message[2],
                           GetErrorData(body))
              ELSE Trouble("malformed response")

IsSuccessful(r) == ~r.error /\ 200 <= r.status /\ r.status < 300

\* store_file(): the results on_done is called with, in order.  A callback
\* that throws is called again.
StoreResults(r, throws) ==
    LET unparsable == Trouble("unparsable upload response") IN
    CASE ~IsSuccessful(r) -> <<Trouble("upload failed")>>
      [] IsSuccessful(r) /\ (r.body = NotJson \/ ~CanRead(r.body)) -> <<unparsable>>
      [] IsSuccessful(r) /\ r.body # NotJson /\ CanRead(r.body) ->
            <<Success(ReadValue(r.body))>> \o (IF throws THEN <<unparsable>> ELSE <<>>)

\* fetch_file(): whatever the body is, its bytes are the value.
FetchResults(r) ==
    IF IsSuccessful(r) THEN <<Success(<<"bytes", r.body>>)>>
    ELSE <<Trouble("download failed")>>
=============================================================================
