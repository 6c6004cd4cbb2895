------------------------------- MODULE MCWire -------------------------------
(***************************************************************************)
(* A small instance of Wire for TLC: values of every kind, also in arrays  *)
(* and objects, and messages with and without their optional members.      *)
(***************************************************************************)
EXTENDS Wire, WireValues

Leaves ==
    {Null, <<"boolean", TRUE>>, <<"string", <<>>>>, <<"string", <<"A", "A", "=", "=">>>>}
    \cup {<<"int64", n>> : n \in {0, 1, -1, 258, -32768, 32767}}
    \* 0, -0, the smallest number, 1, infinities and two NaNs
    \cup {<<"float64", d>> : d \in {0, 32768, 1, 15360, 31744, 64512, 32256, 65025}}
    \cup {<<"bytes", b>> : b \in {<<>>, <<255>>, <<1, 2>>, <<0, 251, 240>>, <<1, 2, 3, 4>>}}

FewLeaves == {Null, <<"string", <<"A", "A", "=", "=">>>>, <<"float64", 65025>>, <<"int64", -1>>}

One(f, v) == <<"object", [g \in {f} |-> v]>>
Two(f, g, v) == <<"object", [h \in {f, g} |-> v]>>

ManyValues ==
    Leaves
    \cup {<<"array", <<v>>>> : v \in FewLeaves} \cup {<<"array", <<>>>>}
    \cup {One(f, v) : f \in ReservedNames \cup OddNames \cup {"a"}, v \in FewLeaves}
    \cup {Two(f, "a", v) : f \in {"b", "$integer"}, v \in FewLeaves}
    \cup {<<"array", <<One("a", <<"array", <<v, v>>>>), v>>>> : v \in FewLeaves}

Arguments == {One("a", v) : v \in Leaves \ {<<"float64", 65025>>}} \cup {<<"object", <<>>>>}

EncodableValues == {v \in ManyValues \cup Arguments : Encodable(v)}

Version(qs, id, ts) == [query_set |-> qs, identity |-> id, ts |-> ts]

Changes(mods) ==
    [type |-> "Transition", start_version |-> Version(0, 1, 0), end_version |-> Version(1, 1, 65535),
     modifications |-> mods]

Updated(v, lines, journal) ==
    [type |-> "QueryUpdated", id |-> 1, result |-> v, log_lines |-> lines, journal |-> journal]

Failed(payload, journal) ==
    [type |-> "QueryFailed", id |-> 2, error |-> <<"e">>, error_data |-> payload, log_lines |-> <<>>,
     journal |-> journal]

Answered(type, result, ts) ==
    [type |-> type, id |-> 3, result |-> result, ts |-> ts, log_lines |-> <<<<"log">>>>]

Updates == {Changes(<<Updated(v, <<>>, Nil)>>) : v \in EncodableValues}

Chunks ==
    {[type |-> "TransitionChunk", chunk |-> <<"c">>, part_number |-> part, total_parts |-> parts,
      transition_id |-> <<t>>] : part \in 0..MaxParts, parts \in 0..MaxParts, t \in Transitions}

AChunk == CHOOSE c \in Chunks : TRUE

OtherMessages ==
    {Changes(<<Updated(Null, <<<<"a">>, <<"b">>>>, Some(<<"j">>)),
                  Failed(<<"boolean", TRUE>>, Some(<<>>)), [type |-> "QueryRemoved", id |-> 0]>>),
     Changes(<<Failed(NoData, Nil)>>), Changes(<<>>),
     Answered("MutationResponse", Success(<<"int64", 258>>), Some(300)),
     Answered("MutationResponse", Failure(<<"e">>, NoData), Nil),
     Answered("ActionResponse", Success(Null), Nil),
     Answered("ActionResponse", Failure(<<"e">>, <<"string", <<>>>>), Nil),
     [type |-> "FatalError", error |-> <<"e">>],
     [type |-> "Ping"]}
    \cup {[type |-> "AuthError", error |-> <<"e">>, base_version |-> base,
           auth_update_attempted |-> attempted] : base \in {Nil, Some(0)}, attempted \in BOOLEAN}

FewServerMessages == Evaluated(Updates \cup OtherMessages \cup Chunks)

FewDamagedMessages == Evaluated(OtherMessages \cup {AChunk})

Token(kind, value, attributes) == [kind |-> kind, value |-> value, acting_as |-> attributes]

FewClientMessages == Evaluated(
    {[type |-> "Connect", session_id |-> "s", connection_count |-> n, last_close_reason |-> reason,
      max_observed_timestamp |-> ts, client_ts |-> clock] :
          n \in {0, 1}, reason \in {"InitialConnect", "x"}, ts \in {Nil, Some(0), Some(256)}, clock \in {Nil, Some(5)}}
    \cup {[type |-> "Authenticate", base_version |-> 0, token |-> token] :
            token \in {Token("None", "", Nil), Token("User", "k", Nil),
                       Token("Admin", "k", Nil), Token("Admin", "k", Some(One("a", Null)))}}
    \cup {[type |-> "ModifyQuerySet", base_version |-> 0, new_version |-> 1,
           modifications |-> <<[type |-> "Add", id |-> 0, udf_path |-> "f", args |-> args,
                                journal |-> journal, component_path |-> component]>>] :
            args \in Arguments, journal \in {Nil, Some(<<"j">>)}, component \in {Nil, Some(<<"c">>)}}
    \cup {[type |-> "ModifyQuerySet", base_version |-> 1, new_version |-> 2,
           modifications |-> <<[type |-> "Remove", id |-> 0]>>]}
    \cup {[type |-> type, id |-> 0, udf_path |-> path, args |-> args, component_path |-> component] :
            type \in {"Mutation", "Action"}, path \in {"f", "g"}, args \in Arguments,
            component \in {Nil, Some(<<"c">>)}})
=============================================================================
