----------------------------- MODULE WireValues -----------------------------
(***************************************************************************)
(* The wire format of Convex values: json_codec.cpp.                       *)
(*                                                                         *)
(* A double is its bit pattern, of 16 bits here instead of 64: a sign, 5   *)
(* bits of exponent and 10 of mantissa.                                    *)
(***************************************************************************)
EXTENDS WireBytes, FiniteSets, FiniteSetsExt

-----------------------------------------------------------------------------
(* Doubles.                                                                *)

\* The parts of a double.
Exponent(d) == (d \div 1024) % 32
isfinite(d) == Exponent(d) # 31
isnan(d) == ~isfinite(d) /\ d % 1024 # 0
IsNegativeZero(d) == d = Half

\* The double of a small integer.
AsDouble(n) ==
    LET m == IF n < 0 THEN -n ELSE n
        e == Max({k \in 0..10 : 2 ^ k <= m})
        sign == IF n < 0 THEN Half ELSE 0
    IN IF n = 0 THEN 0 ELSE sign + (15 + e) * 1024 + (m - 2 ^ e) * 2 ^ (10 - e)

is_special_float(d) == ~isfinite(d) \/ IsNegativeZero(d)

canonicalize_if_nan(d) == IF isnan(d) THEN 32256 ELSE d

-----------------------------------------------------------------------------
(* Values and JSON.                                                        *)

\* Field names, and the ones validate_field_name() refuses: reserved, empty,
\* too long, or not printable ASCII.
ReservedNames == {"$integer", "$float", "$bytes", "$set", "$map", "$unknown"}
OddNames == {"", "too long", "not ASCII"}

validate_field_name(name) == name \notin ReservedNames \cup OddNames

RECURSIVE Encodable(_), value_to_json(_), Decodable(_), json_to_value(_), Reparsed(_),
          Canonical(_)

\* value_to_json() throws codec_error for any other value.
Encodable(v) ==
    CASE v[1] = "array" -> \A i \in DOMAIN v[2] : Encodable(v[2][i])
      [] v[1] = "object" -> \A f \in DOMAIN v[2] : validate_field_name(f) /\ Encodable(v[2][f])
      [] OTHER -> TRUE

value_to_json(v) ==
    CASE v[1] = "int64" -> Wrapper("$integer", le_base64(v[2]))
      [] v[1] = "float64" -> IF is_special_float(v[2])
                             THEN Wrapper("$float", le_base64(canonicalize_if_nan(v[2])))
                             ELSE v
      [] v[1] = "bytes" -> Wrapper("$bytes", base64_encode(v[2]))
      [] v[1] = "array" -> <<"array", [i \in DOMAIN v[2] |-> value_to_json(v[2][i])]>>
      [] v[1] = "object" -> <<"object", [f \in DOMAIN v[2] |-> value_to_json(v[2][f])]>>
      [] OTHER -> v

\* The name of an object that json_to_value() does not take for an object.
WrapperName(j) ==
    IF j[1] # "object" \/ Cardinality(DOMAIN j[2]) # 1 THEN ""
    ELSE CHOOSE f \in DOMAIN j[2] : TRUE

\* json_to_value() throws codec_error for any other node.
Decodable(j) ==
    LET name == WrapperName(j)
        Payload(Ok(_)) == j[2][name][1] = "string" /\ Ok(j[2][name][2])
        \* $float must not encode a number that JSON has.
        IsSpecial(text) == is_le_base64(text) /\ is_special_float(le_base64_to_word(text))
    IN CASE name = "$integer" -> Payload(is_le_base64)
         [] name = "$float" -> Payload(IsSpecial)
         [] name = "$bytes" -> Payload(is_base64)
         [] name \in {"$set", "$map"} -> FALSE
         [] OTHER -> j[1] \in {"array", "object"} => \A i \in DOMAIN j[2] : Decodable(j[2][i])

json_to_value(j) ==
    LET name == WrapperName(j) IN
    CASE name = "$integer" -> <<"int64", le_base64_to_int(j[2][name][2])>>
      [] name = "$float" -> <<"float64", le_base64_to_word(j[2][name][2])>>
      [] name = "$bytes" -> <<"bytes", base64_decode(j[2][name][2])>>
      [] j[1] = "integer" -> <<"float64", AsDouble(j[2])>>
      [] j[1] \in {"array", "object"} /\ name \notin ReservedNames \ {"$unknown"} ->
            <<j[1], [i \in DOMAIN j[2] |-> json_to_value(j[2][i])]>>
      [] OTHER -> j

\* What is left of a node once it was written as text and parsed again: JSON
\* has no number that is not finite.
Reparsed(j) ==
    CASE j[1] = "float64" /\ ~isfinite(j[2]) -> Null
      [] j[1] \in {"array", "object"} -> <<j[1], [i \in DOMAIN j[2] |-> Reparsed(j[2][i])]>>
      [] OTHER -> j

\* What a value is to whoever parses the text it was written as.
WrittenValue(v) == Reparsed(value_to_json(v))

\* The same value: any NaN is the canonical one.
Canonical(v) ==
    CASE v[1] = "float64" -> <<"float64", canonicalize_if_nan(v[2])>>
      [] v[1] \in {"array", "object"} -> <<v[1], [i \in DOMAIN v[2] |-> Canonical(v[2][i])]>>
      [] OTHER -> v
=============================================================================
