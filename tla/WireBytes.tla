----------------------------- MODULE WireBytes ------------------------------
(***************************************************************************)
(* What the wire format is made of: JSON nodes, and bytes and words        *)
(* written as text (detail/base64.cpp, json_codec.cpp).                    *)
(*                                                                         *)
(* A value and a JSON node are tuples <<kind, content>>.  A string is a    *)
(* sequence of characters; what is not looked at character by character    *)
(* is a string of one long "character".  A word has 2 bytes instead of 8:  *)
(* both leave the same rest in base64.                                     *)
(***************************************************************************)
EXTENDS Integers, Sequences, SequencesExt

Null == <<"null">>

\* What stands for a value that JSON does not have.
Wrapper(name, text) == <<"object", [f \in {name} |-> <<"string", text>>]>>

Bytes == 0..255
Words == 0..65535               \* 2^64 in the code
Half == 32768

-----------------------------------------------------------------------------
(* base64.                                                                 *)

k_alphabet ==
    <<"A", "B", "C", "D", "E", "F", "G", "H", "I", "J", "K", "L", "M", "N", "O", "P",
      "Q", "R", "S", "T", "U", "V", "W", "X", "Y", "Z", "a", "b", "c", "d", "e", "f",
      "g", "h", "i", "j", "k", "l", "m", "n", "o", "p", "q", "r", "s", "t", "u", "v",
      "w", "x", "y", "z", "0", "1", "2", "3", "4", "5", "6", "7", "8", "9", "+", "/">>

\* The i-th of the four characters for each group of three bytes.  What has no
\* byte in the last group is padded.
base64_encode(data) ==
    LET Byte(k) == IF k <= Len(data) THEN data[k] ELSE 0
        Number(g) == (Byte(3 * g + 1) * 256 + Byte(3 * g + 2)) * 256 + Byte(3 * g + 3)
        Digits(n) == <<n \div 262144, (n \div 4096) % 64, (n \div 64) % 64, n % 64>>
        Char(g, i) == IF 3 * g + i > Len(data) + 1 THEN "="
                      ELSE k_alphabet[Digits(Number(g))[i] + 1]
    IN [k \in 1..(4 * ((Len(data) + 2) \div 3)) |-> Char((k - 1) \div 4, ((k - 1) % 4) + 1)]

\* Does base64_decode() take this text?  It is lenient about "=" at the end.
is_base64(text) ==
    /\ Len(text) % 4 = 0
    /\ \A i \in DOMAIN text :
          IF text[i] = "=" THEN i > Len(text) - 4 /\ (i = Len(text) - 1 => text[i + 1] = "=")
          ELSE text[i] \in ToSet(k_alphabet)

\* The bytes that the last group lacks.
Missing(text) ==
    IF text = <<>> \/ text[Len(text)] # "=" THEN 0
    ELSE IF text[Len(text) - 1] # "=" THEN 1 ELSE 2

base64_decode(text) ==
    LET Digit(c) == IF c = "=" THEN 0 ELSE (CHOOSE i \in 1..64 : k_alphabet[i] = c) - 1
        Number(g) == ((Digit(text[4 * g + 1]) * 64 + Digit(text[4 * g + 2])) * 64
                        + Digit(text[4 * g + 3])) * 64 + Digit(text[4 * g + 4])
        Group(n) == <<n \div 65536, (n \div 256) % 256, n % 256>>
    IN [k \in 1..(3 * (Len(text) \div 4) - Missing(text)) |->
           Group(Number((k - 1) \div 3))[((k - 1) % 3) + 1]]

-----------------------------------------------------------------------------
(* Words.                                                                  *)

to_le_bytes(n) == <<n % 256, n \div 256>>

le_base64(n) == base64_encode(to_le_bytes(n % (2 * Half)))

is_le_base64(text) == is_base64(text) /\ Len(base64_decode(text)) = 2

\* le_base64_to_uint64().
le_base64_to_word(text) ==
    LET bytes == base64_decode(text) IN bytes[1] + 256 * bytes[2]

le_base64_to_int(text) ==
    LET n == le_base64_to_word(text) IN IF n >= Half THEN n - 2 * Half ELSE n
=============================================================================
