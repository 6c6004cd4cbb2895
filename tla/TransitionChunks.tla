-------------------------- MODULE TransitionChunks --------------------------
(***************************************************************************)
(* transition_chunk_assembler and its use in ws_message(): a Transition    *)
(* too large for a frame arrives in parts, between which the server's      *)
(* keepalive may put a Ping.  Any other message, and the end of the        *)
(* connection, discards the parts received so far.                         *)
(*                                                                         *)
(* The server follows the protocol until it sends a chunk of its own       *)
(* invention; `honest` says whether it has on this connection.             *)
(***************************************************************************)
EXTENDS Integers, Sequences

CONSTANTS
    Transitions,   \* transition ids
    MaxParts,      \* bound: parts of one Transition
    None

\* How far the server has come with a Transition.
Sending == [id : Transitions, parts : 1..MaxParts, next : 1..(MaxParts - 1)]

ASSUME ChunkAssumption ==
    /\ MaxParts \in Nat \ {0}
    /\ None \notin Transitions /\ None \notin Sending

VARIABLES
    data,           \* data_, received_parts_: the parts received
    total_parts,    \* total_parts_
    transition_id,  \* transition_id_
    sending,        \* server: the Transition in the course of being sent
    honest,         \* history: has this server kept to the protocol?
    refused,        \* history: did the client refuse a frame of such a server?
    assembled       \* history: the parts of the Transition assembled last

assembler == <<data, total_parts, transition_id>>
vars == <<assembler, sending, honest, refused, assembled>>

Chunk == [transition_id : Transitions, part_number : 0..MaxParts, total_parts : 0..MaxParts]

buffering == total_parts > 0

\* abandon().
Abandon ==
    /\ data' = <<>>
    /\ total_parts' = 0
    /\ transition_id' = None

\* Mutant: only the number of parts is compared.
ConsistentTotal(c) ==
    /\ c.part_number < c.total_parts
    /\ buffering => c.total_parts = total_parts

Consistent(c) ==
    /\ c.part_number < c.total_parts
    /\ buffering => c.total_parts = total_parts /\ c.transition_id = transition_id

InOrder(c) == c.part_number = Len(data)

\* Mutant: what was received on the old connection is kept.
DisconnectKept ==
    /\ UNCHANGED assembler
    /\ sending' = None
    /\ honest' = TRUE

\* begin_disconnect(): the next connection starts afresh.
Disconnect ==
    /\ Abandon
    /\ sending' = None
    /\ honest' = TRUE

\* feed() throws, which ends the connection.
Refuse(c, fair) ==
    /\ ~(Consistent(c) /\ InOrder(c))
    /\ Disconnect
    /\ refused' = (refused \/ fair)
    /\ UNCHANGED assembled

\* feed() waits for more parts.
Store(c) ==
    /\ Consistent(c) /\ InOrder(c)
    /\ c.part_number + 1 < c.total_parts
    /\ data' = Append(data, c)
    /\ total_parts' = c.total_parts
    /\ transition_id' = c.transition_id
    /\ UNCHANGED <<refused, assembled>>

\* feed() returns the Transition.
Assemble(c) ==
    /\ Consistent(c) /\ InOrder(c)
    /\ c.part_number + 1 = c.total_parts
    /\ assembled' = Append(data, c)
    /\ Abandon
    /\ UNCHANGED refused

\* The parts do not add up to a Transition: feed() throws.  protocol_error
\* ends the connection, codec_error leaves ws_message() with it still open.
Undecodable(c) ==
    /\ Consistent(c) /\ InOrder(c)
    /\ c.part_number + 1 = c.total_parts
    /\ \/ Disconnect
       \/ Abandon /\ sending' = None /\ honest' = FALSE
    /\ UNCHANGED <<refused, assembled>>

-----------------------------------------------------------------------------
\* The server sends the next part of a Transition, its first if it has none
\* under way.
SendPart(t, n) ==
    LET part == IF sending = None THEN 0 ELSE sending.next
        c == [transition_id |-> t, part_number |-> part, total_parts |-> n]
    IN /\ honest
       /\ sending # None => sending.id = t /\ sending.parts = n
       /\ \/ Refuse(c, TRUE)
          \/ /\ Store(c) \/ Assemble(c)
             /\ sending' = IF part + 1 < n THEN [id |-> t, parts |-> n, next |-> part + 1]
                                           ELSE None
             /\ UNCHANGED honest

\* A chunk out of the blue.
SendRogue(c) ==
    \/ Refuse(c, FALSE)
    \/ /\ Store(c) \/ Assemble(c)
       /\ sending' = None
       /\ honest' = FALSE
    \/ Undecodable(c)

\* A message that is no chunk; only a Ping may come amid the parts.
ReceiveWhole(kind) ==
    /\ IF kind = "ping" THEN UNCHANGED <<assembler, sending>>
       ELSE Abandon /\ sending' = None
    /\ UNCHANGED <<honest, refused, assembled>>

\* The connection is lost for any other reason.
Lose == Disconnect /\ UNCHANGED <<refused, assembled>>

Init ==
    /\ data = <<>> /\ total_parts = 0 /\ transition_id = None
    /\ sending = None /\ honest = TRUE
    /\ refused = FALSE /\ assembled = <<>>

Next ==
    \/ \E t \in Transitions, n \in 1..MaxParts : SendPart(t, n)
    \/ \E c \in Chunk : SendRogue(c)
    \/ \E kind \in {"ping", "other"} : ReceiveWhole(kind)
    \/ Lose

Spec == Init /\ [][Next]_vars

-----------------------------------------------------------------------------
\* Type invariant: the assembler is empty, or holds some but not all parts.
TypeOK ==
    /\ data \in Seq(Chunk)
    /\ total_parts \in 0..MaxParts
    /\ transition_id \in Transitions \cup {None}
    /\ buffering <=> data # <<>>
    /\ buffering => Len(data) < total_parts
    /\ {honest, refused} \subseteq BOOLEAN
    /\ sending \in Sending \cup {None}

\* Whatever is sent, a Transition is assembled from all the parts of one
\* Transition in their order: no part missing, repeated or of another.
AssembledWhole ==
    \A i \in DOMAIN assembled :
        /\ assembled[i].part_number = i - 1
        /\ assembled[i].total_parts = Len(assembled)
        /\ assembled[i].transition_id = assembled[1].transition_id

\* A server that keeps to the protocol never has a chunk refused, whatever
\* came before on this connection or an earlier one.
HonestNeverRefused == ~refused
=============================================================================
