---------------------------- MODULE MCBaseClient ----------------------------
(***************************************************************************)
(* Small instances of BaseClient for TLC: the messages a server of each    *)
(* run may send.                                                           *)
(***************************************************************************)
EXTENDS BaseClientPromise

Version(qs, id, ts) == [qs |-> qs, id |-> id, ts |-> ts]

Transition(start, end, mods) ==
    [type |-> "Transition", start |-> start, end |-> end, mods |-> mods]

Result(q, v) == [type |-> "Result", id |-> q, at |-> v, journal |-> v]
Removed(q) == [type |-> "Removed", id |-> q]

\* Query runs: results, repeated results and removals of two queries, alone
\* and together, in the version order of a server and out of it.
QueryMessages ==
    {Transition(Version(0, 0, 0), Version(1, 0, 1), mods) :
        mods \in {<<Result(0, 1)>>, <<Result(1, 1)>>, <<Result(0, 1), Result(1, 1)>>,
                  <<Result(1, 1), Removed(1)>>}}
    \cup
    {Transition(Version(1, 0, 1), Version(2, 0, 2), mods) :
        mods \in {<<Result(1, 2)>>, <<Removed(0)>>, <<Result(0, 1), Result(0, 2)>>}}

\* Request runs: answers with and without a timestamp, failures, and empty
\* Transitions that move the watermark forwards, or not at all.
RequestMessages ==
    [type : {"MutationResponse"}, id : {0, 1}, ok : {TRUE}, ts : {NoTs, 1, 2}]
    \cup [type : {"MutationResponse"}, id : {0, 1}, ok : {FALSE}, ts : {NoTs}]
    \cup [type : {"ActionResponse"}, id : {0, 1, 2}, ok : BOOLEAN]
    \cup {Transition(Version(0, 0, 0), Version(0, 0, 1), <<>>),
          Transition(Version(0, 0, 1), Version(0, 0, 2), <<>>),
          Transition(Version(0, 0, 0), Version(0, 0, 0), <<>>)}
=============================================================================
