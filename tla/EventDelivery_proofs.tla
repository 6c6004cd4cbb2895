------------------------- MODULE EventDelivery_proofs -------------------------
(***************************************************************************)
(* Delivery of the callbacks of client_impl, for any number of             *)
(* subscribers, requests and results and every interleaving of its         *)
(* threads, in both delivery modes.                                        *)
(***************************************************************************)
EXTENDS EventDelivery, TLAPS, SequenceTheorems, FiniteSetTheorems

\* Types of the variables.
TypeOK ==
    /\ immediate \in BOOLEAN
    /\ latest \in {NoResult, computed} /\ computed \in 0..MaxResults
    /\ subs \in Seq(Listeners)
    /\ pending \subseteq Requests /\ IsFiniteSet(pending)
    /\ queue \in Seq(Event) /\ hand \in [Threads -> Seq(Event)]
    /\ pc \in [Threads -> {"idle", "deliver", "pump", "join", "destroy"} \cup Listeners]
    /\ handle \in [Listeners -> {"none", "held", "released"}]
    /\ connection \in {"none", "open", "garbage", "collected"} /\ blocked \in BOOLEAN
    /\ phase \in {"alive", "hung", "joining", "sweeping", "draining", "returned"}
    /\ made \subseteq Listeners \cup Requests
    /\ calls \in [Listeners -> Seq(1..MaxResults)]
    /\ ran \in [Requests -> Seq(Lost..MaxResults \cup {ShutDown})]
    /\ early \subseteq OneShots /\ overtaken \subseteq Subscribers

\* What each thread can be in, and what is left of them as ~client goes on.
ThreadInv ==
    /\ \A t \in Threads : Idle(t) => hand[t] = <<>>
    /\ \A t \in Threads \ Program : pc[t] \in {"idle", "deliver"}
    /\ pc["user"] \in {"idle"} \cup Listeners
    /\ pc["main"] \in (CASE phase = "alive" -> {"idle", "pump"} \cup Listeners
                         [] phase \in {"hung", "joining", "sweeping"} -> {"join"}
                         [] OTHER -> {"destroy"})
    /\ stopping => Idle("user") /\ pending = {}
    /\ phase \in {"sweeping", "draining", "returned"} => hand["worker"] = <<>>
    /\ phase \in {"draining", "returned"} => queue = <<>> /\ hand["ws"] = <<>>
    /\ connection = "none" => hand["ws"] = <<>>
    /\ phase = "sweeping" => connection \in {"none", "garbage"}
    /\ phase = "returned" => hand["main"] = <<>>
    /\ immediate => queue = <<>>
    /\ ~immediate => hand["detached"] = <<>>

-----------------------------------------------------------------------------
(* Completions.                                                            *)

\* Whom the events of a type are for.
To(s, type) == {s[i].to : i \in {j \in DOMAIN s : s[j].type = type}}

\* The requests that events complete.
Told(s) == To(s, "completion")

\* They complete a request once.
Distinct(s) ==
    \A i, j \in DOMAIN s :
        s[i].type = "completion" /\ s[j].type = "completion" /\ s[i].to = s[j].to => i = j

Answered == {r \in Requests : ran[r] # <<>>}

\* What the threads are about to tell.
InHand == [t \in Threads |-> Told(hand[t])]

\* All requests are in one place: waiting, queued, in some hand, or done.
Parted(waiting, queued, held, done, all) ==
    /\ waiting \cap (queued \cup done) = {} /\ queued \cap done = {}
    /\ \A t \in Threads : held[t] \cap (waiting \cup queued \cup done) = {}
    /\ \A t, u \in Threads : t # u => held[t] \cap held[u] = {}
    /\ \A r : r \in all <=>
                 r \in waiting \/ r \in queued \/ r \in done \/ \E t \in Threads : r \in held[t]

\* A request made waits, is completed by one event on its way, or has been.
AnswerInv ==
    /\ Distinct(queue) /\ \A t \in Threads : Distinct(hand[t])
    /\ \A r \in Requests : Len(ran[r]) <= 1
    /\ Parted(pending, Told(queue), InHand, Answered, made \cap Requests)

-----------------------------------------------------------------------------
(* Subscriptions and one-shot queries.                                     *)

\* Whom events of a type are on their way to.
Sent(type) == To(queue, type) \cup UNION {To(hand[t], type) : t \in Threads}

\* The listeners with an event on its way.
Expecting == Sent("result") \cup Sent("release")

\* Entries in subs are of different listeners, each made by one subscribe(), and
\* go with the handle.
SubsInv ==
    /\ \A i, j \in DOMAIN subs : subs[i] = subs[j] => i = j
    /\ \A x \in Listeners \ made :
           x \notin Range(subs) \cup Expecting /\ handle[x] = "none" /\ calls[x] = <<>>
    /\ \A t \in Program : pc[t] \in Listeners => pc[t] \in made /\ handle[pc[t]] = "none"
    /\ \A t, u \in Program : pc[t] \in Listeners /\ pc[t] = pc[u] => t = u
    /\ ~stopping => \A x \in Listeners : handle[x] = "released" => x \notin Range(subs)

\* The first run of a one-shot callback leaves a release of its handle behind,
\* unless the handle is released.
OnceInv ==
    \A x \in OneShots :
        /\ Len(calls[x]) <= 1
        /\ calls[x] # <<>> /\ x \notin early =>
               handle[x] = "released" \/ (handle[x] = "held" /\ x \in Sent("release"))

-----------------------------------------------------------------------------
(* Sequences of events.                                                    *)

\* Membership in To.
LEMMA ToMember ==
    ASSUME NEW s, NEW type, NEW x
    PROVE  x \in To(s, type) <=> \E i \in DOMAIN s : s[i].type = type /\ s[i].to = x
BY DEF To

\* The positions of a concatenation.
LEMMA ConcatAt ==
    ASSUME NEW S, NEW s \in Seq(S), NEW u \in Seq(S), NEW w, w = s \o u
    PROVE  /\ w \in Seq(S)
           /\ Len(s) \in Nat /\ Len(u) \in Nat
           /\ DOMAIN s = 1..Len(s) /\ DOMAIN u = 1..Len(u) /\ DOMAIN w = 1..(Len(s) + Len(u))
           /\ \A i \in DOMAIN s : i \in DOMAIN w /\ w[i] = s[i]
           /\ \A i \in DOMAIN u : Len(s) + i \in DOMAIN w /\ w[Len(s) + i] = u[i]
           /\ \A i \in DOMAIN w : \/ i \in DOMAIN s
                                  \/ i > Len(s) /\ i - Len(s) \in DOMAIN u
<1>1. /\ w \in Seq(S) /\ Len(w) = Len(s) + Len(u)
      /\ \A i \in 1..(Len(s) + Len(u)) : w[i] = IF i <= Len(s) THEN s[i] ELSE u[i - Len(s)]
    BY ConcatProperties
<1>2. /\ Len(s) \in Nat /\ Len(u) \in Nat
      /\ DOMAIN s = 1..Len(s) /\ DOMAIN u = 1..Len(u) /\ DOMAIN w = 1..(Len(s) + Len(u))
    BY <1>1, LenProperties
<1>3. ASSUME NEW i \in DOMAIN s PROVE i \in DOMAIN w /\ w[i] = s[i]
    BY <1>1, <1>2, <1>3
<1>4. ASSUME NEW i \in DOMAIN u PROVE Len(s) + i \in DOMAIN w /\ w[Len(s) + i] = u[i]
    <2>1. i \in 1..Len(u) /\ Len(s) + i \in 1..(Len(s) + Len(u)) /\ ~(Len(s) + i <= Len(s))
        BY <1>2, <1>4
    <2>2. (Len(s) + i) - Len(s) = i
        BY <1>2, <2>1
    <2> QED
        BY <1>1, <1>2, <2>1, <2>2
<1>5. ASSUME NEW i \in DOMAIN w PROVE i \in DOMAIN s \/ (i > Len(s) /\ i - Len(s) \in DOMAIN u)
    BY <1>2, <1>5
<1> QED
    BY <1>1, <1>2, <1>3, <1>4, <1>5

\* The positions of a tail.
LEMMA TailAt ==
    ASSUME NEW S, NEW s \in Seq(S), s # <<>>, NEW w, w = Tail(s)
    PROVE  /\ w \in Seq(S) /\ Head(s) \in S /\ Head(s) = s[1]
           /\ Len(s) \in Nat \ {0}
           /\ DOMAIN s = 1..Len(s) /\ DOMAIN w = 1..(Len(s) - 1)
           /\ \A i \in DOMAIN w : i + 1 \in DOMAIN s /\ w[i] = s[i + 1]
           /\ \A i \in DOMAIN s : i = 1 \/ i - 1 \in DOMAIN w
<1>1. /\ w \in Seq(S) /\ Head(s) \in S /\ Len(w) = Len(s) - 1
      /\ \A i \in 1..Len(w) : w[i] = s[i + 1]
    BY HeadTailProperties
<1>2. Len(s) \in Nat \ {0} /\ DOMAIN s = 1..Len(s) /\ DOMAIN w = 1..(Len(s) - 1)
    BY <1>1, EmptySeq, LenProperties
<1>3. Head(s) = s[1]
    OBVIOUS
<1> QED
    BY <1>1, <1>2, <1>3

\* Whom a concatenation is for.
LEMMA ToConcat ==
    ASSUME NEW S, NEW s \in Seq(S), NEW u \in Seq(S), NEW type
    PROVE  To(s \o u, type) = To(s, type) \cup To(u, type)
<1>1. PICK w : w = s \o u
    OBVIOUS
<1>2. ASSUME NEW x PROVE x \in To(w, type) <=> x \in To(s, type) \/ x \in To(u, type)
    <2>1. ASSUME x \in To(w, type) PROVE x \in To(s, type) \/ x \in To(u, type)
        <3>1. PICK i \in DOMAIN w : w[i].type = type /\ w[i].to = x
            BY <2>1, ToMember
        <3>2. CASE i \in DOMAIN s
            BY <1>1, <3>1, <3>2, ConcatAt, ToMember
        <3>3. CASE i - Len(s) \in DOMAIN u
            <4>1. Len(s) + (i - Len(s)) = i
                BY <1>1, ConcatAt
            <4>2. u[i - Len(s)] = w[i]
                BY <1>1, <3>3, <4>1, ConcatAt
            <4> QED
                BY <3>1, <3>3, <4>2, ToMember
        <3> QED
            BY <1>1, <3>2, <3>3, ConcatAt
    <2>2. ASSUME x \in To(s, type) PROVE x \in To(w, type)
        <3>1. PICK i \in DOMAIN s : s[i].type = type /\ s[i].to = x
            BY <2>2, ToMember
        <3>2. i \in DOMAIN w /\ w[i] = s[i]
            BY <1>1, ConcatAt
        <3> QED
            BY <3>1, <3>2, ToMember
    <2>3. ASSUME x \in To(u, type) PROVE x \in To(w, type)
        <3>1. PICK i \in DOMAIN u : u[i].type = type /\ u[i].to = x
            BY <2>3, ToMember
        <3>2. Len(s) + i \in DOMAIN w /\ w[Len(s) + i] = u[i]
            BY <1>1, ConcatAt
        <3> QED
            BY <3>1, <3>2, ToMember
    <2> QED
        BY <2>1, <2>2, <2>3
<1> QED
    BY <1>1, <1>2

\* Whom a tail is for.
LEMMA ToTail ==
    ASSUME NEW S, NEW s \in Seq(S), s # <<>>, NEW type
    PROVE  /\ To(Tail(s), type) \subseteq To(s, type)
           /\ Head(s).type # type => To(s, type) = To(Tail(s), type)
           /\ Head(s).type = type => To(s, type) = To(Tail(s), type) \cup {Head(s).to}
<1>1. PICK w : w = Tail(s)
    OBVIOUS
<1>2. ASSUME NEW x PROVE x \in To(s, type) <=>
                             x \in To(w, type) \/ (Head(s).type = type /\ Head(s).to = x)
    <2>1. ASSUME x \in To(s, type)
          PROVE  x \in To(w, type) \/ (Head(s).type = type /\ Head(s).to = x)
        <3>1. PICK i \in DOMAIN s : s[i].type = type /\ s[i].to = x
            BY <2>1, ToMember
        <3>2. CASE i = 1
            BY <1>1, <3>1, <3>2, TailAt
        <3>3. CASE i - 1 \in DOMAIN w
            <4>1. (i - 1) + 1 = i
                BY <1>1, TailAt
            <4>2. w[i - 1] = s[i]
                BY <1>1, <3>3, <4>1, TailAt
            <4> QED
                BY <3>1, <3>3, <4>2, ToMember
        <3> QED
            BY <1>1, <3>2, <3>3, TailAt
    <2>2. ASSUME x \in To(w, type) PROVE x \in To(s, type)
        <3>1. PICK i \in DOMAIN w : w[i].type = type /\ w[i].to = x
            BY <2>2, ToMember
        <3>2. i + 1 \in DOMAIN s /\ w[i] = s[i + 1]
            BY <1>1, TailAt
        <3> QED
            BY <3>1, <3>2, ToMember
    <2>3. ASSUME Head(s).type = type /\ Head(s).to = x PROVE x \in To(s, type)
        <3>1. 1 \in DOMAIN s /\ Head(s) = s[1]
            BY <1>1, TailAt
        <3> QED
            BY <2>3, <3>1, ToMember
    <2> QED
        BY <2>1, <2>2, <2>3
<1> QED
    BY <1>1, <1>2

\* No events are for nobody.
LEMMA ToEmpty == \A type : To(<<>>, type) = {}
BY DEF To

\* One event.
LEMMA ToSingle ==
    ASSUME NEW e, NEW type
    PROVE  To(<<e>>, type) = IF e.type = type THEN {e.to} ELSE {}
BY DEF To

\* Sequences that complete different requests may follow one another.
LEMMA DistinctConcat ==
    ASSUME NEW S, NEW s \in Seq(S), NEW u \in Seq(S), Distinct(s), Distinct(u),
           Told(s) \cap Told(u) = {}
    PROVE  Distinct(s \o u)
<1>1. PICK w : w = s \o u
    OBVIOUS
<1> SUFFICES ASSUME NEW i \in DOMAIN w, NEW j \in DOMAIN w,
                    w[i].type = "completion", w[j].type = "completion", w[i].to = w[j].to
             PROVE  i = j
    BY <1>1 DEF Distinct
<1>2. ASSUME NEW k \in DOMAIN w, k \notin DOMAIN s
      PROVE  k - Len(s) \in DOMAIN u /\ w[k] = u[k - Len(s)]
    <2>1. k - Len(s) \in DOMAIN u /\ Len(s) + (k - Len(s)) = k
        BY <1>1, <1>2, ConcatAt
    <2> QED
        BY <1>1, <2>1, ConcatAt
<1>3. \A k \in DOMAIN s : w[k] = s[k]
    BY <1>1, ConcatAt
<1>4. CASE i \in DOMAIN s /\ j \in DOMAIN s
    BY <1>3, <1>4 DEF Distinct
<1>5. CASE i \notin DOMAIN s /\ j \notin DOMAIN s
    <2>1. i - Len(s) = j - Len(s)
        BY <1>2, <1>5 DEF Distinct
    <2> QED
        BY <1>1, <2>1, ConcatAt
<1>6. ASSUME NEW k \in DOMAIN s, NEW l \in DOMAIN w, l \notin DOMAIN s,
             w[k].type = "completion", w[l].type = "completion"
      PROVE  w[k].to # w[l].to
    <2>1. w[k].to \in Told(s)
        BY <1>3, <1>6, ToMember DEF Told
    <2>2. w[l].to \in Told(u)
        BY <1>2, <1>6, ToMember DEF Told
    <2> QED
        BY <2>1, <2>2
<1> QED
    BY <1>1, <1>4, <1>5, <1>6

\* What follows the first event does not complete the same request again.
LEMMA DistinctTail ==
    ASSUME NEW S, NEW s \in Seq(S), s # <<>>, Distinct(s)
    PROVE  /\ Distinct(Tail(s))
           /\ Head(s).type = "completion" => Head(s).to \notin Told(Tail(s))
<1>1. PICK w : w = Tail(s)
    OBVIOUS
<1>2. \A i \in DOMAIN w : i + 1 \in DOMAIN s /\ w[i] = s[i + 1] /\ i \in Nat /\ i + 1 # 1
    BY <1>1, TailAt
<1>3. Distinct(w)
    <2> SUFFICES ASSUME NEW i \in DOMAIN w, NEW j \in DOMAIN w,
                        w[i].type = "completion", w[j].type = "completion", w[i].to = w[j].to
                 PROVE  i = j
        BY DEF Distinct
    <2>1. i + 1 = j + 1
        BY <1>2 DEF Distinct
    <2> QED
        BY <1>2, <2>1
<1>4. ASSUME Head(s).type = "completion", Head(s).to \in Told(w) PROVE FALSE
    <2>1. PICK i \in DOMAIN w : w[i].type = "completion" /\ w[i].to = Head(s).to
        BY <1>4, ToMember DEF Told
    <2>2. 1 \in DOMAIN s /\ Head(s) = s[1]
        BY <1>1, TailAt
    <2>3. i + 1 = 1
        BY <1>2, <1>4, <2>1, <2>2 DEF Distinct
    <2> QED
        BY <1>2, <2>3
<1> QED
    BY <1>1, <1>3, <1>4

\* A finite set as a sequence: every element is in it once.
LEMMA SetToSeqProperties ==
    ASSUME NEW S, IsFiniteSet(S), NEW T, S \subseteq T
    PROVE  /\ SetToSeq(S) \in Seq(T)
           /\ \A i \in DOMAIN SetToSeq(S) : SetToSeq(S)[i] \in S
           /\ \A i, j \in DOMAIN SetToSeq(S) : SetToSeq(S)[i] = SetToSeq(S)[j] => i = j
           /\ \A x \in S : \E i \in DOMAIN SetToSeq(S) : SetToSeq(S)[i] = x
<1> DEFINE n == Cardinality(S)
<1>1. n \in Nat /\ ExistsBijection(1..n, S)
    BY FS_CardinalityType
<1>2. PICK g \in [1..n -> S] : IsInjective(g)
    BY <1>1 DEF ExistsBijection, Bijection, Injection, IsInjective
<1>3. PICK f : f = SetToSeq(S)
    OBVIOUS
<1>4. f \in [1..n -> S] /\ IsInjective(f)
    BY <1>2, <1>3 DEF SetToSeq
<1>5. f \in Injection(1..n, S)
    BY <1>4 DEF Injection, IsInjective
<1>6. IsFiniteSet(1..n) /\ Cardinality(1..n) = n
    BY <1>1, FS_Interval
<1>7. f \in Surjection(1..n, S)
    BY <1>5, <1>6, FS_Injection
<1>8. f \in Seq(T)
    <2>1. \A i \in 1..n : f[i] \in T
        BY <1>4
    <2>2. f = [i \in 1..n |-> f[i]]
        BY <1>4
    <2> QED
        BY <1>1, <2>1, <2>2, IsASeq
<1> QED
    BY <1>3, <1>4, <1>7, <1>8 DEF IsInjective, Surjection

-----------------------------------------------------------------------------
(* The events a thread collects.                                           *)

\* The completions of one message are of the requests done, each once.
LEMMA CompletionsAre ==
    ASSUME NEW done, IsFiniteSet(done), done \subseteq Requests,
           NEW n \in Lost..MaxResults \cup {ShutDown}, NEW c, c = Completions(done, n)
    PROVE  /\ c \in Seq(Event)
           /\ \A i \in DOMAIN c : c[i].type = "completion" /\ c[i].to \in done /\ c[i].at = n
           /\ Told(c) = done /\ Distinct(c)
<1>1. PICK s : s = SetToSeq(done)
    OBVIOUS
<1>2. /\ s \in Seq(Requests)
      /\ \A i \in DOMAIN s : s[i] \in done
      /\ \A i, j \in DOMAIN s : s[i] = s[j] => i = j
      /\ \A x \in done : \E i \in DOMAIN s : s[i] = x
    BY <1>1, SetToSeqProperties
<1>3. Len(s) \in Nat /\ DOMAIN s = 1..Len(s)
    BY <1>2, LenProperties
<1>4. c = [i \in 1..Len(s) |-> Completion(s[i], n)]
    BY <1>1, <1>3 DEF Completions
<1>5. \A i \in 1..Len(s) : Completion(s[i], n) \in Event
    <2> SUFFICES ASSUME NEW i \in 1..Len(s)
                 PROVE  Completion(s[i], n) \in
                            [type : {"completion"}, to : Requests, at : Lost..MaxResults \cup {ShutDown}]
        BY DEF Event
    <2>1. s[i] \in Requests
        BY <1>2, <1>3
    <2> QED
        BY <2>1 DEF Completion
<1>6. c \in Seq(Event)
    BY <1>3, <1>4, <1>5, IsASeq
<1>7. DOMAIN c = DOMAIN s /\ \A i \in DOMAIN c : c[i] = Completion(s[i], n)
    BY <1>3, <1>4
<1>8. \A i \in DOMAIN c : c[i].type = "completion" /\ c[i].to = s[i] /\ c[i].at = n
    BY <1>7 DEF Completion
<1>9. Distinct(c)
    BY <1>2, <1>7, <1>8 DEF Distinct
<1>10. ASSUME NEW x PROVE x \in Told(c) <=> x \in done
    BY <1>2, <1>7, <1>8, ToMember DEF Told
<1> QED
    BY <1>2, <1>6, <1>7, <1>8, <1>9, <1>10

\* The results of one message go to every entry of subs, in order.
LEMMA ResultsAre ==
    ASSUME NEW n \in 1..MaxResults, subs \in Seq(Listeners), NEW c, c = Results(n)
    PROVE  /\ c \in Seq(Event)
           /\ DOMAIN c = DOMAIN subs
           /\ \A i \in DOMAIN c : c[i] = ResultEvent(subs[i], n, FALSE)
           /\ Told(c) = {} /\ Distinct(c) /\ To(c, "release") = {}
<1>1. Len(subs) \in Nat /\ DOMAIN subs = 1..Len(subs) /\ \A i \in DOMAIN subs : subs[i] \in Listeners
    BY LenProperties, ElementOfSeq
<1>2. c = [i \in 1..Len(subs) |-> ResultEvent(subs[i], n, FALSE)]
    BY <1>1 DEF Results
<1>3. \A i \in 1..Len(subs) : ResultEvent(subs[i], n, FALSE) \in Event
    BY <1>1 DEF ResultEvent, Event
<1>4. c \in Seq(Event)
    <2>1. c \in [1..Len(subs) -> Event]
        BY <1>2, <1>3
    <2> QED
        BY <1>1, <2>1, SeqDef
<1>5. DOMAIN c = DOMAIN subs /\ \A i \in DOMAIN c : c[i] = ResultEvent(subs[i], n, FALSE)
    BY <1>1, <1>2
<1>6. \A i \in DOMAIN c : c[i].type = "result"
    BY <1>5 DEF ResultEvent
<1>7. Told(c) = {} /\ To(c, "release") = {} /\ Distinct(c)
    BY <1>6 DEF Told, To, Distinct
<1> QED
    BY <1>4, <1>5, <1>7

\* A message's events are results first, then completions.
LEMMA EventsAre ==
    ASSUME NEW changed \in BOOLEAN, NEW done, IsFiniteSet(done), done \subseteq Requests,
           subs \in Seq(Listeners),
           NEW n \in 0..MaxResults, changed => n # 0, NEW c, c = EventsOf(changed, done, n)
    PROVE  c \in Seq(Event) /\ Told(c) = done /\ Distinct(c) /\ To(c, "release") = {}
<1>1. PICK u : u = Completions(done, n)
    OBVIOUS
<1>2. PICK w : w = IF changed THEN Results(n) ELSE <<>>
    OBVIOUS
<1>3. n \in Lost..MaxResults \cup {ShutDown}
    BY DEF Lost
<1>4. u \in Seq(Event) /\ Told(u) = done /\ Distinct(u) /\ To(u, "release") = {}
    <2>1. /\ u \in Seq(Event) /\ Told(u) = done /\ Distinct(u)
          /\ \A i \in DOMAIN u : u[i].type = "completion"
        BY <1>1, <1>3, CompletionsAre
    <2> QED
        BY <2>1 DEF To
<1>5. w \in Seq(Event) /\ Told(w) = {} /\ Distinct(w) /\ To(w, "release") = {}
    <2>1. CASE changed
        <3>1. n \in 1..MaxResults
            BY <2>1
        <3> QED
            BY <1>2, <2>1, <3>1, ResultsAre
    <2>2. CASE ~changed
        BY <1>2, <2>2, EmptySeq, ToEmpty DEF Told, Distinct
    <2> QED
        BY <2>1, <2>2
<1>6. c = w \o u
    BY <1>1, <1>2 DEF EventsOf
<1>7. c \in Seq(Event)
    BY <1>4, <1>5, <1>6, ConcatProperties
<1>8. Told(c) = done /\ To(c, "release") = {}
    <2>1. To(w \o u, "completion") = To(w, "completion") \cup To(u, "completion")
        BY <1>4, <1>5, ToConcat
    <2>2. To(w \o u, "release") = To(w, "release") \cup To(u, "release")
        BY <1>4, <1>5, ToConcat
    <2> QED
        BY <1>4, <1>5, <1>6, <2>1, <2>2 DEF Told
<1>9. Distinct(c)
    BY <1>4, <1>5, <1>6, DistinctConcat
<1> QED
    BY <1>7, <1>8, <1>9

-----------------------------------------------------------------------------
(* Type correctness.                                                       *)

\* A thread collects events, or goes on with the rest of them.
LEMMA HandType ==
    ASSUME TypeOK, NEW t \in Threads, NEW events \in Seq(Event),
           Collect(t, events) \/ GoOn(t, events)
    PROVE  /\ hand' \in [Threads -> Seq(Event)]
           /\ pc' \in [Threads -> {"idle", "deliver", "pump", "join", "destroy"} \cup Listeners]
BY DEF TypeOK, Collect, GoOn

\* The events of a lost connection.
LEMMA LostType ==
    ASSUME TypeOK, NEW lost \in SUBSET (pending \cap Actions)
    PROVE  /\ IsFiniteSet(lost) /\ lost \subseteq Requests
           /\ Completions(lost, Lost) \in Seq(Event)
           /\ Told(Completions(lost, Lost)) = lost /\ Distinct(Completions(lost, Lost))
<1>1. lost \subseteq Requests /\ IsFiniteSet(lost)
    BY FS_Subset DEF TypeOK
<1>2. Lost \in Lost..MaxResults \cup {ShutDown}
    BY DeliveryAssumption DEF Lost
<1> QED
    BY <1>1, <1>2, CompletionsAre

\* The event that removes an element and the one that runs keep subs a list.
LEMMA WithoutType ==
    ASSUME subs \in Seq(Listeners), NEW x
    PROVE  Without(x) \in Seq(Listeners)
<1>1. CASE x \in Range(subs)
    <2>1. PICK i \in DOMAIN subs : i = CHOOSE j \in DOMAIN subs : subs[j] = x
        BY <1>1 DEF Range
    <2>2. Len(subs) \in Nat /\ DOMAIN subs = 1..Len(subs) /\ \A j \in 1..Len(subs) : subs[j] \in Listeners
        BY LenProperties, ElementOfSeq
    <2> PICK n \in Nat : n = Len(subs)
        BY <2>2
    <2> i \in 1..n
        BY <2>1, <2>2
    <2>3. SubSeq(subs, 1, i - 1) \in Seq(Listeners)
        <3>1. 1 \in Int /\ i - 1 \in Int /\ \A j \in 1..(i - 1) : j \in 1..n
            OBVIOUS
        <3> QED
            BY <2>2, <3>1, SubSeqProperties
    <2>4. SubSeq(subs, i + 1, Len(subs)) \in Seq(Listeners)
        <3>1. i + 1 \in Int /\ n \in Int /\ \A j \in (i + 1)..n : j \in 1..n
            OBVIOUS
        <3> QED
            BY <2>2, <3>1, SubSeqProperties
    <2>5. SubSeq(subs, 1, i - 1) \o SubSeq(subs, i + 1, Len(subs)) \in Seq(Listeners)
        BY <2>3, <2>4, ConcatProperties
    <2> QED
        BY <1>1, <2>1, <2>5 DEF Without, RemoveAt
<1>2. CASE x \notin Range(subs)
    BY <1>2 DEF Without
<1> QED
    BY <1>1, <1>2

\* Releasing a handle.
LEMMA ReleaseType ==
    ASSUME TypeOK, NEW x \in Listeners, Release(x)
    PROVE  subs' \in Seq(Listeners) /\ handle' \in [Listeners -> {"none", "held", "released"}]
BY WithoutType DEF TypeOK, Release

\* An event at the front of what a thread runs.
LEMMA HeadType ==
    ASSUME TypeOK, NEW t \in Threads, hand[t] # <<>>
    PROVE  /\ Head(hand[t]) \in Event /\ Tail(hand[t]) \in Seq(Event)
           /\ hand[t] \in Seq(Event)
BY HeadTailProperties DEF TypeOK

\* What becomes of the connection concerns no event.
LEMMA ConnectionSteps ==
    ASSUME Connection \/ Join
    PROVE  /\ UNCHANGED <<immediate, latest, computed, subs, pending, queue, hand, pc, handle,
                          made, calls, ran, early, overtaken>>
           /\ phase' = phase \/ (phase = "joining" /\ phase' = "sweeping")
BY DEF Connection, Block, Connect, WorkerCollect, WorkerDestroy, Join, deliveryVars, eventVars,
    historyVars

\* A callback that runs.
LEMMA RunType ==
    ASSUME TypeOK, NEW t \in Threads, Run(t)
    PROVE  TypeOK'
<1>1. PICK e : e = Head(hand[t])
    OBVIOUS
<1>2. hand[t] # <<>> /\ e \in Event /\ Tail(hand[t]) \in Seq(Event)
    BY <1>1, HeadType DEF Run, Running
<1>3. UNCHANGED <<immediate, latest, computed, pending, queue, connection, blocked, phase, made>>
    BY DEF Run, connVars
<1>4. CASE CallUpdate(t, e)
    <2>1. e.to \in Subscribers /\ e.to \in Listeners /\ e.at \in 1..MaxResults
        BY <1>2, <1>4 DEF CallUpdate, Event, Listeners
    <2>2. /\ hand' \in [Threads -> Seq(Event)]
          /\ pc' \in [Threads -> {"idle", "deliver", "pump", "join", "destroy"} \cup Listeners]
        BY <1>2, <1>4, HandType DEF CallUpdate
    <2>3. Append(calls[e.to], e.at) \in Seq(1..MaxResults)
        BY <2>1, AppendProperties DEF TypeOK
    <2>4. calls' \in [Listeners -> Seq(1..MaxResults)]
        BY <1>4, <2>1, <2>3 DEF CallUpdate, TypeOK
    <2>5. overtaken' \subseteq Subscribers
        BY <1>4, <2>1 DEF CallUpdate, TypeOK
    <2>6. UNCHANGED <<subs, handle, ran, early>>
        BY <1>4 DEF CallUpdate
    <2> QED
        BY <1>3, <2>2, <2>4, <2>5, <2>6 DEF TypeOK
<1>5. CASE CallOnce(t, e)
    <2>1. e.to \in OneShots /\ e.to \in Listeners /\ e.at \in 1..MaxResults
        BY <1>2, <1>5 DEF CallOnce, Event, Listeners
    <2>2. UNCHANGED <<subs, handle, ran, overtaken>>
        BY <1>5 DEF CallOnce
    <2>3. CASE calls[e.to] # <<>>
        <3>1. GoOn(t, Tail(hand[t])) /\ UNCHANGED <<calls, early>>
            BY <1>5, <2>3 DEF CallOnce
        <3>2. /\ hand' \in [Threads -> Seq(Event)]
              /\ pc' \in [Threads -> {"idle", "deliver", "pump", "join", "destroy"} \cup Listeners]
            BY <1>2, <3>1, HandType
        <3> QED
            BY <1>3, <2>2, <3>1, <3>2 DEF TypeOK
    <2>4. CASE calls[e.to] = <<>>
        <3>1. PICK r : r = [type |-> "release", to |-> e.to]
            OBVIOUS
        <3>2. r \in Event
            BY <2>1, <3>1 DEF Event
        <3>3. <<r>> \in Seq(Event)
            BY <3>2
        <3>4. <<r>> \o Tail(hand[t]) \in Seq(Event)
            BY <1>2, <3>3, ConcatProperties
        <3>5. /\ GoOn(t, <<r>> \o Tail(hand[t]))
              /\ calls' = [calls EXCEPT ![e.to] = Append(@, e.at)]
              /\ early' \subseteq early \cup {e.to}
            BY <1>5, <2>4, <3>1 DEF CallOnce
        <3>6. /\ hand' \in [Threads -> Seq(Event)]
              /\ pc' \in [Threads -> {"idle", "deliver", "pump", "join", "destroy"} \cup Listeners]
            BY <3>4, <3>5, HandType
        <3>7. Append(calls[e.to], e.at) \in Seq(1..MaxResults)
            BY <2>1, AppendProperties DEF TypeOK
        <3>8. calls' \in [Listeners -> Seq(1..MaxResults)]
            BY <2>1, <3>5, <3>7 DEF TypeOK
        <3>9. early' \subseteq OneShots
            BY <2>1, <3>5 DEF TypeOK
        <3> QED
            BY <1>3, <2>2, <3>6, <3>8, <3>9 DEF TypeOK
    <2> QED
        BY <2>3, <2>4
<1>6. CASE ReleaseOnce(t, e)
    <2>1. e.to \in Listeners
        BY <1>2, <1>6 DEF ReleaseOnce, Event, Listeners
    <2>2. subs' \in Seq(Listeners) /\ handle' \in [Listeners -> {"none", "held", "released"}]
        BY <1>6, <2>1, ReleaseType DEF ReleaseOnce
    <2>3. /\ hand' \in [Threads -> Seq(Event)]
          /\ pc' \in [Threads -> {"idle", "deliver", "pump", "join", "destroy"} \cup Listeners]
        BY <1>2, <1>6, HandType DEF ReleaseOnce
    <2>4. UNCHANGED <<calls, ran, early, overtaken>>
        BY <1>6 DEF ReleaseOnce
    <2> QED
        BY <1>3, <2>2, <2>3, <2>4 DEF TypeOK
<1>7. CASE CallDone(t, e)
    <2>1. e.to \in Requests /\ e.at \in Lost..MaxResults \cup {ShutDown}
        BY <1>2, <1>7 DEF CallDone, Event
    <2>2. /\ hand' \in [Threads -> Seq(Event)]
          /\ pc' \in [Threads -> {"idle", "deliver", "pump", "join", "destroy"} \cup Listeners]
        BY <1>2, <1>7, HandType DEF CallDone
    <2>3. Append(ran[e.to], e.at) \in Seq(Lost..MaxResults \cup {ShutDown})
        BY <2>1, AppendProperties DEF TypeOK
    <2>4. ran' \in [Requests -> Seq(Lost..MaxResults \cup {ShutDown})]
        BY <1>7, <2>1, <2>3 DEF CallDone, TypeOK
    <2>5. UNCHANGED <<subs, handle, calls, early, overtaken>>
        BY <1>7 DEF CallDone
    <2> QED
        BY <1>3, <2>2, <2>4, <2>5 DEF TypeOK
<1> QED
    BY <1>1, <1>4, <1>5, <1>6, <1>7 DEF Run

\* Cached result of a new subscriber.
LEMMA CachedType ==
    ASSUME TypeOK, NEW x \in Listeners
    PROVE  Cached(x) \in Seq(Event)
<1>1. CASE latest = NoResult
    BY <1>1, EmptySeq DEF Cached
<1>2. CASE latest # NoResult
    <2>1. latest \in 1..MaxResults
        BY <1>2, DeliveryAssumption DEF TypeOK, NoResult
    <2>2. PICK e \in Event : e = ResultEvent(x, latest, TRUE)
        BY <2>1 DEF ResultEvent, Event
    <2>3. <<e>> \in Seq(Event)
        OBVIOUS
    <2> QED
        BY <1>2, <2>2, <2>3 DEF Cached
<1> QED
    BY <1>1, <1>2

\* Every step keeps every variable well-typed.
LEMMA TypeStep ==
    ASSUME TypeOK, [Next]_vars
    PROVE  TypeOK'
<1>1. CASE Receive
    <2>1. PICK changed \in BOOLEAN, done \in SUBSET pending :
              LET n == IF changed THEN computed + 1 ELSE latest IN
              /\ changed => computed < MaxResults
              /\ latest' = n /\ computed' = IF changed THEN n ELSE computed
              /\ pending' = pending \ done
              /\ Collect("ws", EventsOf(changed, done, n))
              /\ UNCHANGED <<immediate, subs, queue, handle, connVars, phase, historyVars>>
        BY <1>1 DEF Receive
    <2>2. PICK n : n = IF changed THEN computed + 1 ELSE latest
        OBVIOUS
    <2>3. n \in 0..MaxResults /\ (changed => n # 0) /\ latest' \in {NoResult, computed'}
          /\ computed' \in 0..MaxResults
        BY <2>1, <2>2, DeliveryAssumption DEF TypeOK, NoResult, connVars
    <2>4. done \subseteq Requests /\ IsFiniteSet(done) /\ pending' \subseteq Requests
          /\ IsFiniteSet(pending')
        BY <2>1, FS_Subset DEF TypeOK
    <2>5. EventsOf(changed, done, n) \in Seq(Event)
        BY <2>3, <2>4, EventsAre DEF TypeOK
    <2>6. /\ hand' \in [Threads -> Seq(Event)]
          /\ pc' \in [Threads -> {"idle", "deliver", "pump", "join", "destroy"} \cup Listeners]
        BY <2>1, <2>2, <2>5, HandType DEF Threads
    <2> QED
        BY <2>1, <2>3, <2>4, <2>6 DEF TypeOK, historyVars, connVars
<1>2. ASSUME NEW t \in {"ws", "worker"}, Disconnect(t) PROVE TypeOK'
    <2>1. PICK lost \in SUBSET (pending \cap Actions) :
              /\ latest' = NoResult /\ pending' = pending \ lost /\ connection' = "garbage"
              /\ Collect(t, Completions(lost, Lost))
              /\ UNCHANGED <<immediate, computed, subs, queue, handle, blocked, phase, historyVars>>
        BY <1>2 DEF Disconnect, FailActions
    <2>2. pending' \subseteq Requests /\ IsFiniteSet(pending')
        BY <2>1, FS_Subset DEF TypeOK
    <2>3. /\ hand' \in [Threads -> Seq(Event)]
          /\ pc' \in [Threads -> {"idle", "deliver", "pump", "join", "destroy"} \cup Listeners]
        BY <2>1, LostType, HandType DEF Threads
    <2> QED
        BY <2>1, <2>2, <2>3 DEF TypeOK, historyVars, connVars
<1>3. CASE ProtocolError
    <2>1. PICK lost \in SUBSET (pending \cap Actions) :
              /\ latest' = NoResult /\ pending' = pending \ lost /\ connection' = "garbage"
              /\ IF immediate
                 THEN Collect("detached", Completions(lost, Lost)) /\ UNCHANGED queue
                 ELSE queue' = queue \o Completions(lost, Lost) /\ UNCHANGED <<hand, pc>>
              /\ UNCHANGED <<immediate, computed, subs, handle, blocked, phase, historyVars>>
        BY <1>3 DEF ProtocolError, FailActions
    <2>2. pending' \subseteq Requests /\ IsFiniteSet(pending')
        BY <2>1, FS_Subset DEF TypeOK
    <2>3. /\ hand' \in [Threads -> Seq(Event)] /\ queue' \in Seq(Event)
          /\ pc' \in [Threads -> {"idle", "deliver", "pump", "join", "destroy"} \cup Listeners]
        <3>1. CASE immediate
            BY <2>1, <3>1, LostType, HandType DEF Threads, TypeOK, connVars
        <3>2. CASE ~immediate
            <4>1. queue \o Completions(lost, Lost) \in Seq(Event)
                BY LostType, ConcatProperties DEF TypeOK
            <4> QED
                BY <2>1, <3>2, <4>1 DEF TypeOK
        <3> QED
            BY <3>1, <3>2
    <2> QED
        BY <2>1, <2>2, <2>3 DEF TypeOK, historyVars, connVars
<1>4. ASSUME NEW t \in Threads, NEW x \in Listeners, Subscribe(t, x) PROVE TypeOK'
    <2>1. Append(subs, x) \in Seq(Listeners)
        BY AppendProperties DEF TypeOK
    <2>2. Cached(x) \in Seq(Event)
        BY CachedType
    <2>3. /\ hand' \in [Threads -> Seq(Event)]
          /\ pc' \in [Threads -> {"idle", "deliver", "pump", "join", "destroy"} \cup Listeners]
        BY <1>4, <2>2 DEF Subscribe, TypeOK, connVars
    <2> QED
        BY <1>4, <2>1, <2>3 DEF Subscribe, TypeOK, connVars
<1>5. ASSUME NEW t \in Threads, NEW x \in Subscribers, Unsubscribe(t, x) PROVE TypeOK'
    <2>1. subs' \in Seq(Listeners) /\ handle' \in [Listeners -> {"none", "held", "released"}]
        BY <1>5, ReleaseType DEF Unsubscribe, Listeners
    <2> QED
        BY <1>5, <2>1 DEF Unsubscribe, TypeOK, eventVars, historyVars, connVars
<1>6. ASSUME NEW t \in Threads, NEW r \in Requests, Request(t, r) PROVE TypeOK'
    <2>1. IsFiniteSet(pending \cup {r})
        BY FS_AddElement DEF TypeOK
    <2> QED
        BY <1>6, <2>1 DEF Request, TypeOK, eventVars, connVars
<1>7. ASSUME NEW t \in Threads, Subscribed(t) PROVE TypeOK'
    <2>1. /\ pc' \in [Threads -> {"idle", "deliver", "pump", "join", "destroy"} \cup Listeners]
          /\ handle' \in [Listeners -> {"none", "held", "released"}]
        BY <1>7 DEF Subscribed, TypeOK, connVars
    <2> QED
        BY <1>7, <2>1 DEF Subscribed, TypeOK, historyVars, connVars
<1>8. ASSUME NEW t \in Threads, Enqueue(t) PROVE TypeOK'
    <2>1. queue \o hand[t] \in Seq(Event) /\ <<>> \in Seq(Event)
        BY ConcatProperties, EmptySeq DEF TypeOK
    <2>2. /\ hand' \in [Threads -> Seq(Event)] /\ queue' \in Seq(Event)
          /\ pc' \in [Threads -> {"idle", "deliver", "pump", "join", "destroy"} \cup Listeners]
        BY <1>8, <2>1 DEF Enqueue, TypeOK, connVars
    <2> QED
        BY <1>8, <2>2 DEF Enqueue, TypeOK, historyVars, connVars
<1>9. ASSUME NEW t \in Threads, Run(t) PROVE TypeOK'
    BY <1>9, RunType
<1>10. ASSUME NEW t \in Threads, NEW r \in Requests, RequestRefused(t, r) PROVE TypeOK'
    <2>1. Append(ran[r], ShutDown) \in Seq(Lost..MaxResults \cup {ShutDown})
        BY AppendProperties DEF TypeOK
    <2>2. ran' \in [Requests -> Seq(Lost..MaxResults \cup {ShutDown})]
        BY <1>10, <2>1 DEF RequestRefused, TypeOK, connVars
    <2> QED
        BY <1>10, <2>2 DEF RequestRefused, TypeOK, eventVars, connVars
<1>11. CASE Pump
    <2>1. <<>> \in Seq(Event)
        BY EmptySeq
    <2>2. /\ hand' \in [Threads -> Seq(Event)] /\ queue' \in Seq(Event)
          /\ pc' \in [Threads -> {"idle", "deliver", "pump", "join", "destroy"} \cup Listeners]
        BY <1>11, <2>1 DEF Pump, TypeOK, connVars
    <2> QED
        BY <1>11, <2>2 DEF Pump, TypeOK, historyVars, connVars
<1>12. CASE BeginShutdown
    <2>1. Completions(pending, ShutDown) \in Seq(Event) /\ <<>> \in Seq(Listeners)
        BY CompletionsAre, EmptySeq DEF TypeOK
    <2>2. /\ hand' \in [Threads -> Seq(Event)]
          /\ pc' \in [Threads -> {"idle", "deliver", "pump", "join", "destroy"} \cup Listeners]
        BY <1>12, <2>1 DEF BeginShutdown, TypeOK, connVars
    <2>3. /\ pending' = {} /\ subs' \in Seq(Listeners) /\ phase' \in {"hung", "joining"}
          /\ UNCHANGED <<immediate, latest, computed, queue, handle, connVars, historyVars>>
        BY <1>12, <2>1 DEF BeginShutdown, TypeOK, connVars
    <2> QED
        BY <2>2, <2>3, FS_EmptySet DEF TypeOK, historyVars, connVars
<1>13. CASE Drain
    <2>1. queue \o hand["main"] \in Seq(Event) /\ <<>> \in Seq(Event)
        BY ConcatProperties, EmptySeq DEF TypeOK, Threads, Program, connVars
    <2>2. /\ hand' \in [Threads -> Seq(Event)] /\ queue' \in Seq(Event)
          /\ pc' \in [Threads -> {"idle", "deliver", "pump", "join", "destroy"} \cup Listeners]
        BY <1>13, <2>1 DEF Drain, Remaining, TypeOK, connVars
    <2> QED
        BY <1>13, <2>2 DEF Drain, TypeOK, historyVars, connVars
<1>14. CASE Return
    BY <1>14 DEF Return, deliveryVars, TypeOK, eventVars, historyVars, connVars
<1>15. CASE UNCHANGED vars
    BY <1>15 DEF vars, TypeOK, eventVars, historyVars, connVars
<1>16. CASE Connection \/ Join
    <2>1. /\ connection' \in {"none", "open", "garbage", "collected"} /\ blocked' \in BOOLEAN
          /\ phase' \in {"alive", "hung", "joining", "sweeping", "draining", "returned"}
        BY <1>16 DEF Connection, Block, Connect, WorkerCollect, WorkerDestroy, Join, TypeOK
    <2> QED
        BY <1>16, <2>1, ConnectionSteps DEF TypeOK
<1> QED
    BY <1>1, <1>2, <1>3, <1>4, <1>5, <1>6, <1>7, <1>8, <1>9, <1>10, <1>11, <1>12, <1>13, <1>14,
       <1>15, <1>16
    DEF Next, Produce, Call, Deliver, Destroy, Threads

-----------------------------------------------------------------------------
(* What the threads are in.                                                *)

\* Names of the places a thread can be in are no listeners.
LEMMA Places ==
    /\ "idle" \notin Listeners /\ "deliver" \notin Listeners /\ "pump" \notin Listeners
    /\ "join" \notin Listeners /\ "destroy" \notin Listeners
    /\ Threads = {"user", "main", "ws", "worker", "detached"}
    /\ Threads \ Program = {"ws", "worker", "detached"}
BY DeliveryAssumption DEF Threads, Program

\* A callback that runs changes what its thread has in hand, and where it is
\* once that was the last.
LEMMA RunMoves ==
    ASSUME TypeOK, NEW t \in Threads, Run(t)
    PROVE  /\ \E rest \in Seq(Event) : GoOn(t, rest)
           /\ UNCHANGED <<immediate, latest, computed, pending, queue, connVars, phase, made>>
<1>1. PICK e : e = Head(hand[t])
    OBVIOUS
<1>2. Tail(hand[t]) \in Seq(Event) /\ e \in Event
    BY <1>1, HeadType DEF Run, Running
<1>3. CASE e.type = "result" /\ e.to \in OneShots
    <2>1. PICK r \in Event : r = [type |-> "release", to |-> e.to]
        BY <1>3 DEF Event
    <2>2. <<r>> \o Tail(hand[t]) \in Seq(Event)
        <3>1. <<r>> \in Seq(Event)
            OBVIOUS
        <3> QED
            BY <1>2, <3>1, ConcatProperties
    <2>3. GoOn(t, Tail(hand[t])) \/ GoOn(t, <<r>> \o Tail(hand[t]))
        BY <1>1, <1>3, <2>1 DEF Run, CallUpdate, CallOnce, ReleaseOnce, CallDone
    <2> QED
        BY <1>2, <2>2, <2>3 DEF Run
<1>4. CASE ~(e.type = "result" /\ e.to \in OneShots)
    BY <1>1, <1>2, <1>4 DEF Run, CallUpdate, CallOnce, ReleaseOnce, CallDone
<1> QED
    BY <1>3, <1>4

\* Every step keeps the threads in step with ~client.
LEMMA ThreadStep ==
    ASSUME TypeOK, ThreadInv, [Next]_vars
    PROVE  ThreadInv'
<1> USE DEF Idle, stopping
<1>0. /\ hand \in [Threads -> Seq(Event)]
      /\ pc \in [Threads -> {"idle", "deliver", "pump", "join", "destroy"} \cup Listeners]
      /\ phase \in {"alive", "hung", "joining", "sweeping", "draining", "returned"}
      /\ connection \in {"none", "open", "garbage", "collected"}
    BY DEF TypeOK
<1>1. CASE Receive
    <2>1. PICK events :
              /\ Idle("ws") /\ phase = "alive" /\ Collect("ws", events)
              /\ connection = "open"
              /\ UNCHANGED <<immediate, queue, connVars, phase>>
        BY <1>1 DEF Receive
    <2> QED
        BY <1>0, <2>1, Places DEF ThreadInv, Collect, connVars
<1>2. ASSUME NEW t \in {"ws", "worker"}, Disconnect(t) PROVE ThreadInv'
    <2>1. PICK events :
              /\ Idle(t) /\ phase = "alive" /\ Collect(t, events)
              /\ connection' = "garbage"
              /\ UNCHANGED <<immediate, queue, phase>>
        BY <1>2 DEF Disconnect, FailActions
    <2> QED
        BY <1>0, <1>2, <2>1, Places DEF ThreadInv, Collect, connVars
<1>3. CASE ProtocolError
    <2>1. PICK events :
              /\ phase = "alive" /\ connection' = "garbage"
              /\ IF immediate
                 THEN Collect("detached", events) /\ UNCHANGED queue
                 ELSE UNCHANGED <<hand, pc>>
              /\ UNCHANGED <<immediate, phase>>
        BY <1>3 DEF ProtocolError, FailActions
    <2> QED
        BY <1>0, <2>1, Places DEF ThreadInv, Collect, connVars
<1>4. ASSUME NEW t \in Program, NEW x \in Listeners, Subscribe(t, x) PROVE ThreadInv'
    BY <1>0, <1>4, Places DEF ThreadInv, Subscribe, Program, connVars
<1>5. ASSUME NEW t \in Program, NEW x \in Subscribers, Unsubscribe(t, x) PROVE ThreadInv'
    BY <1>5 DEF ThreadInv, Unsubscribe, eventVars, connVars
<1>6. ASSUME NEW t \in Program, NEW r \in Requests, Request(t, r) PROVE ThreadInv'
    BY <1>6 DEF ThreadInv, Request, eventVars, connVars
<1>7. ASSUME NEW t \in Program, Subscribed(t) PROVE ThreadInv'
    BY <1>0, <1>7, Places DEF ThreadInv, Subscribed, Program, connVars
<1>8. ASSUME NEW t \in Threads, Enqueue(t) PROVE ThreadInv'
    BY <1>0, <1>8, Places DEF ThreadInv, Enqueue, Program, connVars
<1>9. ASSUME NEW t \in Threads, Run(t) PROVE ThreadInv'
    <2>1. PICK rest : GoOn(t, rest) /\ UNCHANGED <<immediate, pending, queue, connVars, phase>>
        BY <1>9, RunMoves
    <2>2. hand[t] # <<>> /\ (immediate \/ pc[t] \in {"pump", "destroy"})
        BY <1>9 DEF Run, Running
    <2> QED
        BY <1>0, <2>1, <2>2, Places DEF ThreadInv, GoOn, Program, connVars
<1>10. ASSUME NEW t \in Threads, NEW r \in Requests, RequestRefused(t, r) PROVE ThreadInv'
    BY <1>10 DEF ThreadInv, RequestRefused, eventVars, connVars
<1>11. CASE Pump
    BY <1>0, <1>11, Places DEF ThreadInv, Pump, Program, connVars
<1>12. CASE BeginShutdown
    BY <1>0, <1>12, Places DEF ThreadInv, BeginShutdown, Program, connVars
<1>13. CASE Drain
    BY <1>0, <1>13, Places DEF ThreadInv, Drain, Joinable, Program, connVars
<1>14. CASE Return
    BY <1>0, <1>14, Places DEF ThreadInv, Return, deliveryVars, eventVars, connVars
<1>15. CASE UNCHANGED vars
    BY <1>15 DEF vars, ThreadInv, eventVars, connVars
<1>16. CASE Connection
    BY <1>0, <1>16, Places DEF ThreadInv, Connection, Block, Connect, WorkerCollect, WorkerDestroy,
        WorkerIdle, Joinable, deliveryVars, eventVars
<1>17. CASE Join
    BY <1>0, <1>17, Places DEF ThreadInv, Join, Joinable, deliveryVars, eventVars
<1> QED
    BY <1>1, <1>2, <1>3, <1>4, <1>5, <1>6, <1>7, <1>8, <1>9, <1>10, <1>11, <1>12, <1>13, <1>14,
       <1>15, <1>16, <1>17
    DEF Next, Produce, Call, Deliver, Destroy

-----------------------------------------------------------------------------
(* Where a request is.                                                     *)

\* A thread with nothing in hand takes over requests that wait.
LEMMA PartedCollect ==
    ASSUME NEW w, NEW q, NEW h, DOMAIN h = Threads, NEW d, NEW all, Parted(w, q, h, d, all),
           NEW t \in Threads, h[t] = {}, NEW done \in SUBSET w
    PROVE  /\ Parted(w \ done, q, [h EXCEPT ![t] = done], d, all)
           /\ Parted(w \ done, q \cup done, h, d, all)
<1>1. PICK g : g = [h EXCEPT ![t] = done]
    OBVIOUS
<1>2. g[t] = done /\ \A u \in Threads : u # t => g[u] = h[u]
    BY <1>1
<1>3. Parted(w \ done, q, g, d, all)
    BY <1>2 DEF Parted
<1>4. Parted(w \ done, q \cup done, h, d, all)
    BY DEF Parted
<1> QED
    BY <1>1, <1>3, <1>4

\* The requests in a hand are queued, or those queued are taken in a hand.
LEMMA PartedMove ==
    ASSUME NEW w, NEW q, NEW h, DOMAIN h = Threads, NEW d, NEW all, Parted(w, q, h, d, all),
           NEW t \in Threads
    PROVE  /\ Parted(w, q \cup h[t], [h EXCEPT ![t] = {}], d, all)
           /\ Parted(w, {}, [h EXCEPT ![t] = q \cup h[t]], d, all)
<1>1. PICK g, k : g = [h EXCEPT ![t] = {}] /\ k = [h EXCEPT ![t] = q \cup h[t]]
    OBVIOUS
<1>2. g[t] = {} /\ k[t] = q \cup h[t] /\ \A u \in Threads : u # t => g[u] = h[u] /\ k[u] = h[u]
    BY <1>1
<1>3. Parted(w, q \cup h[t], g, d, all)
    BY <1>2 DEF Parted
<1>4. Parted(w, {}, k, d, all)
    BY <1>2 DEF Parted
<1> QED
    BY <1>1, <1>3, <1>4

\* A request in a hand is done.
LEMMA PartedDone ==
    ASSUME NEW w, NEW q, NEW h, DOMAIN h = Threads, NEW d, NEW all, Parted(w, q, h, d, all),
           NEW t \in Threads, NEW r, NEW rest, r \notin rest, h[t] = rest \cup {r}
    PROVE  Parted(w, q, [h EXCEPT ![t] = rest], d \cup {r}, all) /\ r \notin d
<1>1. PICK g : g = [h EXCEPT ![t] = rest]
    OBVIOUS
<1>2. g[t] = rest /\ \A u \in Threads : u # t => g[u] = h[u]
    BY <1>1
<1>3. Parted(w, q, g, d \cup {r}, all)
    BY <1>2 DEF Parted
<1> QED
    BY <1>1, <1>3 DEF Parted

\* A request more waits, or is done at once.
LEMMA PartedMade ==
    ASSUME NEW w, NEW q, NEW h, NEW d, NEW all, Parted(w, q, h, d, all), NEW r, r \notin all
    PROVE  /\ Parted(w \cup {r}, q, h, d, all \cup {r})
           /\ Parted(w, q, h, d \cup {r}, all \cup {r})
BY DEF Parted

\* Every step keeps each request in one place.
LEMMA AnswerStep ==
    ASSUME TypeOK, TypeOK', ThreadInv, AnswerInv, [Next]_vars
    PROVE  AnswerInv'
<1> USE DEF Idle, stopping
<1>0. /\ hand \in [Threads -> Seq(Event)] /\ hand' \in [Threads -> Seq(Event)]
      /\ InHand \in [Threads -> SUBSET UNION {Told(hand[t]) : t \in Threads}]
      /\ DOMAIN InHand = Threads
      /\ \A t \in Threads : InHand[t] = Told(hand[t])
    BY DEF TypeOK, InHand
<1>a. ASSUME NEW t \in Threads, NEW events, hand' = [hand EXCEPT ![t] = events]
      PROVE  InHand' = [InHand EXCEPT ![t] = Told(events)]
    BY <1>0, <1>a DEF InHand
<1>b. ASSUME NEW t \in Threads, NEW events, hand' = [hand EXCEPT ![t] = events], Distinct(events)
      PROVE  \A u \in Threads : Distinct(hand[u])'
    BY <1>0, <1>b DEF AnswerInv
<1>c. Told(<<>>) = {} /\ Distinct(<<>>)
    BY ToEmpty DEF Told, Distinct
<1>e. ASSUME NEW t \in Threads, NEW events, hand' = [hand EXCEPT ![t] = events],
             Told(events) = InHand[t]
      PROVE  InHand' = InHand
    <2>1. \A u \in Threads : Told(hand'[u]) = InHand[u]
        BY <1>0, <1>e
    <2> QED
        BY <1>0, <2>1 DEF InHand
<1>f. ASSUME NEW r \in Requests, NEW at, at \in Lost..MaxResults \cup {ShutDown}, ran[r] = <<>>,
             ran' = [ran EXCEPT ![r] = Append(@, at)]
      PROVE  Answered' = Answered \cup {r} /\ \A x \in Requests : Len(ran'[x]) <= 1
    <2>1. PICK a : a = Append(<<>>, at)
        OBVIOUS
    <2>2. a # <<>> /\ Len(a) = 1
        BY <1>f, <2>1, AppendProperties, EmptySeq
    <2>3. ran'[r] = a /\ \A x \in Requests : x # r => ran'[x] = ran[x]
        BY <1>f, <2>1 DEF TypeOK
    <2>4. Answered' = Answered \cup {r}
        BY <2>2, <2>3 DEF Answered
    <2>5. \A x \in Requests : Len(ran'[x]) <= 1
        BY <2>2, <2>3 DEF AnswerInv
    <2> QED
        BY <2>4, <2>5
<1>d. Parted(pending, Told(queue), InHand, Answered, made \cap Requests)
    BY DEF AnswerInv
<1>1. CASE Receive
    <2>1. PICK changed \in BOOLEAN, done \in SUBSET pending :
              LET n == IF changed THEN computed + 1 ELSE latest IN
              /\ Idle("ws") /\ (changed => computed < MaxResults)
              /\ pending' = pending \ done
              /\ Collect("ws", EventsOf(changed, done, n))
              /\ UNCHANGED <<queue, historyVars>>
        BY <1>1 DEF Receive
    <2>2. PICK n : n = IF changed THEN computed + 1 ELSE latest
        OBVIOUS
    <2>3. n \in 0..MaxResults /\ (changed => n # 0)
        BY <2>1, <2>2, DeliveryAssumption DEF TypeOK, NoResult
    <2>4. done \subseteq Requests /\ IsFiniteSet(done)
        BY <2>1, FS_Subset DEF TypeOK
    <2>5. PICK events : events = EventsOf(changed, done, n)
        OBVIOUS
    <2>6. Told(events) = done /\ Distinct(events)
        BY <2>3, <2>4, <2>5, EventsAre DEF TypeOK
    <2>7. hand' = [hand EXCEPT !["ws"] = events]
        BY <2>1, <2>2, <2>5 DEF Collect
    <2>8. "ws" \in Threads /\ InHand["ws"] = {}
        BY <1>0, <1>c, <2>1, Places DEF ThreadInv
    <2>9. InHand' = [InHand EXCEPT !["ws"] = done]
        BY <1>a, <2>6, <2>7, <2>8
    <2>10. Parted(pending \ done, Told(queue), InHand', Answered, made \cap Requests)
        BY <1>0, <1>d, <2>8, <2>9, PartedCollect
    <2> QED
        BY <1>b, <2>1, <2>6, <2>7, <2>8, <2>10 DEF AnswerInv, historyVars, Answered
<1>2. ASSUME NEW t \in {"ws", "worker"}, Disconnect(t) PROVE AnswerInv'
    <2>1. PICK lost \in SUBSET (pending \cap Actions) :
              /\ Idle(t) /\ pending' = pending \ lost
              /\ Collect(t, Completions(lost, Lost))
              /\ UNCHANGED <<queue, historyVars>>
        BY <1>2 DEF Disconnect, FailActions
    <2>2. PICK events : events = Completions(lost, Lost)
        OBVIOUS
    <2>3. Told(events) = lost /\ Distinct(events)
        BY <2>2, LostType
    <2>4. hand' = [hand EXCEPT ![t] = events]
        BY <2>1, <2>2 DEF Collect
    <2>5. t \in Threads /\ InHand[t] = {}
        BY <1>0, <1>c, <1>2, <2>1, Places DEF ThreadInv
    <2>6. InHand' = [InHand EXCEPT ![t] = lost]
        BY <1>a, <2>3, <2>4, <2>5
    <2>7. Parted(pending \ lost, Told(queue), InHand', Answered, made \cap Requests)
        BY <1>0, <1>d, <2>5, <2>6, PartedCollect
    <2> QED
        BY <1>b, <2>1, <2>3, <2>4, <2>5, <2>7 DEF AnswerInv, historyVars, Answered
<1>3. CASE ProtocolError
    <2>1. PICK lost \in SUBSET (pending \cap Actions) :
              /\ Idle("ws") /\ pending' = pending \ lost
              /\ IF immediate
                 THEN /\ Idle("detached") /\ Collect("detached", Completions(lost, Lost))
                      /\ UNCHANGED queue
                 ELSE queue' = queue \o Completions(lost, Lost) /\ UNCHANGED <<hand, pc>>
              /\ UNCHANGED historyVars
        BY <1>3 DEF ProtocolError, FailActions
    <2>2. PICK events : events = Completions(lost, Lost)
        OBVIOUS
    <2>3. events \in Seq(Event) /\ Told(events) = lost /\ Distinct(events)
        BY <2>2, LostType
    <2>4. CASE immediate
        <3>1. hand' = [hand EXCEPT !["detached"] = events]
            BY <2>1, <2>2, <2>4 DEF Collect
        <3>2. "detached" \in Threads /\ InHand["detached"] = {}
            BY <1>0, <1>c, <2>1, <2>4, Places DEF ThreadInv
        <3>3. InHand' = [InHand EXCEPT !["detached"] = lost]
            BY <1>a, <2>3, <3>1, <3>2
        <3>4. Parted(pending \ lost, Told(queue), InHand', Answered, made \cap Requests)
            BY <1>0, <1>d, <3>2, <3>3, PartedCollect
        <3> QED
            BY <1>b, <2>1, <2>3, <2>4, <3>1, <3>2, <3>4 DEF AnswerInv, historyVars, Answered
    <2>5. CASE ~immediate
        <3>1. queue' = queue \o events /\ hand' = hand
            BY <2>1, <2>2, <2>5
        <3>2. Told(queue') = Told(queue) \cup lost
            BY <2>3, <3>1, ToConcat DEF TypeOK, Told
        <3>3. "ws" \in Threads /\ InHand["ws"] = {}
            BY <1>0, <1>c, <2>1, Places DEF ThreadInv
        <3>4. Parted(pending \ lost, Told(queue) \cup lost, InHand, Answered, made \cap Requests)
            BY <1>0, <1>d, <3>3, PartedCollect
        <3>5. Told(queue) \cap lost = {}
            BY <1>d DEF Parted
        <3>6. Distinct(queue')
            BY <2>3, <3>1, <3>5, DistinctConcat DEF TypeOK, AnswerInv
        <3>7. InHand' = InHand
            BY <3>1 DEF InHand
        <3> QED
            BY <2>1, <3>1, <3>2, <3>4, <3>6, <3>7 DEF AnswerInv, historyVars, Answered
    <2> QED
        BY <2>4, <2>5
<1>4. ASSUME NEW t \in Program, NEW x \in Listeners, Subscribe(t, x) PROVE AnswerInv'
    <2>1. PICK c : c = Cached(x)
        OBVIOUS
    <2>2. Told(c) = {} /\ Distinct(c)
        <3>1. \A i \in DOMAIN c : c[i].type = "result"
            BY <2>1 DEF Cached, ResultEvent
        <3> QED
            BY <3>1 DEF Told, To, Distinct
    <2>3. hand' = [hand EXCEPT ![t] = c]
        BY <1>4, <2>1 DEF Subscribe
    <2>4. t \in Threads /\ InHand[t] = {}
        BY <1>0, <1>c, <1>4 DEF ThreadInv, Subscribe, Threads
    <2>5. InHand' = InHand
        BY <1>e, <2>2, <2>3, <2>4
    <2>6. made' \cap Requests = made \cap Requests
        BY <1>4, DeliveryAssumption DEF Subscribe
    <2> QED
        BY <1>4, <1>b, <2>2, <2>3, <2>4, <2>5, <2>6 DEF AnswerInv, Subscribe, Answered
<1>5. ASSUME NEW t \in Program, NEW x \in Subscribers, Unsubscribe(t, x) PROVE AnswerInv'
    BY <1>5 DEF AnswerInv, Unsubscribe, eventVars, historyVars, InHand, Answered
<1>6. ASSUME NEW t \in Program, NEW r \in Requests, Request(t, r) PROVE AnswerInv'
    <2>1. made' \cap Requests = (made \cap Requests) \cup {r} /\ r \notin made \cap Requests
        BY <1>6 DEF Request
    <2>2. Parted(pending \cup {r}, Told(queue), InHand, Answered, (made \cap Requests) \cup {r})
        BY <1>d, <2>1, PartedMade
    <2> QED
        BY <1>6, <2>1, <2>2 DEF AnswerInv, Request, eventVars, InHand, Answered
<1>7. ASSUME NEW t \in Program, Subscribed(t) PROVE AnswerInv'
    BY <1>7 DEF AnswerInv, Subscribed, historyVars, InHand, Answered
<1>8. ASSUME NEW t \in Threads, Enqueue(t) PROVE AnswerInv'
    <2>1. /\ queue' = queue \o hand[t] /\ hand' = [hand EXCEPT ![t] = <<>>]
          /\ UNCHANGED <<pending, historyVars>>
        BY <1>8 DEF Enqueue
    <2>2. Told(queue') = Told(queue) \cup InHand[t]
        BY <1>0, <2>1, ToConcat DEF TypeOK, Told
    <2>3. Told(queue) \cap Told(hand[t]) = {}
        BY <1>0, <1>d DEF Parted
    <2>4. Distinct(queue')
        BY <2>1, <2>3, DistinctConcat DEF TypeOK, AnswerInv
    <2>5. InHand' = [InHand EXCEPT ![t] = {}]
        BY <1>a, <1>c, <2>1
    <2>6. Parted(pending, Told(queue) \cup InHand[t], [InHand EXCEPT ![t] = {}], Answered,
                 made \cap Requests)
        BY <1>0, <1>d, PartedMove
    <2>7. Parted(pending, Told(queue'), InHand', Answered, made \cap Requests)
        BY <2>2, <2>5, <2>6
    <2> QED
        BY <1>b, <1>c, <2>1, <2>4, <2>7 DEF AnswerInv, historyVars, Answered
<1>9. ASSUME NEW t \in Threads, Run(t) PROVE AnswerInv'
    <2>1. PICK e : e = Head(hand[t])
        OBVIOUS
    <2>2. /\ hand[t] # <<>> /\ hand[t] \in Seq(Event)
          /\ e \in Event /\ Tail(hand[t]) \in Seq(Event)
        BY <1>9, <2>1, HeadType DEF Run, Running
    <2>3. UNCHANGED <<pending, queue, made>>
        BY <1>9 DEF Run
    <2>4. CASE e.type # "completion"
        <3>1. UNCHANGED ran
            BY <1>9, <2>1, <2>4 DEF Run, CallUpdate, CallOnce, ReleaseOnce, CallDone
        <3>2. PICK rest : /\ hand' = [hand EXCEPT ![t] = rest]
                          /\ \/ rest = Tail(hand[t])
                             \/ rest = <<[type |-> "release", to |-> e.to]>> \o Tail(hand[t])
            BY <1>9, <2>1, <2>4 DEF Run, CallUpdate, CallOnce, ReleaseOnce, CallDone, GoOn
        <3>3. Told(Tail(hand[t])) = Told(hand[t]) /\ Distinct(Tail(hand[t]))
            BY <2>1, <2>2, <2>4, ToTail, DistinctTail DEF AnswerInv, Told
        <3>4. Told(rest) = Told(hand[t]) /\ Distinct(rest)
            <4>1. CASE rest = Tail(hand[t])
                BY <3>3, <4>1
            <4>2. CASE rest = <<[type |-> "release", to |-> e.to]>> \o Tail(hand[t])
                <5>1. PICK r : r = [type |-> "release", to |-> e.to]
                    OBVIOUS
                <5>2. Told(<<r>>) = {} /\ Distinct(<<r>>)
                    BY <5>1 DEF Told, To, Distinct
                <5>3. PICK S : S = Event \cup {r}
                    OBVIOUS
                <5>4. <<r>> \in Seq(S) /\ Tail(hand[t]) \in Seq(S)
                    BY <2>2, <5>3, SeqMonotonic
                <5>5. Told(rest) = Told(<<r>>) \cup Told(Tail(hand[t]))
                    <6>1. PICK a \in Seq(S), b \in Seq(S) : a = <<r>> /\ b = Tail(hand[t])
                        BY <5>4
                    <6>2. To(a \o b, "completion") = To(a, "completion") \cup To(b, "completion")
                        BY ToConcat
                    <6> QED
                        BY <4>2, <5>1, <6>1, <6>2 DEF Told
                <5>6. Distinct(rest)
                    BY <3>3, <4>2, <5>1, <5>2, <5>4, DistinctConcat
                <5> QED
                    BY <3>3, <5>2, <5>5, <5>6
            <4> QED
                BY <3>2, <4>1, <4>2
        <3>5. InHand' = InHand
            BY <1>0, <1>e, <3>2, <3>4
        <3> QED
            BY <1>b, <2>3, <3>1, <3>2, <3>4, <3>5 DEF AnswerInv, Answered
    <2>5. CASE e.type = "completion"
        <3>1. ran' = [ran EXCEPT ![e.to] = Append(@, e.at)] /\ hand' = [hand EXCEPT ![t] = Tail(hand[t])]
            BY <1>9, <2>1, <2>5 DEF Run, CallUpdate, CallOnce, ReleaseOnce, CallDone, GoOn
        <3>2. /\ Told(hand[t]) = Told(Tail(hand[t])) \cup {e.to} /\ Distinct(Tail(hand[t]))
              /\ e.to \notin Told(Tail(hand[t]))
            BY <2>1, <2>2, <2>5, ToTail, DistinctTail DEF AnswerInv, Told
        <3>3. InHand' = [InHand EXCEPT ![t] = Told(Tail(hand[t]))]
            BY <1>a, <3>1
        <3>4. PICK rest : rest = Told(Tail(hand[t]))
            OBVIOUS
        <3>5. /\ Parted(pending, Told(queue), [InHand EXCEPT ![t] = rest], Answered \cup {e.to},
                        made \cap Requests)
              /\ e.to \notin Answered
            <4>1. InHand[t] = rest \cup {e.to} /\ e.to \notin rest
                BY <1>0, <3>2, <3>4
            <4>2. PICK h, q, r : h = InHand /\ q = Told(queue) /\ r = e.to
                OBVIOUS
            <4>3. /\ DOMAIN h = Threads /\ Parted(pending, q, h, Answered, made \cap Requests)
                  /\ h[t] = rest \cup {r} /\ r \notin rest
                BY <1>0, <1>d, <4>1, <4>2
            <4>4. /\ Parted(pending, q, [h EXCEPT ![t] = rest], Answered \cup {r}, made \cap Requests)
                  /\ r \notin Answered
                BY <4>3, PartedDone
            <4> QED
                BY <4>2, <4>4
        <3>6. Parted(pending, Told(queue), InHand', Answered \cup {e.to}, made \cap Requests)
            BY <3>3, <3>4, <3>5
        <3>7. e.to \in Requests /\ e.at \in Lost..MaxResults \cup {ShutDown}
            BY <2>2, <2>5 DEF Event
        <3>8. ran[e.to] = <<>>
            BY <3>5, <3>7 DEF Answered
        <3>9. Answered' = Answered \cup {e.to} /\ \A r \in Requests : Len(ran'[r]) <= 1
            BY <1>f, <3>1, <3>7, <3>8
        <3> QED
            BY <1>b, <2>3, <3>1, <3>2, <3>6, <3>9 DEF AnswerInv
    <2> QED
        BY <2>4, <2>5
<1>10. ASSUME NEW t \in Threads, NEW r \in Requests, RequestRefused(t, r) PROVE AnswerInv'
    <2>1. /\ made' \cap Requests = (made \cap Requests) \cup {r} /\ r \notin made \cap Requests
          /\ ran' = [ran EXCEPT ![r] = Append(@, ShutDown)]
          /\ UNCHANGED <<pending, queue, hand>>
        BY <1>10 DEF RequestRefused, eventVars
    <2>2. r \notin Answered
        BY <1>d, <2>1 DEF Parted
    <2>3. ran[r] = <<>>
        BY <2>2 DEF Answered
    <2>4. Answered' = Answered \cup {r} /\ \A x \in Requests : Len(ran'[x]) <= 1
        BY <1>f, <2>1, <2>3
    <2>6. Parted(pending, Told(queue), InHand, Answered \cup {r}, (made \cap Requests) \cup {r})
        BY <1>d, <2>1, PartedMade
    <2>7. InHand' = InHand
        BY <2>1 DEF InHand
    <2> QED
        BY <2>1, <2>4, <2>6, <2>7 DEF AnswerInv
<1>11. CASE Pump
    <2>1. /\ hand' = [hand EXCEPT !["main"] = queue] /\ queue' = <<>>
          /\ Idle("main") /\ UNCHANGED <<pending, historyVars>>
        BY <1>11 DEF Pump
    <2>2. "main" \in Threads /\ InHand["main"] = {}
        BY <1>0, <1>c, <2>1, Places DEF ThreadInv
    <2>3. InHand' = [InHand EXCEPT !["main"] = Told(queue) \cup InHand["main"]]
        <3>1. Told(queue) \cup InHand["main"] = Told(queue)
            BY <2>2
        <3> QED
            BY <1>a, <2>1, <2>2, <3>1
    <2>4. Parted(pending, {}, InHand', Answered, made \cap Requests)
        BY <1>0, <1>d, <2>2, <2>3, PartedMove
    <2>5. Distinct(queue)
        BY DEF AnswerInv
    <2> QED
        BY <1>b, <1>c, <2>1, <2>2, <2>4, <2>5 DEF AnswerInv, historyVars, Answered
<1>12. CASE BeginShutdown
    <2>1. /\ hand' = [hand EXCEPT !["main"] = Completions(pending, ShutDown)] /\ pending' = {}
          /\ Idle("main") /\ UNCHANGED <<queue, historyVars>>
        BY <1>12 DEF BeginShutdown, Program
    <2>2. "main" \in Threads /\ InHand["main"] = {}
        BY <1>0, <1>c, <2>1, Places DEF ThreadInv
    <2>3. PICK events : events = Completions(pending, ShutDown)
        OBVIOUS
    <2>4. Told(events) = pending /\ Distinct(events)
        BY <2>3, CompletionsAre DEF TypeOK
    <2>5. InHand' = [InHand EXCEPT !["main"] = pending]
        BY <1>a, <2>1, <2>2, <2>3, <2>4
    <2>6. Parted(pending \ pending, Told(queue), InHand', Answered, made \cap Requests)
        BY <1>0, <1>d, <2>2, <2>5, PartedCollect
    <2>7. pending \ pending = {}
        OBVIOUS
    <2> QED
        BY <1>b, <2>1, <2>2, <2>3, <2>4, <2>6, <2>7 DEF AnswerInv, historyVars, Answered
<1>13. CASE Drain
    <2>1. /\ hand' = [hand EXCEPT !["main"] = queue \o hand["main"]] /\ queue' = <<>>
          /\ UNCHANGED <<pending, historyVars>>
        BY <1>13 DEF Drain, Remaining
    <2>2. "main" \in Threads
        BY Places
    <2>3. Told(queue \o hand["main"]) = Told(queue) \cup InHand["main"]
        BY <1>0, <2>2, ToConcat DEF TypeOK, Told
    <2>4. Told(queue) \cap Told(hand["main"]) = {}
        BY <1>0, <1>d, <2>2 DEF Parted
    <2>5. Distinct(queue \o hand["main"])
        BY <2>2, <2>4, DistinctConcat DEF TypeOK, AnswerInv
    <2>6. InHand' = [InHand EXCEPT !["main"] = Told(queue) \cup InHand["main"]]
        BY <1>a, <2>1, <2>2, <2>3
    <2>7. Parted(pending, {}, InHand', Answered, made \cap Requests)
        BY <1>0, <1>d, <2>2, <2>6, PartedMove
    <2> QED
        BY <1>b, <1>c, <2>1, <2>2, <2>5, <2>7 DEF AnswerInv, historyVars, Answered
<1>14. CASE Return
    BY <1>14 DEF Return, deliveryVars, AnswerInv, eventVars, historyVars, InHand, Answered
<1>15. CASE UNCHANGED vars
    BY <1>15 DEF vars, AnswerInv, eventVars, historyVars, InHand, Answered
<1>16. CASE Connection \/ Join
    BY <1>16, ConnectionSteps DEF AnswerInv, InHand, Answered
<1> QED
    BY <1>1, <1>2, <1>3, <1>4, <1>5, <1>6, <1>7, <1>8, <1>9, <1>10, <1>11, <1>12, <1>13, <1>14,
       <1>15, <1>16
    DEF Next, Produce, Call, Deliver, Destroy

DeliveryInv == TypeOK /\ ThreadInv /\ AnswerInv

\* The inductive invariant holds throughout.
LEMMA DeliveryInvariant == Spec => []DeliveryInv
<1>1. Init => DeliveryInv
    <2> SUFFICES ASSUME Init PROVE DeliveryInv
        OBVIOUS
    <2>1. /\ <<>> \in Seq(Event) /\ <<>> \in Seq(Listeners) /\ <<>> \in Seq(1..MaxResults)
          /\ <<>> \in Seq(Lost..MaxResults \cup {ShutDown})
        BY EmptySeq
    <2>2. TypeOK
        <3>1. blocked \in BOOLEAN /\ immediate \in BOOLEAN
            BY DEF Init
        <3> QED
            BY <2>1, <3>1, DeliveryAssumption, FS_EmptySet DEF Init, TypeOK, NoResult
    <2>3. ThreadInv
        BY Places DEF Init, ThreadInv, Idle, stopping
    <2>4. Told(<<>>) = {} /\ Distinct(<<>>)
        BY ToEmpty DEF Told, Distinct
    <2>5. Answered = {} /\ \A t \in Threads : InHand[t] = {}
        BY <2>4 DEF Init, Answered, InHand
    <2>6. \A r \in Requests : Len(ran[r]) <= 1
        BY EmptySeq DEF Init
    <2>7. Parted(pending, Told(queue), InHand, Answered, made \cap Requests)
        BY <2>4, <2>5 DEF Init, Parted
    <2>8. Distinct(queue) /\ \A t \in Threads : Distinct(hand[t])
        BY <2>4 DEF Init
    <2> QED
        BY <2>2, <2>3, <2>6, <2>7, <2>8 DEF DeliveryInv, AnswerInv
<1>2. DeliveryInv /\ [Next]_vars => DeliveryInv'
    BY TypeStep, ThreadStep, AnswerStep DEF DeliveryInv
<1> QED
    BY <1>1, <1>2, PTL DEF Spec

\* A request is answered once, and none is left without an answer when ~client
\* has returned, except in the hands of the thread nobody waits for.
THEOREM AnsweredAlways == Spec => []AnsweredOnce
<1>1. DeliveryInv => AnsweredOnce
    <2> SUFFICES ASSUME DeliveryInv, NEW r \in Requests, phase = "returned", r \in made
                 PROVE  ran[r] # <<>> \/ Addressed(r, hand["detached"])
        BY DEF DeliveryInv, AnswerInv, AnsweredOnce
    <2>1. /\ queue = <<>> /\ pending = {} /\ hand["ws"] = <<>> /\ hand["worker"] = <<>>
          /\ hand["main"] = <<>> /\ hand["user"] = <<>>
        BY Places DEF DeliveryInv, ThreadInv, stopping, Idle
    <2>2. Told(<<>>) = {}
        BY ToEmpty DEF Told
    <2>3. r \in Answered \/ \E t \in Threads : r \in InHand[t]
        BY <2>1, <2>2 DEF DeliveryInv, AnswerInv, Parted
    <2>4. ASSUME NEW t \in Threads, r \in InHand[t] PROVE t = "detached"
        <3>1. hand[t] # <<>>
            BY <2>2, <2>4 DEF InHand
        <3> QED
            BY <2>1, <3>1, Places
    <2>5. ASSUME r \in InHand["detached"] PROVE Addressed(r, hand["detached"])
        <3>1. r \in To(hand["detached"], "completion")
            BY <2>5, Places DEF InHand, Told
        <3> QED
            BY <3>1, ToMember DEF Addressed
    <2> QED
        BY <2>3, <2>4, <2>5 DEF Answered
<1> QED
    BY <1>1, DeliveryInvariant, PTL

-----------------------------------------------------------------------------
(* Subscriptions and one-shot queries.                                     *)

\* A sequence without its element i.
Cut(s, i) == SubSeq(s, 1, i - 1) \o SubSeq(s, i + 1, Len(s))

\* The positions that a cut leaves.
LEMMA CutAt ==
    ASSUME NEW S, NEW s \in Seq(S), NEW i \in DOMAIN s, NEW w, w = Cut(s, i)
    PROVE  /\ Len(s) \in Nat \ {0} /\ DOMAIN s = 1..Len(s) /\ DOMAIN w = 1..(Len(s) - 1)
           /\ \A j \in DOMAIN w : w[j] = IF j < i THEN s[j] ELSE s[j + 1]
<1>1. Len(s) \in Nat /\ DOMAIN s = 1..Len(s) /\ \A j \in 1..Len(s) : s[j] \in S
    BY LenProperties, ElementOfSeq
<1> PICK n \in Nat : n = Len(s)
    BY <1>1
<1>2. i \in 1..n
    BY <1>1
<1>3. PICK a : a = SubSeq(s, 1, i - 1)
    OBVIOUS
<1>4. PICK b : b = SubSeq(s, i + 1, n)
    OBVIOUS
<1>5. /\ a \in Seq(S) /\ Len(a) = i - 1
      /\ \A j \in 1..(i - 1) : a[j] = s[j]
    <2>1. 1 \in Int /\ i - 1 \in Int /\ (\A j \in 1..(i - 1) : j \in 1..n)
        BY <1>2
    <2>2. \A j \in 1..(i - 1) : s[j] \in S
        BY <1>1, <2>1
    <2>3. /\ a \in Seq(S)
          /\ Len(a) = IF 1 <= i - 1 THEN (i - 1) - 1 + 1 ELSE 0
          /\ \A j \in 1..((i - 1) - 1 + 1) : a[j] = s[1 + j - 1]
        BY <1>3, <2>1, <2>2, SubSeqProperties
    <2> QED
        BY <1>2, <2>3
<1>6. /\ b \in Seq(S) /\ Len(b) = n - i
      /\ \A j \in 1..(n - i) : b[j] = s[i + j]
    <2>1. i + 1 \in Int /\ n \in Int /\ (\A j \in (i + 1)..n : j \in 1..n)
        BY <1>2
    <2>2. \A j \in (i + 1)..n : s[j] \in S
        BY <1>1, <2>1
    <2>3. /\ b \in Seq(S)
          /\ Len(b) = IF i + 1 <= n THEN n - (i + 1) + 1 ELSE 0
          /\ \A j \in 1..(n - (i + 1) + 1) : b[j] = s[(i + 1) + j - 1]
        BY <1>4, <2>1, <2>2, SubSeqProperties
    <2>4. n - (i + 1) + 1 = n - i /\ \A j \in 1..(n - i) : (i + 1) + j - 1 = i + j
        BY <1>2
    <2>5. Len(b) = n - i
        BY <1>2, <2>3
    <2> QED
        BY <2>3, <2>4, <2>5
<1>7. w = a \o b
    BY <1>3, <1>4 DEF Cut
<1>8. /\ w \in Seq(S) /\ Len(w) = Len(a) + Len(b)
      /\ \A j \in 1..(Len(a) + Len(b)) : w[j] = IF j <= Len(a) THEN a[j] ELSE b[j - Len(a)]
    <2>1. a \in Seq(S) /\ b \in Seq(S)
        BY <1>5, <1>6
    <2> QED
        BY <1>7, <2>1, ConcatProperties
<1>9. DOMAIN w = 1..(n - 1)
    BY <1>2, <1>5, <1>6, <1>8, LenProperties
<1>10. ASSUME NEW j \in 1..(n - 1) PROVE w[j] = IF j < i THEN s[j] ELSE s[j + 1]
    <2>1. w[j] = IF j <= i - 1 THEN a[j] ELSE b[j - (i - 1)]
        BY <1>2, <1>5, <1>6, <1>8
    <2>2. CASE j < i
        <3>1. j <= i - 1 /\ j \in 1..(i - 1)
            BY <1>2, <2>2
        <3> QED
            BY <1>5, <2>1, <2>2, <3>1
    <2>3. CASE ~(j < i)
        <3>1. ~(j <= i - 1) /\ j - (i - 1) \in 1..(n - i) /\ i + (j - (i - 1)) = j + 1
            BY <1>2, <2>3
        <3> QED
            BY <1>6, <2>1, <2>3, <3>1
    <2> QED
        BY <2>2, <2>3
<1> QED
    BY <1>1, <1>2, <1>9, <1>10

\* Elements of a list are at one position.
OnePlace(s) == \A i, j \in DOMAIN s : s[i] = s[j] => i = j

\* Removing an entry of subs removes it alone.
LEMMA WithoutOne ==
    ASSUME subs \in Seq(Listeners), OnePlace(subs), NEW x
    PROVE  OnePlace(Without(x)) /\ Range(Without(x)) = Range(subs) \ {x}
<1>1. CASE x \notin Range(subs)
    BY <1>1 DEF Without
<1>2. CASE x \in Range(subs)
    <2>1. PICK i \in DOMAIN subs : i = CHOOSE j \in DOMAIN subs : subs[j] = x
        BY <1>2 DEF Range
    <2>2. subs[i] = x
        BY <1>2, <2>1 DEF Range
    <2>3. PICK w : w = Without(x)
        OBVIOUS
    <2>4. w = Cut(subs, i)
        BY <1>2, <2>1, <2>3 DEF Without, RemoveAt, Cut
    <2>5. PICK n \in Nat \ {0} : n = Len(subs) /\ DOMAIN subs = 1..n /\ DOMAIN w = 1..(n - 1)
        BY <2>4, CutAt
    <2>6. \A j \in DOMAIN w : w[j] = IF j < i THEN subs[j] ELSE subs[j + 1]
        BY <2>4, CutAt
    <2>7. ASSUME NEW j \in DOMAIN w
          PROVE  \E k \in DOMAIN subs : k # i /\ w[j] = subs[k] /\ k = IF j < i THEN j ELSE j + 1
        <3>1. (IF j < i THEN j ELSE j + 1) \in 1..n /\ (IF j < i THEN j ELSE j + 1) # i
            BY <2>5
        <3> QED
            BY <2>5, <2>6, <3>1
    <2>8. ASSUME NEW k \in DOMAIN subs, k # i PROVE \E j \in DOMAIN w : w[j] = subs[k]
        <3>1. CASE k < i
            <4>1. k \in 1..(n - 1)
                BY <2>5, <3>1
            <4> QED
                BY <2>5, <2>6, <3>1, <4>1
        <3>2. CASE k > i
            <4>1. k - 1 \in 1..(n - 1) /\ ~(k - 1 < i) /\ (k - 1) + 1 = k
                BY <2>5, <3>2
            <4> QED
                BY <2>5, <2>6, <4>1
        <3> QED
            BY <2>5, <2>8, <3>1, <3>2
    <2>9. OnePlace(w)
        <3> SUFFICES ASSUME NEW j \in DOMAIN w, NEW k \in DOMAIN w, w[j] = w[k] PROVE j = k
            BY DEF OnePlace
        <3>1. PICK a \in DOMAIN subs : w[j] = subs[a] /\ a = IF j < i THEN j ELSE j + 1
            BY <2>7
        <3>2. PICK b \in DOMAIN subs : w[k] = subs[b] /\ b = IF k < i THEN k ELSE k + 1
            BY <2>7
        <3>3. a = b
            BY <3>1, <3>2 DEF OnePlace
        <3> QED
            BY <2>5, <3>1, <3>2, <3>3
    <2>10. \A k \in DOMAIN subs : subs[k] = x => k = i
        BY <2>2 DEF OnePlace
    <2>11. Range(w) = Range(subs) \ {x}
        BY <2>2, <2>7, <2>8, <2>10 DEF Range
    <2> QED
        BY <2>3, <2>9, <2>11
<1> QED
    BY <1>1, <1>2

\* Whom the queue and all threads but t have events for.
Rest(t, type) == UNION {To(hand[u], type) : u \in Threads \ {t}}

\* The events of one thread among all of them.
LEMMA SentBy ==
    ASSUME TypeOK, NEW t \in Threads, NEW s, hand' = [hand EXCEPT ![t] = s], NEW type
    PROVE  /\ Sent(type) = To(queue, type) \cup Rest(t, type) \cup To(hand[t], type)
           /\ Sent(type)' = To(queue', type) \cup Rest(t, type) \cup To(s, type)
<1>1. \A u \in Threads : hand'[u] = IF u = t THEN s ELSE hand[u]
    BY DEF TypeOK
<1>2. UNION {To(hand[u], type) : u \in Threads} = Rest(t, type) \cup To(hand[t], type)
    BY DEF Rest
<1>3. UNION {To(hand'[u], type) : u \in Threads} = Rest(t, type) \cup To(s, type)
    BY <1>1 DEF Rest
<1> QED
    BY <1>2, <1>3 DEF Sent

\* No completion is for a listener.
LEMMA OnItsWayIs ==
    ASSUME TypeOK, NEW x \in Listeners
    PROVE  OnItsWay(x) <=> x \in Expecting
<1>1. ASSUME NEW s \in Seq(Event)
      PROVE  Addressed(x, s) <=> x \in To(s, "result") \cup To(s, "release")
    <2>1. ASSUME NEW i \in DOMAIN s, s[i].to = x PROVE s[i].type \in {"result", "release"}
        <3>1. s[i] \in Event
            BY ElementOfSeq, LenProperties
        <3> QED
            BY <2>1, <3>1, DeliveryAssumption DEF Event
    <2> QED
        BY <2>1 DEF Addressed, To
<1>2. queue \in Seq(Event) /\ \A t \in Threads : hand[t] \in Seq(Event)
    BY DEF TypeOK
<1>3. Addressed(x, queue) <=> x \in To(queue, "result") \cup To(queue, "release")
    <2>1. PICK q \in Seq(Event) : q = queue
        BY <1>2
    <2> QED
        BY <1>1, <2>1
<1>4. ASSUME NEW t \in Threads
      PROVE  Addressed(x, hand[t]) <=> x \in To(hand[t], "result") \cup To(hand[t], "release")
    <2>1. PICK h \in Seq(Event) : h = hand[t]
        BY <1>2
    <2> QED
        BY <1>1, <2>1
<1> QED
    BY <1>3, <1>4 DEF OnItsWay, Expecting, Sent

\* Completions are for no listener.
LEMMA CompletionsSent ==
    ASSUME NEW done, IsFiniteSet(done), done \subseteq Requests,
           NEW n \in Lost..MaxResults \cup {ShutDown}, NEW type, type # "completion"
    PROVE  To(Completions(done, n), type) = {}
<1>1. PICK c : c = Completions(done, n)
    OBVIOUS
<1>2. \A i \in DOMAIN c : c[i].type = "completion"
    BY <1>1, CompletionsAre
<1> QED
    BY <1>1, <1>2 DEF To

\* The events of a message are for the listeners in subs.
LEMMA EventsSent ==
    ASSUME NEW changed \in BOOLEAN, NEW done, IsFiniteSet(done), done \subseteq Requests,
           subs \in Seq(Listeners), NEW n \in 0..MaxResults, changed => n # 0
    PROVE  To(EventsOf(changed, done, n), "result") \subseteq Range(subs)
<1>1. PICK w : w = IF changed THEN Results(n) ELSE <<>>
    OBVIOUS
<1>2. PICK u : u = Completions(done, n)
    OBVIOUS
<1>3. n \in Lost..MaxResults \cup {ShutDown} /\ (changed => n \in 1..MaxResults)
    BY DeliveryAssumption DEF Lost
<1>4. u \in Seq(Event) /\ To(u, "result") = {}
    BY <1>2, <1>3, CompletionsAre, CompletionsSent
<1>5. w \in Seq(Event) /\ To(w, "result") \subseteq Range(subs)
    <2>1. CASE changed
        <3>1. w \in Seq(Event) /\ DOMAIN w = DOMAIN subs
              /\ \A i \in DOMAIN w : w[i] = ResultEvent(subs[i], n, FALSE)
            BY <1>1, <1>3, <2>1, ResultsAre
        <3>2. \A i \in DOMAIN w : w[i].to \in Range(subs)
            BY <3>1 DEF ResultEvent, Range
        <3> QED
            BY <3>1, <3>2 DEF To
    <2>2. CASE ~changed
        BY <1>1, <2>2, EmptySeq, ToEmpty
    <2> QED
        BY <2>1, <2>2
<1>6. To(w \o u, "result") = To(w, "result") \cup To(u, "result")
    BY <1>4, <1>5, ToConcat
<1> QED
    BY <1>1, <1>2, <1>4, <1>5, <1>6 DEF EventsOf

\* A callback that leaves nothing behind.
LEMMA RunSent ==
    ASSUME TypeOK, NEW t \in Threads, hand[t] # <<>>, NEW e, e = Head(hand[t]),
           GoOn(t, Tail(hand[t])), queue' = queue
    PROVE  /\ Sent("result")' \subseteq Sent("result")
           /\ Sent("release")' \subseteq Sent("release")
           /\ Sent("release") \subseteq
                  Sent("release")' \cup (IF e.type = "release" THEN {e.to} ELSE {})
           /\ e.type \in {"result", "release"} => e.to \in Sent(e.type)
<1>1. hand' = [hand EXCEPT ![t] = Tail(hand[t])]
    BY DEF GoOn
<1>2. hand[t] \in Seq(Event)
    BY HeadType
<1>3. ASSUME NEW type
      PROVE  /\ Sent(type) = To(queue, type) \cup Rest(t, type) \cup To(hand[t], type)
             /\ Sent(type)' = To(queue, type) \cup Rest(t, type) \cup To(Tail(hand[t]), type)
    BY <1>1, SentBy, ZenonT(60)
<1>4. ASSUME NEW type
      PROVE  /\ To(Tail(hand[t]), type) \subseteq To(hand[t], type)
             /\ e.type # type => To(hand[t], type) = To(Tail(hand[t]), type)
             /\ e.type = type => To(hand[t], type) = To(Tail(hand[t]), type) \cup {e.to}
    BY <1>2, ToTail
<1>5. Sent("result")' \subseteq Sent("result")
    BY <1>3, <1>4
<1>6. Sent("release")' \subseteq Sent("release")
    BY <1>3, <1>4
<1>7. Sent("release") \subseteq
          Sent("release")' \cup (IF e.type = "release" THEN {e.to} ELSE {})
    BY <1>3, <1>4
<1>8. e.to \in Sent(e.type)
    BY <1>3, <1>4
<1> QED
    BY <1>5, <1>6, <1>7, <1>8

\* A step that leaves the subscriptions as they are and tells no listener but
\* those subscribed.
LEMMA ListenersKept ==
    ASSUME TypeOK, SubsInv, OnceInv, UNCHANGED <<subs, handle, early>>,
           \A x \in OneShots \cup (Listeners \ made) : calls'[x] = calls[x],
           made' \subseteq made \cup Requests, made \subseteq made',
           stopping => stopping',
           \A t \in Program : pc'[t] \in Listeners => pc'[t] = pc[t],
           Sent("release")' = Sent("release"),
           Expecting' \subseteq Expecting \cup Range(subs)
    PROVE  SubsInv' /\ OnceInv'
<1>1. Listeners \ made' = Listeners \ made
    BY DeliveryAssumption
<1>2. ASSUME NEW x \in Listeners \ made
      PROVE  x \notin Range(subs) \cup Expecting' /\ handle[x] = "none" /\ calls'[x] = <<>>
    BY DEF SubsInv
<1>3. SubsInv'
    BY <1>1, <1>2 DEF SubsInv
<1>4. ASSUME NEW x \in OneShots
      PROVE  /\ Len(calls'[x]) <= 1
             /\ calls'[x] # <<>> /\ x \notin early' =>
                    handle'[x] = "released" \/ (handle'[x] = "held" /\ x \in Sent("release")')
    BY DEF OnceInv
<1>5. OnceInv'
    BY <1>4 DEF OnceInv
<1> QED
    BY <1>3, <1>5

\* A callback that runs.
LEMMA ListenerRun ==
    ASSUME TypeOK, TypeOK', ThreadInv, SubsInv, OnceInv, NEW t \in Threads, Run(t)
    PROVE  SubsInv' /\ OnceInv'
<1>1. PICK e : e = Head(hand[t])
    OBVIOUS
<1>2. hand[t] # <<>> /\ e \in Event /\ Tail(hand[t]) \in Seq(Event)
    BY <1>1, HeadType DEF Run, Running
<1>3. /\ UNCHANGED <<immediate, latest, computed, pending, queue, phase, made>>
      /\ stopping' = stopping
    BY DEF Run, stopping
<1>4. \A u \in Program : pc'[u] \in Listeners => pc'[u] = pc[u]
    <2>1. PICK rest \in Seq(Event) : GoOn(t, rest)
        BY RunMoves
    <2> QED
        BY <2>1, Places DEF GoOn, TypeOK
<1>5. CASE CallUpdate(t, e) \/ CallDone(t, e)
    <2>1. GoOn(t, Tail(hand[t])) /\ UNCHANGED <<subs, handle, early>> /\ e.type # "release"
        BY <1>5 DEF CallUpdate, CallDone
    <2>2. /\ Sent("result")' \subseteq Sent("result") /\ Sent("release")' = Sent("release")
          /\ e.type = "result" => e.to \in Expecting
        BY <1>1, <1>2, <1>3, <2>1, RunSent DEF Expecting
    <2>3. Expecting' \subseteq Expecting
        BY <2>2 DEF Expecting
    <2>4. \A x \in OneShots \cup (Listeners \ made) : calls'[x] = calls[x]
        <3>1. CASE CallUpdate(t, e)
            <4>1. e.to \in Subscribers /\ e.to \in Expecting
                BY <2>2, <3>1 DEF CallUpdate
            <4>2. e.to \notin OneShots \cup (Listeners \ made)
                BY <4>1, DeliveryAssumption DEF SubsInv
            <4>3. calls' = [calls EXCEPT ![e.to] = Append(@, e.at)]
                BY <3>1 DEF CallUpdate
            <4> QED
                BY <4>2, <4>3 DEF TypeOK, Listeners
        <3>2. CASE CallDone(t, e)
            BY <3>2 DEF CallDone
        <3> QED
            BY <1>5, <3>1, <3>2
    <2> QED
        BY <1>3, <1>4, <2>1, <2>2, <2>3, <2>4, ListenersKept
<1>6. CASE CallOnce(t, e)
    <2>1. UNCHANGED <<subs, handle>> /\ e.type = "result" /\ e.to \in OneShots
        BY <1>6 DEF CallOnce
    <2>2. CASE calls[e.to] # <<>>
        <3>1. GoOn(t, Tail(hand[t])) /\ UNCHANGED <<calls, early>>
            BY <1>6, <2>2 DEF CallOnce
        <3>2. Sent("result")' \subseteq Sent("result") /\ Sent("release")' = Sent("release")
            BY <1>1, <1>2, <1>3, <2>1, <3>1, RunSent
        <3>3. Expecting' \subseteq Expecting
            BY <3>2 DEF Expecting
        <3> QED
            BY <1>3, <1>4, <2>1, <3>1, <3>2, <3>3, ListenersKept
    <2>3. CASE calls[e.to] = <<>>
        <3>1. PICK r \in Event : r = [type |-> "release", to |-> e.to]
            BY <2>1 DEF Event
        <3>2. <<r>> \in Seq(Event)
            OBVIOUS
        <3>3. PICK s : s = <<r>> \o Tail(hand[t])
            OBVIOUS
        <3>4. /\ GoOn(t, s) /\ calls' = [calls EXCEPT ![e.to] = Append(@, e.at)]
              /\ early' = IF handle[e.to] = "none" THEN early \cup {e.to} ELSE early
            BY <1>6, <2>3, <3>1, <3>3 DEF CallOnce
        <3>5. hand' = [hand EXCEPT ![t] = s]
            BY <3>4 DEF GoOn
        <3>6. /\ To(s, "result") = To(Tail(hand[t]), "result")
              /\ To(s, "release") = {e.to} \cup To(Tail(hand[t]), "release")
            <4>1. PICK q \in Seq(Event) : q = <<r>>
                BY <3>2
            <4>2. To(q, "result") = {} /\ To(q, "release") = {e.to}
                <5>1. To(<<r>>, "result") = {} /\ To(<<r>>, "release") = {e.to}
                    BY <3>1, ToSingle
                <5> QED
                    BY <4>1, <5>1
            <4>3. PICK w \in Seq(Event) : w = Tail(hand[t])
                BY <1>2
            <4>4. ASSUME NEW type
                  PROVE  To(q \o w, type) = To(q, type) \cup To(w, type)
                BY ToConcat
            <4> QED
                BY <3>3, <4>1, <4>2, <4>3, <4>4, ZenonT(60)
        <3>7. /\ To(Tail(hand[t]), "result") \subseteq To(hand[t], "result")
              /\ e.to \in To(hand[t], "result")
              /\ To(Tail(hand[t]), "release") = To(hand[t], "release")
            <4>1. hand[t] \in Seq(Event)
                BY DEF TypeOK
            <4> QED
                BY <1>1, <1>2, <2>1, <4>1, ToTail, ZenonT(60)
        <3>8. /\ Sent("result") = To(queue, "result") \cup Rest(t, "result") \cup To(hand[t], "result")
              /\ Sent("result")' = To(queue, "result") \cup Rest(t, "result") \cup To(s, "result")
            BY <1>3, <3>5, SentBy, ZenonT(60)
        <3>9. /\ Sent("release") =
                     To(queue, "release") \cup Rest(t, "release") \cup To(hand[t], "release")
              /\ Sent("release")' =
                     To(queue, "release") \cup Rest(t, "release") \cup To(s, "release")
            BY <1>3, <3>5, SentBy, ZenonT(60)
        <3>10. /\ Sent("release")' = Sent("release") \cup {e.to}
               /\ Sent("result")' \subseteq Sent("result") /\ e.to \in Sent("result")
            BY <3>6, <3>7, <3>8, <3>9
        <3>11. Expecting' \subseteq Expecting /\ e.to \in Expecting
            BY <3>10 DEF Expecting
        <3>12. e.to \in Listeners /\ e.to \in made
            BY <2>1, <3>11 DEF SubsInv, Listeners
        <3>13. \A x \in Listeners : x # e.to => calls'[x] = calls[x]
            BY <3>4 DEF TypeOK
        <3>14. ASSUME NEW x \in Listeners \ made
               PROVE  x \notin Range(subs) \cup Expecting' /\ handle[x] = "none" /\ calls'[x] = <<>>
            BY <3>11, <3>12, <3>13 DEF SubsInv
        <3>15. SubsInv'
            BY <1>3, <1>4, <2>1, <3>14 DEF SubsInv
        <3>16. calls'[e.to] = Append(<<>>, e.at) /\ Len(calls'[e.to]) = 1
            <4>1. calls'[e.to] = Append(<<>>, e.at)
                BY <2>3, <3>4, <3>12 DEF TypeOK
            <4> QED
                BY <4>1, AppendProperties, EmptySeq
        <3>17. ASSUME NEW x \in OneShots, x # e.to
               PROVE  /\ Len(calls'[x]) <= 1
                      /\ calls'[x] # <<>> /\ x \notin early' =>
                             \/ handle'[x] = "released"
                             \/ handle'[x] = "held" /\ x \in Sent("release")'
            <4>1. calls'[x] = calls[x] /\ (x \in early' <=> x \in early)
                BY <3>4, <3>13, <3>17 DEF Listeners
            <4> QED
                BY <2>1, <3>10, <4>1 DEF OnceInv
        <3>18. e.to \notin early' =>
                   handle'[e.to] = "released" \/ (handle'[e.to] = "held" /\ e.to \in Sent("release")')
            <4>1. e.to \notin early' => handle[e.to] # "none"
                BY <3>4
            <4> QED
                BY <2>1, <3>10, <3>12, <4>1 DEF TypeOK
        <3>19. OnceInv'
            <4>1. Len(calls'[e.to]) <= 1
                BY <3>16
            <4>2. \A x \in OneShots :
                      /\ Len(calls'[x]) <= 1
                      /\ calls'[x] # <<>> /\ x \notin early' =>
                             \/ handle'[x] = "released"
                             \/ handle'[x] = "held" /\ x \in Sent("release")'
                BY <3>17, <3>18, <4>1
            <4> QED
                BY <4>2 DEF OnceInv
        <3> QED
            BY <3>15, <3>19
    <2> QED
        BY <2>2, <2>3
<1>7. CASE ReleaseOnce(t, e)
    <2>1. /\ GoOn(t, Tail(hand[t])) /\ UNCHANGED <<calls, early>> /\ e.type = "release"
          /\ Release(e.to)
        BY <1>7 DEF ReleaseOnce
    <2>2. e.to \in OneShots
        BY <1>2, <2>1 DEF Event
    <2>3. /\ Sent("result")' \subseteq Sent("result") /\ Sent("release")' \subseteq Sent("release")
          /\ Sent("release") \subseteq Sent("release")' \cup {e.to} /\ e.to \in Sent("release")
        BY <1>1, <1>2, <1>3, <2>1, RunSent
    <2>4. Expecting' \subseteq Expecting /\ e.to \in Expecting
        BY <2>3 DEF Expecting
    <2>5. e.to \in made /\ e.to \in Listeners
        BY <2>2, <2>4 DEF SubsInv, Listeners
    <2>6. /\ \A x \in Listeners : x # e.to => handle'[x] = handle[x]
          /\ handle'[e.to] = IF handle[e.to] = "held" THEN "released" ELSE handle[e.to]
        BY <2>1, <2>5 DEF Release, TypeOK
    <2>7. /\ OnePlace(subs') /\ Range(subs') \subseteq Range(subs)
          /\ ~stopping /\ handle[e.to] = "held" => e.to \notin Range(subs')
        <3>1. OnePlace(subs)
            BY DEF SubsInv, OnePlace
        <3>2. OnePlace(Without(e.to)) /\ Range(Without(e.to)) = Range(subs) \ {e.to}
            BY <3>1, WithoutOne DEF TypeOK
        <3>3. subs' = subs \/ subs' = Without(e.to)
            BY <2>1 DEF Release
        <3>4. ~stopping /\ handle[e.to] = "held" => subs' = Without(e.to)
            BY <2>1 DEF Release
        <3> QED
            BY <3>1, <3>2, <3>3, <3>4
    <2>8. ASSUME NEW x \in Listeners \ made
          PROVE  x \notin Range(subs') \cup Expecting' /\ handle'[x] = "none" /\ calls'[x] = <<>>
        BY <2>1, <2>4, <2>5, <2>6, <2>7 DEF SubsInv
    <2>9. ASSUME NEW x \in Listeners, ~stopping', handle'[x] = "released"
          PROVE  x \notin Range(subs')
        BY <1>3, <2>6, <2>7, <2>9 DEF SubsInv
    <2>10. ASSUME NEW u \in Program, pc'[u] \in Listeners
           PROVE  pc'[u] = pc[u] /\ pc'[u] \in made' /\ handle'[pc'[u]] = "none"
        <3>1. pc'[u] = pc[u] /\ pc[u] \in made /\ handle[pc[u]] = "none"
            BY <1>4, <2>10 DEF SubsInv
        <3> QED
            BY <1>3, <2>6, <2>10, <3>1
    <2>11. SubsInv'
        <3>1. \A i, j \in DOMAIN subs' : subs'[i] = subs'[j] => i = j
            BY <2>7 DEF OnePlace
        <3>2. \A u, v \in Program : pc'[u] \in Listeners /\ pc'[u] = pc'[v] => u = v
            BY <2>10 DEF SubsInv
        <3> QED
            BY <1>3, <2>8, <2>9, <2>10, <3>1, <3>2 DEF SubsInv
    <2>12. ASSUME NEW x \in OneShots
           PROVE  /\ Len(calls'[x]) <= 1
                  /\ calls'[x] # <<>> /\ x \notin early' =>
                         handle'[x] = "released" \/ (handle'[x] = "held" /\ x \in Sent("release")')
        <3>1. x \in Listeners /\ calls'[x] = calls[x] /\ (x \in early' <=> x \in early)
            BY <2>1 DEF Listeners
        <3>2. /\ Len(calls[x]) <= 1
              /\ calls[x] # <<>> /\ x \notin early =>
                     handle[x] = "released" \/ (handle[x] = "held" /\ x \in Sent("release"))
            BY DEF OnceInv
        <3>3. handle[x] = "released" => handle'[x] = "released"
            BY <2>6, <3>1
        <3>4. handle[x] = "held" /\ x \in Sent("release") =>
                  handle'[x] = "released" \/ (handle'[x] = "held" /\ x \in Sent("release")')
            BY <2>3, <2>6, <3>1
        <3> QED
            BY <3>1, <3>2, <3>3, <3>4
    <2>13. OnceInv'
        BY <1>3, <2>1, <2>12 DEF OnceInv
    <2> QED
        BY <2>11, <2>13
<1> QED
    BY <1>1, <1>5, <1>6, <1>7 DEF Run

\* Every step keeps subscriptions and one-shot queries as they should be.
LEMMA ListenerStep ==
    ASSUME TypeOK, TypeOK', ThreadInv, SubsInv, OnceInv, [Next]_vars
    PROVE  SubsInv' /\ OnceInv'
<1>a. /\ \A u \in Threads : pc[u] \in Listeners =>
             pc[u] # "idle" /\ pc[u] # "deliver" /\ pc[u] # "pump" /\ pc[u] # "join"
             /\ pc[u] # "destroy"
      /\ Threads = {"user", "main", "ws", "worker", "detached"}
      /\ OneShots \subseteq Listeners /\ To(<<>>, "result") = {} /\ To(<<>>, "release") = {}
    BY Places, ToEmpty DEF Listeners
<1>b. /\ pc \in [Threads -> {"idle", "deliver", "pump", "join", "destroy"} \cup Listeners]
      /\ hand \in [Threads -> Seq(Event)] /\ subs \in Seq(Listeners)
    BY DEF TypeOK
<1>c. ASSUME NEW t \in Threads, Idle(t) PROVE hand[t] = <<>>
    BY <1>c DEF ThreadInv
<1>1. CASE Receive
    <2>1. PICK changed \in BOOLEAN, done \in SUBSET pending :
              LET n == IF changed THEN computed + 1 ELSE latest IN
              /\ Idle("ws") /\ ~stopping /\ (changed => computed < MaxResults)
              /\ Collect("ws", EventsOf(changed, done, n))
              /\ UNCHANGED <<immediate, subs, queue, handle, phase, historyVars>>
        BY <1>1 DEF Receive
    <2>2. PICK n : n = IF changed THEN computed + 1 ELSE latest
        OBVIOUS
    <2>3. n \in 0..MaxResults /\ (changed => n # 0)
        BY <2>1, <2>2, DeliveryAssumption DEF TypeOK, NoResult
    <2>4. done \subseteq Requests /\ IsFiniteSet(done)
        BY FS_Subset DEF TypeOK
    <2>5. PICK s : s = EventsOf(changed, done, n)
        OBVIOUS
    <2>6. To(s, "result") \subseteq Range(subs) /\ To(s, "release") = {}
        BY <1>b, <2>3, <2>4, <2>5, EventsAre, EventsSent
    <2>7. hand' = [hand EXCEPT !["ws"] = s] /\ hand["ws"] = <<>> /\ "ws" \in Threads
        BY <1>a, <1>c, <2>1, <2>2, <2>5 DEF Collect
    <2>8. /\ Sent("result")' \subseteq Sent("result") \cup Range(subs)
          /\ Sent("release")' = Sent("release")
        <3>1. ASSUME NEW type
              PROVE  /\ Sent(type) = To(queue, type) \cup Rest("ws", type) \cup To(<<>>, type)
                     /\ Sent(type)' = To(queue, type) \cup Rest("ws", type) \cup To(s, type)
            BY <2>1, <2>7, SentBy, ZenonT(60)
        <3> QED
            BY <1>a, <2>6, <3>1
    <2>9. Expecting' \subseteq Expecting \cup Range(subs) /\ phase' = phase
        BY <2>1, <2>8 DEF Expecting
    <2>10. \A u \in Program : pc'[u] = pc[u]
        BY <1>b, <2>1 DEF Collect, Program
    <2> QED
        BY <2>1, <2>8, <2>9, <2>10, ListenersKept DEF historyVars, stopping
<1>2. ASSUME NEW t \in {"ws", "worker"}, Disconnect(t) PROVE SubsInv' /\ OnceInv'
    <2>1. PICK lost \in SUBSET (pending \cap Actions) :
              /\ Idle(t) /\ Collect(t, Completions(lost, Lost))
              /\ UNCHANGED <<immediate, computed, subs, queue, handle, phase, historyVars>>
        BY <1>2 DEF Disconnect
    <2>2. PICK s : s = Completions(lost, Lost)
        OBVIOUS
    <2>3. To(s, "result") = {} /\ To(s, "release") = {}
        <3>1. Lost \in Lost..MaxResults \cup {ShutDown}
            BY DeliveryAssumption DEF Lost
        <3> QED
            BY <2>2, <3>1, LostType, CompletionsSent
    <2>4. hand' = [hand EXCEPT ![t] = s] /\ hand[t] = <<>> /\ t \in Threads
        BY <1>a, <1>c, <2>1, <2>2 DEF Collect
    <2>5. Sent("result")' = Sent("result") /\ Sent("release")' = Sent("release")
        <3>1. ASSUME NEW type
              PROVE  /\ Sent(type) = To(queue, type) \cup Rest(t, type) \cup To(<<>>, type)
                     /\ Sent(type)' = To(queue, type) \cup Rest(t, type) \cup To(s, type)
            BY <2>1, <2>4, SentBy, ZenonT(60)
        <3> QED
            BY <1>a, <2>3, <3>1
    <2>6. Expecting' = Expecting /\ phase' = phase
        BY <2>1, <2>5 DEF Expecting
    <2>7. \A u \in Program : pc'[u] = pc[u]
        BY <1>b, <2>1 DEF Collect, Program
    <2> QED
        BY <2>1, <2>5, <2>6, <2>7, ListenersKept DEF historyVars, stopping
<1>3. CASE ProtocolError
    <2>1. PICK lost \in SUBSET (pending \cap Actions) :
              /\ IF immediate
                 THEN /\ Idle("detached") /\ Collect("detached", Completions(lost, Lost))
                      /\ UNCHANGED queue
                 ELSE queue' = queue \o Completions(lost, Lost) /\ UNCHANGED <<hand, pc>>
              /\ UNCHANGED <<immediate, computed, subs, handle, phase, historyVars>>
        BY <1>3 DEF ProtocolError
    <2>2. PICK s \in Seq(Event) : s = Completions(lost, Lost)
        BY LostType
    <2>3. To(s, "result") = {} /\ To(s, "release") = {}
        <3>1. Lost \in Lost..MaxResults \cup {ShutDown}
            BY DeliveryAssumption DEF Lost
        <3> QED
            BY <2>2, <3>1, LostType, CompletionsSent
    <2>4. Sent("result")' = Sent("result") /\ Sent("release")' = Sent("release")
        <3>1. CASE immediate
            <4>1. /\ hand' = [hand EXCEPT !["detached"] = s] /\ hand["detached"] = <<>>
                  /\ "detached" \in Threads /\ queue' = queue
                BY <1>a, <1>c, <2>1, <2>2, <3>1 DEF Collect
            <4>2. ASSUME NEW type
                  PROVE  /\ Sent(type) = To(queue, type) \cup Rest("detached", type) \cup To(<<>>, type)
                         /\ Sent(type)' = To(queue, type) \cup Rest("detached", type) \cup To(s, type)
                BY <4>1, SentBy, ZenonT(60)
            <4> QED
                BY <1>a, <2>3, <4>2
        <3>2. CASE ~immediate
            <4>1. queue' = queue \o s /\ hand' = hand
                BY <2>1, <2>2, <3>2
            <4>2. ASSUME NEW type PROVE To(queue', type) = To(queue, type) \cup To(s, type)
                BY <4>1, ToConcat DEF TypeOK
            <4> QED
                BY <2>3, <4>1, <4>2 DEF Sent
        <3> QED
            BY <3>1, <3>2
    <2>5. Expecting' = Expecting /\ phase' = phase
        BY <2>1, <2>4 DEF Expecting
    <2>6. \A u \in Program : pc'[u] = pc[u]
        <3>1. CASE immediate
            <4>1. Collect("detached", s)
                BY <2>1, <2>2, <3>1
            <4> QED
                BY <1>b, <4>1 DEF Collect, Program
        <3>2. CASE ~immediate
            BY <2>1, <3>2
        <3> QED
            BY <3>1, <3>2
    <2> QED
        BY <2>1, <2>4, <2>5, <2>6, ListenersKept DEF historyVars, stopping
<1>4. ASSUME NEW t \in Program, NEW x \in Listeners, Subscribe(t, x) PROVE SubsInv' /\ OnceInv'
    <2>1. /\ Idle(t) /\ ~stopping /\ x \notin made /\ made' = made \cup {x}
          /\ subs' = Append(subs, x) /\ hand' = [hand EXCEPT ![t] = Cached(x)]
          /\ pc' = [pc EXCEPT ![t] = x] /\ UNCHANGED <<queue, handle, phase, calls, early>>
        BY <1>4 DEF Subscribe
    <2>2. PICK s : s = Cached(x)
        OBVIOUS
    <2>3. To(s, "result") \subseteq {x} /\ To(s, "release") = {}
        <3>1. CASE latest = NoResult
            BY <1>a, <2>2, <3>1 DEF Cached
        <3>2. CASE latest # NoResult
            <4>1. PICK e : e = ResultEvent(x, latest, TRUE)
                OBVIOUS
            <4>2. s = <<e>> /\ e.type = "result" /\ e.to = x
                BY <2>2, <3>2, <4>1 DEF Cached, ResultEvent
            <4> QED
                BY <4>2, ToSingle
        <3> QED
            BY <3>1, <3>2
    <2>4. /\ hand' = [hand EXCEPT ![t] = s] /\ hand[t] = <<>> /\ t \in Threads
          /\ queue' = queue
        BY <1>a, <1>c, <2>1, <2>2 DEF Program, Threads
    <2>5. Sent("result")' \subseteq Sent("result") \cup {x} /\ Sent("release")' = Sent("release")
        <3>1. ASSUME NEW type
              PROVE  /\ Sent(type) = To(queue, type) \cup Rest(t, type) \cup To(<<>>, type)
                     /\ Sent(type)' = To(queue, type) \cup Rest(t, type) \cup To(s, type)
            BY <2>4, SentBy, ZenonT(60)
        <3> QED
            BY <1>a, <2>3, <3>1
    <2>6. Expecting' \subseteq Expecting \cup {x}
        BY <2>5 DEF Expecting
    <2>7. x \notin Range(subs) /\ handle[x] = "none" /\ calls[x] = <<>>
        BY <2>1 DEF SubsInv
    <2>8. /\ Len(subs) \in Nat /\ DOMAIN subs = 1..Len(subs)
          /\ DOMAIN subs' = 1..(Len(subs) + 1)
          /\ \A i \in 1..Len(subs) : subs'[i] = subs[i]
          /\ subs'[Len(subs) + 1] = x
        <3>1. PICK w : w = Append(subs, x)
            OBVIOUS
        <3>2. /\ w \in Seq(Listeners) /\ Len(w) = Len(subs) + 1
              /\ \A i \in 1..Len(subs) : w[i] = subs[i]
              /\ w[Len(subs) + 1] = x
            BY <1>b, <3>1, AppendProperties
        <3> QED
            BY <1>b, <2>1, <3>1, <3>2, LenProperties
    <2>9. Range(subs') = Range(subs) \cup {x}
        <3>1. PICK n \in Nat : n = Len(subs)
            BY <2>8
        <3>2. DOMAIN subs' = DOMAIN subs \cup {n + 1}
            BY <2>8, <3>1
        <3>3. \A i \in DOMAIN subs : subs'[i] = subs[i]
            BY <2>8
        <3> QED
            BY <2>8, <3>1, <3>2, <3>3 DEF Range
    <2>10. ASSUME NEW i \in DOMAIN subs', NEW j \in DOMAIN subs', subs'[i] = subs'[j] PROVE i = j
        <3>1. \A k \in DOMAIN subs : subs[k] # x
            BY <2>7 DEF Range
        <3>2. PICK n \in Nat : n = Len(subs)
            BY <2>8
        <3>3. i \in 1..(n + 1) /\ j \in 1..(n + 1)
            BY <2>8, <3>2
        <3>4. CASE i \in 1..n /\ j \in 1..n
            BY <2>8, <2>10, <3>2, <3>4 DEF SubsInv
        <3>5. CASE i = n + 1
            <4>1. j \notin 1..n
                BY <2>8, <2>10, <3>1, <3>2, <3>5
            <4> QED
                BY <3>3, <3>5, <4>1
        <3>6. CASE j = n + 1
            <4>1. i \notin 1..n
                BY <2>8, <2>10, <3>1, <3>2, <3>6
            <4> QED
                BY <3>3, <3>6, <4>1
        <3> QED
            BY <3>3, <3>4, <3>5, <3>6
    <2>11. ASSUME NEW y \in Listeners \ made'
           PROVE  y \notin Range(subs') \cup Expecting' /\ handle'[y] = "none" /\ calls'[y] = <<>>
        BY <2>1, <2>6, <2>9, <2>11 DEF SubsInv
    <2>12. ASSUME NEW u \in Program, pc'[u] \in Listeners
           PROVE  pc'[u] \in made' /\ handle'[pc'[u]] = "none" /\ (pc'[u] = x => u = t)
        <3>1. pc'[u] = IF u = t THEN x ELSE pc[u]
            BY <1>b, <2>1 DEF Program, Threads
        <3> QED
            BY <2>1, <2>7, <2>12, <3>1 DEF SubsInv
    <2>13. \A u, v \in Program : pc'[u] \in Listeners /\ pc'[u] = pc'[v] => u = v
        <3>1. \A u \in Program : u # t => pc'[u] = pc[u]
            BY <1>b, <2>1 DEF Program, Threads
        <3>2. pc'[t] = x
            BY <1>b, <2>1, <2>4
        <3> QED
            BY <2>12, <3>1, <3>2 DEF SubsInv
    <2>14. ASSUME ~stopping' PROVE \A y \in Listeners : handle'[y] = "released" => y \notin Range(subs')
        BY <2>1, <2>7, <2>9 DEF SubsInv
    <2>15. SubsInv'
        BY <2>10, <2>11, <2>12, <2>13, <2>14 DEF SubsInv
    <2>16. OnceInv'
        BY <2>1, <2>5 DEF OnceInv, stopping
    <2> QED
        BY <2>15, <2>16
<1>5. ASSUME NEW t \in Program, NEW x \in Subscribers, Unsubscribe(t, x)
      PROVE  SubsInv' /\ OnceInv'
    <2>1. /\ handle[x] = "held" /\ Release(x) /\ x \in Listeners
          /\ x \notin OneShots
          /\ UNCHANGED <<immediate, latest, computed, pending, eventVars, phase, historyVars>>
        BY <1>5, DeliveryAssumption DEF Unsubscribe, Listeners
    <2>2. /\ handle' = [handle EXCEPT ![x] = "released"]
          /\ subs' = IF stopping THEN subs ELSE Without(x)
        BY <2>1 DEF Release
    <2>3. /\ \A y \in Listeners : y # x => handle'[y] = handle[y]
          /\ handle'[x] = "released"
        BY <2>1, <2>2 DEF TypeOK
    <2>4. /\ OnePlace(subs') /\ Range(subs') \subseteq Range(subs)
          /\ ~stopping => x \notin Range(subs')
        <3>1. OnePlace(subs)
            BY DEF SubsInv, OnePlace
        <3>2. OnePlace(Without(x)) /\ Range(Without(x)) = Range(subs) \ {x}
            BY <3>1, WithoutOne DEF TypeOK
        <3> QED
            BY <2>2, <3>1, <3>2
    <2>5. /\ UNCHANGED <<queue, hand, pc, made, calls, early, phase>>
          /\ stopping' = stopping
        BY <2>1 DEF eventVars, historyVars, stopping
    <2>6. \A type : Sent(type)' = Sent(type)
        BY <2>5 DEF Sent
    <2>7. Expecting' = Expecting
        BY <2>6 DEF Expecting
    <2>8. ASSUME NEW y \in Listeners \ made
          PROVE  y \notin Range(subs') \cup Expecting' /\ handle'[y] = "none" /\ calls'[y] = <<>>
        BY <2>1, <2>3, <2>4, <2>5, <2>7 DEF SubsInv
    <2>9. ASSUME NEW y \in Listeners, ~stopping', handle'[y] = "released"
          PROVE  y \notin Range(subs')
        BY <2>3, <2>4, <2>5, <2>9 DEF SubsInv
    <2>10. ASSUME NEW u \in Program, pc'[u] \in Listeners
           PROVE  pc'[u] \in made' /\ handle'[pc'[u]] = "none"
        BY <2>1, <2>3, <2>5, <2>10 DEF SubsInv
    <2>11. \A i, j \in DOMAIN subs' : subs'[i] = subs'[j] => i = j
        BY <2>4 DEF OnePlace
    <2>12. SubsInv'
        BY <2>5, <2>8, <2>9, <2>10, <2>11 DEF SubsInv
    <2>13. \A y \in OneShots : handle'[y] = handle[y]
        BY <2>1, <2>3 DEF Listeners
    <2>14. OnceInv'
        BY <2>1, <2>5, <2>6, <2>13 DEF OnceInv
    <2> QED
        BY <2>12, <2>14
<1>6. ASSUME NEW t \in Program, NEW r \in Requests, Request(t, r) PROVE SubsInv' /\ OnceInv'
    <2>1. /\ UNCHANGED <<subs, queue, hand, pc, handle, phase, calls, early>>
          /\ made' = made \cup {r}
        BY <1>6 DEF Request, eventVars
    <2>2. \A type : Sent(type)' = Sent(type)
        BY <2>1 DEF Sent
    <2>3. Expecting' = Expecting
        BY <2>2 DEF Expecting
    <2> QED
        BY <2>1, <2>2, <2>3, ListenersKept DEF stopping
<1>7. ASSUME NEW t \in Program, Subscribed(t) PROVE SubsInv' /\ OnceInv'
    <2>1. PICK x : x = pc[t]
        OBVIOUS
    <2>2. /\ x \in Listeners /\ x \in made /\ handle[x] = "none"
          /\ handle' = [handle EXCEPT ![x] = "held"] /\ pc' = [pc EXCEPT ![t] = "idle"]
          /\ UNCHANGED <<subs, queue, hand, phase, made, calls, early>>
        BY <1>7, <2>1 DEF Subscribed, SubsInv, historyVars
    <2>3. /\ \A y \in Listeners : y # x => handle'[y] = handle[y]
          /\ handle'[x] = "held"
        BY <2>2 DEF TypeOK
    <2>4. \A type : Sent(type)' = Sent(type)
        BY <2>2 DEF Sent
    <2>5. Expecting' = Expecting /\ stopping' = stopping
        BY <2>2, <2>4 DEF Expecting, stopping
    <2>6. ASSUME NEW u \in Program, pc'[u] \in Listeners
          PROVE  u # t /\ pc'[u] = pc[u] /\ pc[u] # x
        <3>1. pc'[u] = IF u = t THEN "idle" ELSE pc[u]
            BY <1>b, <2>2 DEF Program, Threads
        <3>2. u # t
            BY <2>6, <3>1, Places
        <3> QED
            BY <2>1, <2>2, <2>6, <3>1, <3>2 DEF SubsInv
    <2>7. ASSUME NEW u \in Program, pc'[u] \in Listeners
          PROVE  pc'[u] \in made' /\ handle'[pc'[u]] = "none"
        BY <2>2, <2>3, <2>6, <2>7 DEF SubsInv
    <2>8. \A u, v \in Program : pc'[u] \in Listeners /\ pc'[u] = pc'[v] => u = v
        <3> SUFFICES ASSUME NEW u \in Program, NEW v \in Program,
                            pc'[u] \in Listeners, pc'[u] = pc'[v]
                     PROVE  u = v
            OBVIOUS
        <3>1. pc'[u] = pc[u] /\ pc'[v] = pc[v]
            BY <2>6
        <3> QED
            BY <3>1 DEF SubsInv
    <2>9. ASSUME NEW y \in Listeners \ made
          PROVE  y \notin Range(subs') \cup Expecting' /\ handle'[y] = "none" /\ calls'[y] = <<>>
        BY <2>2, <2>3, <2>5 DEF SubsInv
    <2>10. ASSUME NEW y \in Listeners, ~stopping', handle'[y] = "released"
           PROVE  y \notin Range(subs')
        BY <2>2, <2>3, <2>5, <2>10 DEF SubsInv
    <2>11. SubsInv'
        BY <2>2, <2>7, <2>8, <2>9, <2>10 DEF SubsInv
    <2>12. ASSUME NEW y \in OneShots
           PROVE  /\ Len(calls'[y]) <= 1
                  /\ calls'[y] # <<>> /\ y \notin early' =>
                         handle'[y] = "released" \/ (handle'[y] = "held" /\ y \in Sent("release")')
        <3>1. CASE y = x
            BY <2>2, <3>1 DEF OnceInv
        <3>2. CASE y # x
            BY <1>a, <2>2, <2>3, <2>4, <3>2 DEF OnceInv
        <3> QED
            BY <3>1, <3>2
    <2>13. OnceInv'
        BY <2>2, <2>5, <2>12 DEF OnceInv
    <2> QED
        BY <2>11, <2>13
<1>8. ASSUME NEW t \in Threads, Enqueue(t) PROVE SubsInv' /\ OnceInv'
    <2>1. /\ queue' = queue \o hand[t] /\ hand' = [hand EXCEPT ![t] = <<>>]
          /\ pc' = [pc EXCEPT ![t] = IF @ = "deliver" THEN "idle" ELSE @]
          /\ UNCHANGED <<subs, handle, phase, made, calls, early>>
        BY <1>8 DEF Enqueue, historyVars
    <2>2. PICK s \in Seq(Event) : s = hand[t]
        BY <1>b
    <2>3. ASSUME NEW type PROVE Sent(type)' = Sent(type)
        <3>1. To(queue', type) = To(queue, type) \cup To(s, type)
            BY <2>1, <2>2, ToConcat DEF TypeOK
        <3>2. /\ Sent(type) = To(queue, type) \cup Rest(t, type) \cup To(s, type)
              /\ Sent(type)' = To(queue', type) \cup Rest(t, type) \cup To(<<>>, type)
            BY <2>1, <2>2, SentBy
        <3>3. To(<<>>, type) = {}
            BY ToEmpty
        <3> QED
            BY <3>1, <3>2, <3>3
    <2>4. Expecting' = Expecting
        BY <2>3 DEF Expecting
    <2>5. \A u \in Program : pc'[u] \in Listeners => pc'[u] = pc[u]
        BY <1>b, <2>1, Places DEF Program
    <2> QED
        BY <2>1, <2>3, <2>4, <2>5, ListenersKept DEF stopping
<1>9. ASSUME NEW t \in Threads, Run(t) PROVE SubsInv' /\ OnceInv'
    BY <1>9, ListenerRun
<1>10. ASSUME NEW t \in Threads, NEW r \in Requests, RequestRefused(t, r)
       PROVE  SubsInv' /\ OnceInv'
    <2>1. /\ UNCHANGED <<subs, queue, hand, pc, handle, phase, calls, early>>
          /\ made' = made \cup {r}
        BY <1>10 DEF RequestRefused, eventVars
    <2>2. \A type : Sent(type)' = Sent(type)
        BY <2>1 DEF Sent
    <2>3. Expecting' = Expecting
        BY <2>2 DEF Expecting
    <2> QED
        BY <2>1, <2>2, <2>3, ListenersKept DEF stopping
<1>11. CASE Pump
    <2>1. /\ queue' = <<>> /\ hand' = [hand EXCEPT !["main"] = queue] /\ hand["main"] = <<>>
          /\ pc' = [pc EXCEPT !["main"] = "pump"] /\ "main" \in Threads
          /\ UNCHANGED <<subs, handle, phase, made, calls, early>>
        BY <1>11, <1>a, <1>c DEF Pump, historyVars
    <2>2. ASSUME NEW type PROVE Sent(type)' = Sent(type)
        <3>1. To(<<>>, type) = {}
            BY ToEmpty
        <3>2. PICK t \in Threads : t = "main"
            BY <2>1
        <3>3. PICK q : q = queue
            OBVIOUS
        <3>4. hand' = [hand EXCEPT ![t] = q]
            BY <2>1, <3>2, <3>3
        <3>5. /\ Sent(type) = To(queue, type) \cup Rest(t, type) \cup To(hand[t], type)
              /\ Sent(type)' = To(<<>>, type) \cup Rest(t, type) \cup To(q, type)
            <4>1. Sent(type) = To(queue, type) \cup Rest(t, type) \cup To(hand[t], type)
                BY <3>4, SentBy
            <4>2. Sent(type)' = To(queue', type) \cup Rest(t, type) \cup To(q, type)
                BY <3>4, SentBy, ZenonT(60)
            <4> QED
                BY <2>1, <4>1, <4>2
        <3> QED
            BY <2>1, <3>1, <3>2, <3>3, <3>5
    <2>3. Expecting' = Expecting
        BY <2>2 DEF Expecting
    <2>4. \A u \in Program : pc'[u] \in Listeners => pc'[u] = pc[u]
        BY <1>b, <2>1, Places DEF Program
    <2> QED
        BY <2>1, <2>2, <2>3, <2>4, ListenersKept DEF stopping
<1>12. CASE BeginShutdown
    <2>1. /\ ~stopping /\ (\A t \in Program : Idle(t))
          /\ hand' = [hand EXCEPT !["main"] = Completions(pending, ShutDown)]
          /\ pc' = [pc EXCEPT !["main"] = "join"]
          /\ UNCHANGED <<immediate, latest, computed, queue, handle, made, calls, early>>
          /\ hand["main"] = <<>> /\ "main" \in Threads
        BY <1>12, <1>a, <1>c DEF BeginShutdown, historyVars, Program
    <2>2. /\ ClearLocks => phase' = "hung" /\ subs' = subs
          /\ ~ClearLocks => phase' = "joining" /\ subs' = <<>>
        BY <1>12 DEF BeginShutdown
    <2>3. PICK s : s = Completions(pending, ShutDown)
        OBVIOUS
    <2>4. To(s, "result") = {} /\ To(s, "release") = {}
        <3>1. ShutDown \in Lost..MaxResults \cup {ShutDown}
            OBVIOUS
        <3> QED
            BY <2>3, <3>1, CompletionsSent DEF TypeOK
    <2>5. Sent("result")' = Sent("result") /\ Sent("release")' = Sent("release")
        <3>1. ASSUME NEW type
              PROVE  /\ Sent(type) = To(queue, type) \cup Rest("main", type) \cup To(<<>>, type)
                     /\ Sent(type)' = To(queue, type) \cup Rest("main", type) \cup To(s, type)
            BY <2>1, <2>3, SentBy
        <3> QED
            BY <1>a, <2>4, <3>1
    <2>6. Expecting' = Expecting
        BY <2>5 DEF Expecting
    <2>7. \A u \in Program : pc'[u] \notin Listeners
        BY <1>b, <2>1, Places DEF Idle, Program
    <2>8. Range(<<>>) = {} /\ DOMAIN <<>> = {}
        BY DEF Range
    <2>9. SubsInv'
        <3>1. Range(subs') \subseteq Range(subs) /\ stopping'
            BY <2>2, <2>8 DEF stopping
        <3>2. \A i, j \in DOMAIN subs' : subs'[i] = subs'[j] => i = j
            BY <2>2, <2>8 DEF SubsInv
        <3>3. ASSUME NEW y \in Listeners \ made'
              PROVE  y \notin Range(subs') \cup Expecting' /\ handle'[y] = "none" /\ calls'[y] = <<>>
            BY <2>1, <2>6, <3>1 DEF SubsInv
        <3> QED
            BY <2>7, <3>1, <3>2, <3>3 DEF SubsInv
    <2>10. OnceInv'
        BY <2>1, <2>5 DEF OnceInv
    <2> QED
        BY <2>9, <2>10
<1>13. CASE Drain
    <2>1. /\ phase = "sweeping" /\ phase' = "draining"
          /\ hand' = [hand EXCEPT !["main"] = queue \o hand["main"]]
          /\ queue' = <<>> /\ pc' = [pc EXCEPT !["main"] = "destroy"] /\ "main" \in Threads
          /\ UNCHANGED <<immediate, subs, handle, made, calls, early>>
        BY <1>13, <1>a DEF Drain, Remaining, historyVars
    <2>2. PICK s \in Seq(Event) : s = hand["main"]
        BY <1>a, <1>b
    <2>3. ASSUME NEW type PROVE Sent(type)' = Sent(type)
        <3>1. To(<<>>, type) = {}
            BY ToEmpty
        <3>2. To(queue \o s, type) = To(queue, type) \cup To(s, type)
            BY ToConcat DEF TypeOK
        <3>3. /\ Sent(type) = To(queue, type) \cup Rest("main", type) \cup To(s, type)
              /\ Sent(type)' = To(<<>>, type) \cup Rest("main", type) \cup To(queue \o s, type)
            BY <2>1, <2>2, SentBy
        <3> QED
            BY <3>1, <3>2, <3>3
    <2>4. Expecting' = Expecting
        BY <2>3 DEF Expecting
    <2>5. \A u \in Program : pc'[u] \in Listeners => pc'[u] = pc[u]
        BY <1>b, <2>1, Places DEF Program
    <2> QED
        BY <2>1, <2>3, <2>4, <2>5, ListenersKept DEF stopping
<1>14. CASE Return
    <2>1. /\ phase' = "returned" /\ phase = "draining"
          /\ UNCHANGED <<subs, queue, hand, pc, handle, made, calls, early>>
        BY <1>14 DEF Return, deliveryVars, eventVars, historyVars
    <2>2. \A type : Sent(type)' = Sent(type)
        BY <2>1 DEF Sent
    <2>3. Expecting' = Expecting
        BY <2>2 DEF Expecting
    <2> QED
        BY <2>1, <2>2, <2>3, ListenersKept DEF stopping
<1>15. CASE UNCHANGED vars
    <2>1. UNCHANGED <<subs, queue, hand, pc, handle, phase, made, calls, early>>
        BY <1>15 DEF vars, eventVars, historyVars
    <2>2. \A type : Sent(type)' = Sent(type)
        BY <2>1 DEF Sent
    <2>3. Expecting' = Expecting
        BY <2>2 DEF Expecting
    <2> QED
        BY <2>1, <2>2, <2>3, ListenersKept DEF stopping
<1>16. CASE Connection \/ Join
    <2>1. UNCHANGED <<subs, queue, hand, pc, handle, made, calls, early>> /\ (stopping => stopping')
        BY <1>16, ConnectionSteps DEF stopping
    <2>2. \A type : Sent(type)' = Sent(type)
        BY <2>1 DEF Sent
    <2>3. Expecting' = Expecting
        BY <2>2 DEF Expecting
    <2> QED
        BY <2>1, <2>2, <2>3, ListenersKept
<1> QED
    BY <1>1, <1>2, <1>3, <1>4, <1>5, <1>6, <1>7, <1>8, <1>9, <1>10, <1>11, <1>12, <1>13, <1>14,
       <1>15, <1>16
    DEF Next, Produce, Call, Deliver, Destroy

\* Subscriptions and one-shot queries are as they should be throughout.
LEMMA ListenerInvariant == Spec => [](SubsInv /\ OnceInv)
<1>1. Init => SubsInv /\ OnceInv
    <2> SUFFICES ASSUME Init PROVE SubsInv /\ OnceInv
        OBVIOUS
    <2>1. Range(<<>>) = {} /\ DOMAIN <<>> = {}
        BY DEF Range
    <2>2. Expecting = {}
        BY ToEmpty DEF Init, Expecting, Sent
    <2>3. SubsInv
        <3>1. subs = <<>> /\ ~stopping /\ \A x \in Listeners : handle[x] = "none" /\ calls[x] = <<>>
            BY DEF Init, stopping
        <3>2. \A t \in Program : pc[t] \notin Listeners
            BY Places DEF Init, Program, Threads
        <3> QED
            BY <2>1, <2>2, <3>1, <3>2 DEF SubsInv
    <2>4. \A x \in OneShots : calls[x] = <<>> /\ Len(calls[x]) <= 1
        BY EmptySeq DEF Init, Listeners
    <2>5. OnceInv
        BY <2>4 DEF Init, OnceInv
    <2> QED
        BY <2>3, <2>5
<1>2. DeliveryInv /\ DeliveryInv' /\ SubsInv /\ OnceInv /\ [Next]_vars => SubsInv' /\ OnceInv'
    BY ListenerStep DEF DeliveryInv
<1> QED
    BY <1>1, <1>2, DeliveryInvariant, PTL DEF Spec

\* The callback of a one-shot query runs once; then its subscription is gone,
\* unless it ran before subscribe() had returned.
THEOREM OneShotsLeave == Spec => []OneShotLeaves
<1>1. DeliveryInv /\ SubsInv /\ OnceInv => OneShotLeaves
    <2> SUFFICES ASSUME DeliveryInv, SubsInv, OnceInv, NEW x \in OneShots
                 PROVE  /\ Len(calls[x]) <= 1
                        /\ calls[x] # <<>> /\ ~OnItsWay(x) /\ ~stopping =>
                               x \in early \/ x \notin Range(subs)
        BY DEF OneShotLeaves
    <2>1. Len(calls[x]) <= 1
        BY DEF OnceInv
    <2>2. ASSUME calls[x] # <<>>, ~OnItsWay(x), ~stopping, x \notin early
          PROVE  x \notin Range(subs)
        <3>1. x \in Listeners /\ x \notin Sent("release")
            BY <2>2, OnItsWayIs DEF DeliveryInv, Expecting, Listeners
        <3> QED
            BY <2>2, <3>1 DEF OnceInv, SubsInv
    <2> QED
        BY <2>1, <2>2
<1> QED
    BY <1>1, DeliveryInvariant, ListenerInvariant, PTL

-----------------------------------------------------------------------------
(* The order of results and completions.                                   *)

\* Results for subscriptions, as a message brought them or as subscribe() found
\* them, and successes of requests.
IsFresh(e) == e.type = "result" /\ e.to \in Subscribers /\ ~e.cached
IsCached(e) == e.type = "result" /\ e.to \in Subscribers /\ e.cached
Success(e) == e.type = "completion" /\ e.at >= 1

\* Who is to be called with which result, and what the successes were held for.
FreshOf(s) == {<<e.to, e.at>> : e \in {f \in Range(s) : IsFresh(f)}}
CachedOf(s) == {<<e.to, e.at>> : e \in {f \in Range(s) : IsCached(f)}}
DueOf(s) == {e.at : e \in {f \in Range(s) : Success(f)}}

\* The first of them.
Earlier(s, i) == {<<s[j].to, s[j].at>> : j \in {k \in DOMAIN s : k < i /\ IsFresh(s[k])}}

\* A listener is told of newer and newer results: than those in `told`, too.
Rising(s, told) ==
    \A i \in DOMAIN s : IsFresh(s[i]) =>
        \A v \in 1..MaxResults : <<s[i].to, v>> \in told \cup Earlier(s, i) => v < s[i].at

\* Before a success, each listener is told of a result as new, or has been.
Covered(s, told, listeners) ==
    \A i \in DOMAIN s : Success(s[i]) =>
        \A x \in listeners : \E v \in 1..MaxResults :
            s[i].at <= v /\ <<x, v>> \in told \cup Earlier(s, i)

\* Sequences that tell of neither.
Still(s) == \A e \in Range(s) : ~IsFresh(e) /\ ~Success(e)

\* What the thread in process_events() or ~client is about to run, before the queue.
Out == IF pc["main"] \in {"pump", "destroy"} THEN hand["main"] ELSE <<>>

\* The results subscriptions have been called with, those on their way that
\* subscribe() found, and those that messages brought.
Called == {p \in Subscribers \X (1..MaxResults) : p[2] \in Range(calls[p[1]])}
Recalled == CachedOf(queue) \cup UNION {CachedOf(hand[t]) : t \in Threads}
Brought == FreshOf(Out) \cup FreshOf(queue) \cup FreshOf(hand["ws"])
AllTold == Called \cup Recalled \cup Brought

\* x has been called with n or a newer result, or is never called with an older one.
Settled ==
    {p \in Subscribers \X (1..computed) :
        \/ \E v \in p[2]..MaxResults : <<p[1], v>> \in Called
        \/ \A v \in 1..MaxResults : <<p[1], v>> \in AllTold => p[2] <= v}

Live == Range(subs) \cap Subscribers

\* Only messages bring new results and successes, and they travel in order.
PlaceInv ==
    /\ immediate => pc["main"] # "pump"
    /\ phase \in {"joining", "sweeping", "draining", "returned"} => subs = <<>>
    /\ \A t \in Threads \ {"ws"} :
           (t = "main" /\ pc["main"] \in {"pump", "destroy"}) \/ Still(hand[t])

\* Nothing is newer than the newest result.
BoundInv ==
    /\ \A p \in AllTold : p[2] <= computed
    /\ \A n \in DueOf(Out) \cup DueOf(queue) \cup DueOf(hand["ws"]) : n <= computed
    /\ \A r \in Requests : \A v \in Range(ran[r]) : v <= computed

\* What comes after what, in the three parts of the way.
Ascending(o, q, w, told) ==
    /\ Rising(o, told)
    /\ Rising(q, told \cup FreshOf(o))
    /\ Rising(w, told \cup FreshOf(o) \cup FreshOf(q))

Supported(o, q, w, told, listeners) ==
    /\ Covered(o, told, listeners)
    /\ Covered(q, told \cup FreshOf(o), listeners)
    /\ Covered(w, told \cup FreshOf(o) \cup FreshOf(q), listeners)

\* Results that a message brings are newer than all before them; one that
\* subscribe() found is the oldest its listener is called with.
RisingInv ==
    /\ Ascending(Out, queue, hand["ws"], Called \cup Recalled)
    /\ \A p \in Recalled, q \in Called \cup Recalled : p[1] = q[1] => p[2] <= q[2]

\* The latest result is on its way to all subscribed or has come to them, and
\* what they were called with last is the newest of what they were.
LatestInv ==
    /\ latest # NoResult => \A x \in Live : <<x, latest>> \in AllTold
    /\ \A x \in Subscribers :
           calls[x] = <<>> \/ Last(calls[x]) = Newest(calls[x]) \/ x \in overtaken

\* A success comes after the results it was held for.
EffectInv ==
    /\ Supported(Out, queue, hand["ws"], Settled, Live)
    /\ \A r \in Requests : \A n \in Range(ran[r]) : n >= 1 =>
           \A x \in Live : \E v \in n..MaxResults : <<x, v>> \in Settled

\* The positions that hold the results of a sequence.
LEMMA EarlierIs ==
    ASSUME NEW s, NEW i, NEW x, NEW v
    PROVE  /\ <<x, v>> \in Earlier(s, i) <=>
                  \E j \in DOMAIN s : j < i /\ IsFresh(s[j]) /\ s[j].to = x /\ s[j].at = v
           /\ <<x, v>> \in FreshOf(s) <=>
                  \E j \in DOMAIN s : IsFresh(s[j]) /\ s[j].to = x /\ s[j].at = v
BY DEF Earlier, FreshOf, Range

\* What is in a concatenation.
LEMMA RangeConcat ==
    ASSUME NEW S, NEW s \in Seq(S), NEW u \in Seq(S)
    PROVE  /\ Range(s \o u) = Range(s) \cup Range(u)
           /\ FreshOf(s \o u) = FreshOf(s) \cup FreshOf(u)
           /\ CachedOf(s \o u) = CachedOf(s) \cup CachedOf(u)
           /\ DueOf(s \o u) = DueOf(s) \cup DueOf(u)
<1> PICK w : w = s \o u
    OBVIOUS
<1>1. Range(w) \subseteq Range(s) \cup Range(u)
    <2> SUFFICES ASSUME NEW i \in DOMAIN w PROVE w[i] \in Range(s) \cup Range(u)
        BY DEF Range
    <2>1. CASE i \in DOMAIN s
        BY <2>1, ConcatAt DEF Range
    <2>2. CASE i - Len(s) \in DOMAIN u
        <3>1. i \in Nat /\ Len(s) \in Nat
            BY ConcatAt
        <3>2. Len(s) + (i - Len(s)) = i
            BY <3>1
        <3>3. u[i - Len(s)] = w[Len(s) + (i - Len(s))]
            BY <2>2, ConcatAt
        <3> QED
            BY <2>2, <3>2, <3>3 DEF Range
    <2> QED
        BY <2>1, <2>2, ConcatAt
<1>2. Range(s) \subseteq Range(w)
    <2> SUFFICES ASSUME NEW i \in DOMAIN s PROVE s[i] \in Range(w)
        BY DEF Range
    <2>1. i \in DOMAIN w /\ w[i] = s[i]
        BY ConcatAt
    <2> QED
        BY <2>1 DEF Range
<1>3. Range(u) \subseteq Range(w)
    <2> SUFFICES ASSUME NEW i \in DOMAIN u PROVE u[i] \in Range(w)
        BY DEF Range
    <2>1. Len(s) + i \in DOMAIN w /\ w[Len(s) + i] = u[i]
        BY ConcatAt
    <2> QED
        BY <2>1 DEF Range
<1>4. Range(w) = Range(s) \cup Range(u)
    BY <1>1, <1>2, <1>3
<1>5. /\ FreshOf(w) = FreshOf(s) \cup FreshOf(u)
      /\ CachedOf(w) = CachedOf(s) \cup CachedOf(u)
      /\ DueOf(w) = DueOf(s) \cup DueOf(u)
    BY <1>4 DEF FreshOf, CachedOf, DueOf
<1> QED
    BY <1>4, <1>5

\* What is in a tail.
LEMMA RangeTail ==
    ASSUME NEW S, NEW s \in Seq(S), s # <<>>
    PROVE  Range(s) = {Head(s)} \cup Range(Tail(s))
<1> PICK w : w = Tail(s)
    OBVIOUS
<1>1. ASSUME NEW i \in DOMAIN s PROVE s[i] \in {Head(s)} \cup Range(w)
    <2>1. CASE i = 1
        BY <2>1, TailAt
    <2>2. CASE i - 1 \in DOMAIN w
        <3>1. i \in Nat
            BY TailAt
        <3>2. (i - 1) + 1 = i
            BY <3>1
        <3>3. w[i - 1] = s[i]
            BY <2>2, <3>2, TailAt
        <3> QED
            BY <2>2, <3>3 DEF Range
    <2> QED
        BY <2>1, <2>2, TailAt
<1>2. Head(s) \in Range(s)
    <2>1. 1 \in DOMAIN s /\ Head(s) = s[1]
        BY TailAt
    <2> QED
        BY <2>1 DEF Range
<1>3. ASSUME NEW i \in DOMAIN w PROVE w[i] \in Range(s)
    <2>1. i + 1 \in DOMAIN s /\ w[i] = s[i + 1]
        BY TailAt
    <2> QED
        BY <2>1 DEF Range
<1> QED
    BY <1>1, <1>2, <1>3 DEF Range

\* What is in the empty sequence and in one event.
LEMMA RangeSingle ==
    /\ Range(<<>>) = {} /\ \A e : Range(<<e>>) = {e}
    /\ FreshOf(<<>>) = {} /\ CachedOf(<<>>) = {} /\ DueOf(<<>>) = {} /\ Still(<<>>)
<1>1. Range(<<>>) = {}
    BY DEF Range
<1>2. ASSUME NEW e PROVE Range(<<e>>) = {e}
    BY DEF Range
<1> QED
    BY <1>1, <1>2 DEF FreshOf, CachedOf, DueOf, Still

\* What comes earlier in w, of s and then u.
EarlierInBoth(w, s, u) ==
    /\ \A i \in DOMAIN s : Earlier(w, i) = Earlier(s, i)
    /\ \A i \in DOMAIN u : Earlier(w, Len(s) + i) = FreshOf(s) \cup Earlier(u, i)

\* What comes earlier in a concatenation.
LEMMA EarlierConcat ==
    ASSUME NEW S, NEW s \in Seq(S), NEW u \in Seq(S)
    PROVE  EarlierInBoth(s \o u, s, u)
<1> PICK w : w = s \o u
    OBVIOUS
<1> PICK n \in Nat : n = Len(s)
    BY ConcatAt
<1>1. DOMAIN s = 1..n /\ DOMAIN u = 1..Len(u) /\ DOMAIN w = 1..(n + Len(u)) /\ Len(u) \in Nat
    BY ConcatAt
<1>2. \A i \in DOMAIN s : i \in DOMAIN w /\ w[i] = s[i]
    BY ConcatAt
<1>3. \A i \in DOMAIN u : n + i \in DOMAIN w /\ w[n + i] = u[i]
    BY ConcatAt
<1>4. ASSUME NEW i \in DOMAIN s PROVE Earlier(w, i) = Earlier(s, i)
    <2>1. \A j \in DOMAIN w : j < i => j \in DOMAIN s
        BY <1>1
    <2>2. {k \in DOMAIN w : k < i /\ IsFresh(w[k])} = {k \in DOMAIN s : k < i /\ IsFresh(s[k])}
        BY <1>2, <2>1
    <2> QED
        BY <1>2, <2>2 DEF Earlier
<1>5. ASSUME NEW i \in DOMAIN u PROVE Earlier(w, n + i) = FreshOf(s) \cup Earlier(u, i)
    <2>1. ASSUME NEW j \in DOMAIN w, j < n + i, IsFresh(w[j])
          PROVE  <<w[j].to, w[j].at>> \in FreshOf(s) \cup Earlier(u, i)
        <3>1. CASE j \in DOMAIN s
            <4>1. w[j] \in Range(s) /\ IsFresh(w[j])
                BY <1>2, <2>1, <3>1 DEF Range
            <4> QED
                BY <4>1 DEF FreshOf
        <3>2. CASE j \notin DOMAIN s
            <4>1. j - n \in DOMAIN u /\ n + (j - n) = j /\ j - n < i
                BY <1>1, <2>1, <3>2
            <4>2. w[j] = u[j - n]
                BY <1>3, <4>1
            <4> QED
                BY <2>1, <4>1, <4>2 DEF Earlier
        <3> QED
            BY <3>1, <3>2
    <2>2. ASSUME NEW e \in Range(s), IsFresh(e) PROVE <<e.to, e.at>> \in Earlier(w, n + i)
        <3>1. PICK j \in DOMAIN s : e = s[j]
            BY DEF Range
        <3>2. j < n + i /\ j \in DOMAIN w /\ w[j] = e
            BY <1>1, <1>2, <3>1
        <3> QED
            BY <2>2, <3>2 DEF Earlier
    <2>3. ASSUME NEW j \in DOMAIN u, j < i, IsFresh(u[j])
          PROVE  <<u[j].to, u[j].at>> \in Earlier(w, n + i)
        <3>1. n + j < n + i /\ n + j \in DOMAIN w /\ w[n + j] = u[j]
            BY <1>1, <1>3, <2>3
        <3> QED
            BY <2>3, <3>1 DEF Earlier
    <2>4. Earlier(w, n + i) \subseteq FreshOf(s) \cup Earlier(u, i)
        BY <2>1 DEF Earlier
    <2>5. FreshOf(s) \subseteq Earlier(w, n + i)
        BY <2>2 DEF FreshOf
    <2>6. Earlier(u, i) \subseteq Earlier(w, n + i)
        BY <2>3 DEF Earlier
    <2> QED
        BY <2>4, <2>5, <2>6
<1> QED
    BY <1>4, <1>5 DEF EarlierInBoth

\* Whom the first event is for, if it brings a result.
FirstOf(e) == IF IsFresh(e) THEN {<<e.to, e.at>>} ELSE {}

\* What comes earlier in w, of s without its first event.
EarlierInRest(w, s) ==
    \A i \in DOMAIN w : /\ i + 1 \in DOMAIN s /\ w[i] = s[i + 1]
                        /\ Earlier(s, i + 1) = FirstOf(Head(s)) \cup Earlier(w, i)

\* What comes earlier in a tail.
LEMMA EarlierTail ==
    ASSUME NEW S, NEW s \in Seq(S), s # <<>>
    PROVE  EarlierInRest(Tail(s), s)
<1> PICK w : w = Tail(s)
    OBVIOUS
<1> PICK n \in Nat \ {0} : n = Len(s)
    BY TailAt
<1>1. /\ DOMAIN s = 1..n /\ DOMAIN w = 1..(n - 1) /\ Head(s) = s[1]
      /\ \A i \in DOMAIN w : i + 1 \in DOMAIN s /\ w[i] = s[i + 1]
    BY TailAt
<1> SUFFICES ASSUME NEW i \in DOMAIN w
             PROVE  Earlier(s, i + 1) = FirstOf(Head(s)) \cup Earlier(w, i)
    BY <1>1 DEF EarlierInRest
<1>2. ASSUME NEW j \in DOMAIN s, j < i + 1, IsFresh(s[j])
      PROVE  <<s[j].to, s[j].at>> \in FirstOf(Head(s)) \cup Earlier(w, i)
    <2>1. CASE j = 1
        BY <1>1, <1>2, <2>1 DEF FirstOf
    <2>2. CASE j # 1
        <3>1. j - 1 \in DOMAIN w /\ (j - 1) + 1 = j /\ j - 1 < i
            BY <1>1, <1>2, <2>2
        <3>2. w[j - 1] = s[j]
            BY <1>1, <3>1
        <3> QED
            BY <1>2, <3>1, <3>2 DEF Earlier
    <2> QED
        BY <2>1, <2>2
<1>3. FirstOf(Head(s)) \subseteq Earlier(s, i + 1)
    <2>1. 1 \in DOMAIN s /\ 1 < i + 1
        BY <1>1
    <2> QED
        BY <1>1, <2>1 DEF FirstOf, Earlier
<1>4. ASSUME NEW j \in DOMAIN w, j < i, IsFresh(w[j])
      PROVE  <<w[j].to, w[j].at>> \in Earlier(s, i + 1)
    <2>1. j + 1 < i + 1 /\ j + 1 \in DOMAIN s /\ w[j] = s[j + 1]
        BY <1>1, <1>4
    <2> QED
        BY <1>4, <2>1 DEF Earlier
<1>5. Earlier(s, i + 1) \subseteq FirstOf(Head(s)) \cup Earlier(w, i)
    BY <1>2 DEF Earlier
<1>6. Earlier(w, i) \subseteq Earlier(s, i + 1)
    BY <1>4 DEF Earlier
<1> QED
    BY <1>3, <1>5, <1>6

\* One part of the way after the other.
LEMMA RisingConcat ==
    ASSUME NEW S, NEW s \in Seq(S), NEW u \in Seq(S), NEW told,
           Rising(s, told), Rising(u, told \cup FreshOf(s))
    PROVE  Rising(s \o u, told)
<1> PICK w : w = s \o u
    OBVIOUS
<1>0. EarlierInBoth(w, s, u)
    BY EarlierConcat
<1>1. ASSUME NEW i \in DOMAIN w, IsFresh(w[i]), NEW v \in 1..MaxResults,
             <<w[i].to, v>> \in told \cup Earlier(w, i)
      PROVE  v < w[i].at
    <2>1. CASE i \in DOMAIN s
        <3>1. w[i] = s[i] /\ Earlier(w, i) = Earlier(s, i)
            BY <1>0, <2>1, ConcatAt DEF EarlierInBoth
        <3> QED
            BY <1>1, <2>1, <3>1 DEF Rising
    <2>2. CASE i - Len(s) \in DOMAIN u
        <3>1. PICK k \in DOMAIN u : k = i - Len(s)
            BY <2>2
        <3>2. i \in Nat /\ Len(s) \in Nat
            BY ConcatAt
        <3>3. Len(s) + k = i
            BY <3>1, <3>2
        <3>4. w[Len(s) + k] = u[k]
            BY ConcatAt
        <3>5. Earlier(w, Len(s) + k) = FreshOf(s) \cup Earlier(u, k)
            BY <1>0 DEF EarlierInBoth
        <3>6. w[i] = u[k] /\ Earlier(w, i) = FreshOf(s) \cup Earlier(u, k)
            BY <3>3, <3>4, <3>5
        <3> QED
            BY <1>1, <3>6 DEF Rising
    <2> QED
        BY <2>1, <2>2, ConcatAt
<1> QED
    BY <1>1 DEF Rising

\* One part of the way after the other.
LEMMA CoveredConcat ==
    ASSUME NEW S, NEW s \in Seq(S), NEW u \in Seq(S), NEW told, NEW listeners,
           Covered(s, told, listeners), Covered(u, told \cup FreshOf(s), listeners)
    PROVE  Covered(s \o u, told, listeners)
<1> PICK w : w = s \o u
    OBVIOUS
<1>0. EarlierInBoth(w, s, u)
    BY EarlierConcat
<1>1. ASSUME NEW i \in DOMAIN w, Success(w[i]), NEW x \in listeners
      PROVE  \E v \in 1..MaxResults : w[i].at <= v /\ <<x, v>> \in told \cup Earlier(w, i)
    <2>1. CASE i \in DOMAIN s
        <3>1. w[i] = s[i] /\ Earlier(w, i) = Earlier(s, i)
            BY <1>0, <2>1, ConcatAt DEF EarlierInBoth
        <3> QED
            BY <1>1, <2>1, <3>1 DEF Covered
    <2>2. CASE i - Len(s) \in DOMAIN u
        <3>1. PICK k \in DOMAIN u : k = i - Len(s)
            BY <2>2
        <3>2. i \in Nat /\ Len(s) \in Nat
            BY ConcatAt
        <3>3. Len(s) + k = i
            BY <3>1, <3>2
        <3>4. w[Len(s) + k] = u[k]
            BY ConcatAt
        <3>5. Earlier(w, Len(s) + k) = FreshOf(s) \cup Earlier(u, k)
            BY <1>0 DEF EarlierInBoth
        <3>6. w[i] = u[k] /\ told \cup Earlier(w, i) = told \cup FreshOf(s) \cup Earlier(u, k)
            BY <3>3, <3>4, <3>5
        <3> QED
            BY <1>1, <3>6 DEF Covered
    <2> QED
        BY <2>1, <2>2, ConcatAt
<1> QED
    BY <1>1 DEF Covered

\* What the first event told is told.
LEMMA TailOrder ==
    ASSUME NEW S, NEW s \in Seq(S), s # <<>>, NEW told, NEW listeners
    PROVE  /\ Rising(s, told) => Rising(Tail(s), told \cup FirstOf(Head(s)))
           /\ Covered(s, told, listeners) =>
                  Covered(Tail(s), told \cup FirstOf(Head(s)), listeners)
<1> PICK w : w = Tail(s)
    OBVIOUS
<1>1. \A i \in DOMAIN w : /\ i + 1 \in DOMAIN s /\ w[i] = s[i + 1]
                          /\ Earlier(s, i + 1) = FirstOf(Head(s)) \cup Earlier(w, i)
    <2>1. EarlierInRest(w, s)
        BY EarlierTail
    <2> QED
        BY <2>1 DEF EarlierInRest
<1>2. ASSUME NEW i \in DOMAIN w
      PROVE  told \cup Earlier(s, i + 1) = told \cup FirstOf(Head(s)) \cup Earlier(w, i)
    BY <1>1
<1>3. ASSUME Rising(s, told) PROVE Rising(w, told \cup FirstOf(Head(s)))
    <2> SUFFICES ASSUME NEW i \in DOMAIN w, IsFresh(w[i]), NEW v \in 1..MaxResults,
                        <<w[i].to, v>> \in told \cup FirstOf(Head(s)) \cup Earlier(w, i)
                 PROVE  v < w[i].at
        BY DEF Rising
    <2>1. i + 1 \in DOMAIN s /\ w[i] = s[i + 1] /\ <<w[i].to, v>> \in told \cup Earlier(s, i + 1)
        BY <1>1, <1>2
    <2>2. IsFresh(s[i + 1]) /\ <<s[i + 1].to, v>> \in told \cup Earlier(s, i + 1)
        BY <2>1
    <2>3. v < s[i + 1].at
        BY <1>3, <2>1, <2>2 DEF Rising
    <2> QED
        BY <2>1, <2>3
<1>4. ASSUME Covered(s, told, listeners)
      PROVE  Covered(w, told \cup FirstOf(Head(s)), listeners)
    <2> SUFFICES ASSUME NEW i \in DOMAIN w, Success(w[i]), NEW x \in listeners
                 PROVE  \E v \in 1..MaxResults :
                            /\ w[i].at <= v
                            /\ <<x, v>> \in told \cup FirstOf(Head(s)) \cup Earlier(w, i)
        BY DEF Covered
    <2>1. i + 1 \in DOMAIN s /\ w[i] = s[i + 1]
        BY <1>1
    <2>2. \E v \in 1..MaxResults : s[i + 1].at <= v /\ <<x, v>> \in told \cup Earlier(s, i + 1)
        BY <1>4, <2>1 DEF Covered
    <2> QED
        BY <1>2, <2>1, <2>2
<1> QED
    BY <1>3, <1>4

\* What tells of nothing new is in order.
LEMMA StillOrder ==
    ASSUME NEW s, Still(s), NEW told, NEW listeners
    PROVE  /\ Rising(s, told) /\ Covered(s, told, listeners)
           /\ FreshOf(s) = {} /\ DueOf(s) = {}
<1>1. \A i \in DOMAIN s : s[i] \in Range(s)
    BY DEF Range
<1>2. \A i \in DOMAIN s : ~IsFresh(s[i]) /\ ~Success(s[i])
    BY <1>1 DEF Still
<1> QED
    BY <1>2 DEF Rising, Covered, Still, FreshOf, DueOf

\* Results are newer than fewer.
LEMMA RisingLess ==
    ASSUME NEW s, NEW told, NEW fewer, fewer \subseteq told, Rising(s, told)
    PROVE  Rising(s, fewer)
BY DEF Rising

\* Successes wait for fewer listeners, of which more are told.
LEMMA CoveredMore ==
    ASSUME NEW s, NEW told, NEW more, told \subseteq more,
           NEW listeners, NEW fewer, fewer \subseteq listeners, Covered(s, told, listeners)
    PROVE  Covered(s, more, fewer)
BY DEF Covered

\* Results and successes are in order on their way.
Way(o, q, w, told, held, listeners) ==
    Ascending(o, q, w, told) /\ Supported(o, q, w, held, listeners)

\* More is known of the listeners, or there are fewer.
LEMMA WayMore ==
    ASSUME NEW o, NEW q, NEW w, NEW told, NEW held, NEW L, Way(o, q, w, told, held, L),
           NEW told2, told2 \subseteq told, NEW held2, held \subseteq held2,
           NEW L2, L2 \subseteq L
    PROVE  Way(o, q, w, told2, held2, L2)
<1>1. Rising(o, told2)
    BY RisingLess DEF Way, Ascending
<1>2. Rising(q, told2 \cup FreshOf(o))
    <2>1. told2 \cup FreshOf(o) \subseteq told \cup FreshOf(o)
        OBVIOUS
    <2> QED
        BY <2>1, RisingLess DEF Way, Ascending
<1>3. Rising(w, told2 \cup FreshOf(o) \cup FreshOf(q))
    <2>1. told2 \cup FreshOf(o) \cup FreshOf(q) \subseteq told \cup FreshOf(o) \cup FreshOf(q)
        OBVIOUS
    <2> QED
        BY <2>1, RisingLess DEF Way, Ascending
<1>4. Covered(o, held2, L2)
    BY CoveredMore DEF Way, Supported
<1>5. Covered(q, held2 \cup FreshOf(o), L2)
    <2>1. held \cup FreshOf(o) \subseteq held2 \cup FreshOf(o)
        OBVIOUS
    <2> QED
        BY <2>1, CoveredMore DEF Way, Supported
<1>6. Covered(w, held2 \cup FreshOf(o) \cup FreshOf(q), L2)
    <2>1. held \cup FreshOf(o) \cup FreshOf(q) \subseteq held2 \cup FreshOf(o) \cup FreshOf(q)
        OBVIOUS
    <2> QED
        BY <2>1, CoveredMore DEF Way, Supported
<1> QED
    BY <1>1, <1>2, <1>3, <1>4, <1>5, <1>6 DEF Way, Ascending, Supported

\* The connection's thread queues what it has in hand.
LEMMA WayQueue ==
    ASSUME NEW o, NEW q \in Seq(Event), NEW w \in Seq(Event), NEW told, NEW held, NEW L,
           Way(o, q, w, told, held, L)
    PROVE  Way(o, q \o w, <<>>, told, held, L)
<1>1. Rising(q \o w, told \cup FreshOf(o))
    BY RisingConcat DEF Way, Ascending
<1>2. Covered(q \o w, held \cup FreshOf(o), L)
    BY CoveredConcat DEF Way, Supported
<1>3. Still(<<>>)
    BY RangeSingle
<1> QED
    BY <1>1, <1>2, <1>3, StillOrder DEF Way, Ascending, Supported

\* Other events come into the queue.
LEMMA WayInsert ==
    ASSUME NEW o, NEW q \in Seq(Event), NEW w, NEW s \in Seq(Event), Still(s),
           NEW told, NEW held, NEW L, Way(o, q, w, told, held, L)
    PROVE  Way(o, q \o s, w, told, held, L)
<1>1. FreshOf(q \o s) = FreshOf(q)
    <2>1. FreshOf(s) = {}
        BY StillOrder
    <2>2. FreshOf(q \o s) = FreshOf(q) \cup FreshOf(s)
        BY RangeConcat
    <2> QED
        BY <2>1, <2>2
<1>2. Rising(s, told \cup FreshOf(o) \cup FreshOf(q)) /\ Covered(s, held \cup FreshOf(o) \cup FreshOf(q), L)
    BY StillOrder
<1>3. Rising(q \o s, told \cup FreshOf(o))
    BY <1>2, RisingConcat DEF Way, Ascending
<1>4. Covered(q \o s, held \cup FreshOf(o), L)
    BY <1>2, CoveredConcat DEF Way, Supported
<1> QED
    BY <1>1, <1>3, <1>4 DEF Way, Ascending, Supported

\* The program's thread takes the queue.
LEMMA WayPump ==
    ASSUME NEW q, NEW w, NEW told, NEW held, NEW L, Way(<<>>, q, w, told, held, L)
    PROVE  Way(q, <<>>, w, told, held, L)
<1>1. FreshOf(<<>>) = {} /\ Still(<<>>)
    BY RangeSingle
<1>2. /\ told \cup FreshOf(<<>>) = told /\ held \cup FreshOf(<<>>) = held
      /\ told \cup FreshOf(<<>>) \cup FreshOf(q) = told \cup FreshOf(q) \cup FreshOf(<<>>)
      /\ held \cup FreshOf(<<>>) \cup FreshOf(q) = held \cup FreshOf(q) \cup FreshOf(<<>>)
    BY <1>1
<1>3. /\ Rising(<<>>, told \cup FreshOf(q)) /\ Covered(<<>>, held \cup FreshOf(q), L)
    BY <1>1, StillOrder
<1> QED
    BY <1>2, <1>3 DEF Way, Ascending, Supported

\* The connection's thread collects what is in order.
LEMMA WayCollect ==
    ASSUME NEW o, NEW q, NEW w, NEW s, NEW told, NEW held, NEW L, Way(o, q, w, told, held, L),
           Rising(s, told \cup FreshOf(o) \cup FreshOf(q)),
           Covered(s, held \cup FreshOf(o) \cup FreshOf(q), L)
    PROVE  Way(o, q, s, told, held, L)
BY DEF Way, Ascending, Supported

\* The first event is told.
LEMMA WayRun ==
    ASSUME NEW o \in Seq(Event), o # <<>>, NEW q, NEW w, NEW told, NEW held, NEW L,
           Way(o, q, w, told, held, L), NEW rest, FreshOf(rest) = FreshOf(Tail(o)),
           Rising(rest, told \cup FirstOf(Head(o))) /\ Covered(rest, held \cup FirstOf(Head(o)), L)
    PROVE  Way(rest, q, w, told \cup FirstOf(Head(o)), held \cup FirstOf(Head(o)), L)
<1>1. FreshOf(o) = FirstOf(Head(o)) \cup FreshOf(Tail(o))
    <2>1. Range(o) = {Head(o)} \cup Range(Tail(o))
        BY RangeTail
    <2> QED
        BY <2>1 DEF FreshOf, FirstOf
<1>2. /\ told \cup FirstOf(Head(o)) \cup FreshOf(rest) = told \cup FreshOf(o)
      /\ held \cup FirstOf(Head(o)) \cup FreshOf(rest) = held \cup FreshOf(o)
    BY <1>1
<1> QED
    BY <1>2 DEF Way, Ascending, Supported

\* Something else comes first.
LEMMA StillFirst ==
    ASSUME NEW s \in Seq(Event), Still(s), NEW w \in Seq(Event), NEW told, NEW held, NEW L,
           Rising(w, told), Covered(w, held, L)
    PROVE  /\ FreshOf(s \o w) = FreshOf(w) /\ DueOf(s \o w) = DueOf(w)
           /\ Rising(s \o w, told) /\ Covered(s \o w, held, L)
<1>1. FreshOf(s \o w) = FreshOf(s) \cup FreshOf(w)
    BY RangeConcat
<1>2. DueOf(s \o w) = DueOf(s) \cup DueOf(w)
    BY RangeConcat
<1>3. FreshOf(s) = {} /\ DueOf(s) = {}
    BY StillOrder
<1>4. Rising(s, told) /\ Covered(s, held, L)
    BY StillOrder
<1>5. told \cup FreshOf(s) = told /\ held \cup FreshOf(s) = held
    BY <1>3
<1>6. Rising(s \o w, told)
    BY <1>4, <1>5, RisingConcat
<1>7. Covered(s \o w, held, L)
    BY <1>4, <1>5, CoveredConcat
<1> QED
    BY <1>1, <1>2, <1>3, <1>6, <1>7

\* What is left of a way whose first event has been told.
LEMMA RestOrder ==
    ASSUME NEW o \in Seq(Event), o # <<>>, NEW told, NEW held, NEW L,
           Rising(o, told), Covered(o, held, L),
           NEW rest, rest = Tail(o) \/ \E r \in Event : Still(<<r>>) /\ rest = <<r>> \o Tail(o)
    PROVE  /\ FreshOf(rest) = FreshOf(Tail(o)) /\ DueOf(rest) = DueOf(Tail(o))
           /\ Rising(rest, told \cup FirstOf(Head(o)))
           /\ Covered(rest, held \cup FirstOf(Head(o)), L)
<1>1. Tail(o) \in Seq(Event)
    BY HeadTailProperties
<1>2. Rising(Tail(o), told \cup FirstOf(Head(o)))
    BY TailOrder
<1>3. Covered(Tail(o), held \cup FirstOf(Head(o)), L)
    BY TailOrder
<1>4. CASE rest = Tail(o)
    BY <1>2, <1>3, <1>4
<1>5. ASSUME NEW r \in Event, Still(<<r>>), rest = <<r>> \o Tail(o)
      PROVE  /\ FreshOf(rest) = FreshOf(Tail(o)) /\ DueOf(rest) = DueOf(Tail(o))
             /\ Rising(rest, told \cup FirstOf(Head(o)))
             /\ Covered(rest, held \cup FirstOf(Head(o)), L)
    <2>1. <<r>> \in Seq(Event)
        OBVIOUS
    <2> QED
        BY <1>1, <1>2, <1>3, <1>5, <2>1, StillFirst
<1> QED
    BY <1>4, <1>5

\* Errors tell of nothing new.
LEMMA CompletionsStill ==
    ASSUME NEW done, IsFiniteSet(done), done \subseteq Requests,
           NEW n \in {Lost, ShutDown}, NEW c, c = Completions(done, n)
    PROVE  Still(c) /\ CachedOf(c) = {}
<1>1. n \in Lost..MaxResults \cup {ShutDown} /\ ~(n >= 1)
    BY DeliveryAssumption DEF Lost, ShutDown
<1>2. \A i \in DOMAIN c : c[i].type = "completion" /\ c[i].at = n
    BY <1>1, CompletionsAre
<1>3. \A e \in Range(c) : e.type = "completion" /\ e.at = n
    BY <1>2 DEF Range
<1>4. \A e \in Range(c) : ~IsFresh(e) /\ ~IsCached(e) /\ ~Success(e)
    BY <1>1, <1>3 DEF IsFresh, IsCached, Success
<1> QED
    BY <1>4 DEF Still, CachedOf

\* What subscribe() found is no news.
LEMMA CachedStill ==
    ASSUME NEW x
    PROVE  /\ Still(Cached(x))
           /\ x \in Subscribers /\ latest # NoResult => CachedOf(Cached(x)) = {<<x, latest>>}
           /\ latest = NoResult \/ x \notin Subscribers => CachedOf(Cached(x)) = {}
<1>1. CASE latest = NoResult
    BY <1>1, RangeSingle DEF Cached
<1>2. CASE latest # NoResult
    <2>1. PICK e : e = ResultEvent(x, latest, TRUE)
        OBVIOUS
    <2>2. e.type = "result" /\ e.to = x /\ e.at = latest /\ e.cached = TRUE
        BY <2>1 DEF ResultEvent
    <2>3. PICK s : s = Cached(x)
        OBVIOUS
    <2>4. Range(s) = {e}
        BY <1>2, <2>1, <2>3, RangeSingle DEF Cached
    <2>5. ~IsFresh(e) /\ ~Success(e) /\ (IsCached(e) <=> x \in Subscribers)
        BY <2>2 DEF IsFresh, Success, IsCached
    <2>6. Still(s)
        BY <2>4, <2>5 DEF Still
    <2>7. CachedOf(s) = IF x \in Subscribers THEN {<<x, latest>>} ELSE {}
        BY <2>2, <2>4, <2>5 DEF CachedOf
    <2> QED
        BY <1>2, <2>3, <2>6, <2>7
<1> QED
    BY <1>1, <1>2

\* A release tells of nothing new.
LEMMA ReleaseStill ==
    ASSUME NEW x \in OneShots
    PROVE  /\ [type |-> "release", to |-> x] \in Event
           /\ Still(<<[type |-> "release", to |-> x]>>)
           /\ CachedOf(<<[type |-> "release", to |-> x]>>) = {}
<1> PICK r : r = [type |-> "release", to |-> x]
    OBVIOUS
<1>1. r \in Event /\ r.type = "release"
    BY DEF Event
<1>2. ~IsFresh(r) /\ ~IsCached(r) /\ ~Success(r)
    BY <1>1 DEF IsFresh, IsCached, Success
<1>3. Range(<<r>>) = {r}
    BY RangeSingle
<1>4. Still(<<r>>) /\ CachedOf(<<r>>) = {}
    BY <1>2, <1>3 DEF Still, CachedOf
<1> QED
    BY <1>1, <1>4

\* What a callback leaves in its thread's hand.
LEMMA RunRest ==
    ASSUME TypeOK, NEW t \in Threads, Run(t)
    PROVE  \E rest \in Seq(Event) :
               /\ GoOn(t, rest)
               /\ \/ rest = Tail(hand[t])
                  \/ \E r \in Event : /\ Still(<<r>>) /\ CachedOf(<<r>>) = {}
                                      /\ rest = <<r>> \o Tail(hand[t])
<1>1. PICK e : e = Head(hand[t])
    OBVIOUS
<1>2. hand[t] # <<>> /\ e \in Event /\ Tail(hand[t]) \in Seq(Event)
    BY <1>1, HeadType DEF Run, Running
<1>3. CASE GoOn(t, Tail(hand[t]))
    BY <1>2, <1>3
<1>4. CASE e.to \in OneShots /\ GoOn(t, <<[type |-> "release", to |-> e.to]>> \o Tail(hand[t]))
    <2>1. PICK r : r = [type |-> "release", to |-> e.to]
        OBVIOUS
    <2>2. r \in Event /\ Still(<<r>>) /\ CachedOf(<<r>>) = {}
        BY <1>4, <2>1, ReleaseStill
    <2>3. <<r>> \in Seq(Event)
        BY <2>2
    <2>4. <<r>> \o Tail(hand[t]) \in Seq(Event)
        BY <1>2, <2>3, ConcatProperties
    <2> QED
        BY <1>4, <2>1, <2>2, <2>4
<1>5. GoOn(t, Tail(hand[t])) \/
          (e.to \in OneShots /\ GoOn(t, <<[type |-> "release", to |-> e.to]>> \o Tail(hand[t])))
    BY <1>1 DEF Run, CallUpdate, CallOnce, ReleaseOnce, CallDone
<1> QED
    BY <1>3, <1>4, <1>5

\* Nothing new after nothing new.
LEMMA StillConcat ==
    ASSUME NEW s \in Seq(Event), NEW u \in Seq(Event), Still(s), Still(u)
    PROVE  Still(s \o u)
<1>1. Range(s \o u) = Range(s) \cup Range(u)
    BY RangeConcat
<1> QED
    BY <1>1 DEF Still

\* What tells of nothing new goes on doing so.
LEMMA StillRest ==
    ASSUME NEW s \in Seq(Event), s # <<>>, Still(s),
           NEW rest, rest = Tail(s) \/ \E r \in Event : Still(<<r>>) /\ rest = <<r>> \o Tail(s)
    PROVE  Still(rest)
<1>1. Tail(s) \in Seq(Event)
    BY HeadTailProperties
<1>2. Still(Tail(s))
    BY RangeTail DEF Still
<1>3. ASSUME NEW r \in Event, Still(<<r>>), rest = <<r>> \o Tail(s) PROVE Still(rest)
    <2>1. <<r>> \in Seq(Event)
        OBVIOUS
    <2> QED
        BY <1>1, <1>2, <1>3, <2>1, StillConcat
<1> QED
    BY <1>2, <1>3

\* Results and successes stay where they travel.
LEMMA PlaceStep ==
    ASSUME TypeOK, TypeOK', ThreadInv, PlaceInv, [Next]_vars
    PROVE  PlaceInv'
<1>a. /\ Threads = {"user", "main", "ws", "worker", "detached"}
      /\ pc \in [Threads -> {"idle", "deliver", "pump", "join", "destroy"} \cup Listeners]
      /\ hand \in [Threads -> Seq(Event)] /\ Still(<<>>)
      /\ Lost \in {Lost, ShutDown} /\ ShutDown \in {Lost, ShutDown}
    BY Places, RangeSingle DEF TypeOK
\* A thread comes to have nothing new in hand.
<1>b. ASSUME NEW t \in Threads, NEW s, Still(s), hand' = [hand EXCEPT ![t] = s],
             t # "main" => pc'["main"] = pc["main"]
      PROVE  \A u \in Threads \ {"ws"} :
                 (u = "main" /\ pc'["main"] \in {"pump", "destroy"}) \/ Still(hand'[u])
    BY <1>a, <1>b DEF PlaceInv
<1>c. ASSUME UNCHANGED <<immediate, phase, subs>>, pc'["main"] = "pump" => pc["main"] = "pump",
             \A u \in Threads \ {"ws"} :
                 (u = "main" /\ pc'["main"] \in {"pump", "destroy"}) \/ Still(hand'[u])
      PROVE  PlaceInv'
    BY <1>c DEF PlaceInv
<1>d. ASSUME UNCHANGED <<immediate, phase, subs, pc, hand>> PROVE PlaceInv'
    BY <1>d DEF PlaceInv
<1>1. CASE Receive
    <2>1. PICK events : /\ Collect("ws", events) /\ UNCHANGED <<immediate, subs, phase>>
        BY <1>1 DEF Receive
    <2>2. \A u \in Threads \ {"ws"} : hand'[u] = hand[u] /\ pc'[u] = pc[u]
        BY <1>a, <2>1 DEF Collect
    <2> QED
        BY <1>a, <2>1, <2>2 DEF PlaceInv
<1>2. ASSUME NEW t \in {"ws", "worker"}, Disconnect(t) PROVE PlaceInv'
    <2>1. PICK lost \in SUBSET (pending \cap Actions) :
              /\ Collect(t, Completions(lost, Lost)) /\ UNCHANGED <<immediate, subs, phase>>
        BY <1>2 DEF Disconnect
    <2>2. PICK s : s = Completions(lost, Lost)
        OBVIOUS
    <2>3. Still(s)
        BY <1>a, <2>2, LostType, CompletionsStill
    <2>4. Collect(t, s)
        BY <2>1, <2>2
    <2>5. hand' = [hand EXCEPT ![t] = s] /\ pc'["main"] = pc["main"] /\ t \in Threads
        BY <1>a, <2>4 DEF Collect
    <2> QED
        BY <1>b, <1>c, <2>1, <2>3, <2>5
<1>3. CASE ProtocolError
    <2>1. PICK lost \in SUBSET (pending \cap Actions) :
              /\ IF immediate
                 THEN Collect("detached", Completions(lost, Lost))
                 ELSE UNCHANGED <<hand, pc>>
              /\ UNCHANGED <<immediate, subs, phase>>
        BY <1>3 DEF ProtocolError
    <2>2. CASE immediate
        <3>1. PICK s : s = Completions(lost, Lost)
            OBVIOUS
        <3>2. Still(s)
            BY <1>a, <3>1, LostType, CompletionsStill
        <3>3. Collect("detached", s)
            BY <2>1, <2>2, <3>1
        <3>4. /\ hand' = [hand EXCEPT !["detached"] = s] /\ pc'["main"] = pc["main"]
              /\ "detached" \in Threads
            BY <1>a, <3>3 DEF Collect
        <3> QED
            BY <1>b, <1>c, <2>1, <3>2, <3>4
    <2>3. CASE ~immediate
        BY <1>d, <2>1, <2>3
    <2> QED
        BY <2>2, <2>3
<1>4. ASSUME NEW t \in Program, NEW x \in Listeners, Subscribe(t, x) PROVE PlaceInv'
    <2>1. /\ ~stopping /\ hand' = [hand EXCEPT ![t] = Cached(x)] /\ pc' = [pc EXCEPT ![t] = x]
          /\ UNCHANGED <<immediate, phase>> /\ t \in Threads
        BY <1>4 DEF Subscribe, Threads
    <2>2. x \notin {"pump", "destroy"} /\ Still(Cached(x))
        BY Places, CachedStill
    <2>3. t # "main" => pc'["main"] = pc["main"]
        BY <1>a, <2>1
    <2>4. \A u \in Threads \ {"ws"} :
              (u = "main" /\ pc'["main"] \in {"pump", "destroy"}) \/ Still(hand'[u])
        BY <1>b, <2>1, <2>2, <2>3
    <2>5. pc'["main"] = "pump" => pc["main"] = "pump"
        BY <1>a, <2>1, <2>2
    <2> QED
        BY <2>1, <2>4, <2>5 DEF PlaceInv, stopping
<1>5. ASSUME NEW t \in Program, NEW x \in Subscribers, Unsubscribe(t, x) PROVE PlaceInv'
    <2>1. UNCHANGED <<immediate, phase, pc, hand>> /\ (stopping => subs' = subs)
        BY <1>5 DEF Unsubscribe, Release, eventVars
    <2> QED
        BY <2>1 DEF PlaceInv, stopping
<1>6. ASSUME NEW t \in Program, NEW r \in Requests, Request(t, r) PROVE PlaceInv'
    BY <1>d, <1>6 DEF Request, eventVars
<1>7. ASSUME NEW t \in Program, Subscribed(t) PROVE PlaceInv'
    <2>1. /\ pc' = [pc EXCEPT ![t] = "idle"] /\ UNCHANGED <<immediate, phase, subs, hand>>
          /\ t \in Threads /\ pc[t] \notin {"pump", "destroy"}
        BY <1>7, Places DEF Subscribed, Threads
    <2>2. /\ pc'["main"] = "pump" => pc["main"] = "pump"
          /\ pc["main"] = "destroy" => pc'["main"] = "destroy"
          /\ pc["main"] = "pump" => pc'["main"] = "pump"
        BY <1>a, <2>1
    <2> QED
        BY <2>1, <2>2 DEF PlaceInv
<1>8. ASSUME NEW t \in Threads, Enqueue(t) PROVE PlaceInv'
    <2>1. /\ hand' = [hand EXCEPT ![t] = <<>>] /\ UNCHANGED <<immediate, phase, subs>>
          /\ pc' = [pc EXCEPT ![t] = IF @ = "deliver" THEN "idle" ELSE @]
          /\ pc[t] \in {"deliver"} \cup Listeners
        BY <1>8 DEF Enqueue
    <2>2. t # "main" => pc'["main"] = pc["main"]
        BY <1>a, <2>1
    <2>3. pc'["main"] = "pump" => pc["main"] = "pump"
        BY <1>a, <2>1
    <2> QED
        BY <1>a, <1>b, <1>c, <2>1, <2>2, <2>3
<1>9. ASSUME NEW t \in Threads, Run(t) PROVE PlaceInv'
    <2>1. PICK rest \in Seq(Event) :
              /\ GoOn(t, rest)
              /\ \/ rest = Tail(hand[t])
                 \/ \E r \in Event : /\ Still(<<r>>) /\ CachedOf(<<r>>) = {}
                                     /\ rest = <<r>> \o Tail(hand[t])
        BY <1>9, RunRest
    <2>2. /\ hand' = [hand EXCEPT ![t] = rest] /\ hand[t] \in Seq(Event) /\ hand[t] # <<>>
          /\ pc' = [pc EXCEPT ![t] =
                        IF rest = <<>> /\ @ \in {"deliver", "pump"} THEN "idle" ELSE @]
          /\ UNCHANGED <<immediate, phase>> /\ (stopping => subs' = subs)
        BY <1>9, <1>a, <2>1
        DEF GoOn, Run, Running, CallUpdate, CallOnce, ReleaseOnce, CallDone, Release
    <2>3. Still(hand[t]) => Still(rest)
        BY <2>1, <2>2, StillRest
    <2>4. \A u \in Threads : u # t => hand'[u] = hand[u] /\ pc'[u] = pc[u]
        BY <1>a, <2>2
    <2>5. /\ hand'[t] = rest /\ (pc'[t] = pc[t] \/ (pc'[t] = "idle" /\ rest = <<>>))
        BY <1>a, <2>2
    <2>6. pc'["main"] = "pump" => pc["main"] = "pump"
        BY <1>a, <2>4, <2>5
    <2>7. ASSUME NEW u \in Threads \ {"ws"}
          PROVE  (u = "main" /\ pc'["main"] \in {"pump", "destroy"}) \/ Still(hand'[u])
        <3>1. CASE u # t
            <4>1. hand'[u] = hand[u] /\ (u = "main" => pc'["main"] = pc["main"])
                BY <2>4, <3>1
            <4> QED
                BY <4>1 DEF PlaceInv
        <3>2. CASE u = t
            <4>1. (t = "main" /\ pc["main"] \in {"pump", "destroy"}) \/ Still(hand[t])
                BY <3>2 DEF PlaceInv
            <4>2. CASE Still(hand[t])
                BY <2>3, <2>5, <3>2, <4>2
            <4>3. CASE t = "main" /\ pc["main"] \in {"pump", "destroy"}
                BY <1>a, <2>5, <3>2, <4>3
            <4> QED
                BY <4>1, <4>2, <4>3
        <3> QED
            BY <3>1, <3>2
    <2> QED
        BY <2>2, <2>6, <2>7 DEF PlaceInv, stopping
<1>10. ASSUME NEW t \in Threads, NEW r \in Requests, RequestRefused(t, r) PROVE PlaceInv'
    BY <1>d, <1>10 DEF RequestRefused, eventVars
<1>11. CASE Pump
    <2>1. /\ queue # <<>> /\ hand' = [hand EXCEPT !["main"] = queue]
          /\ pc' = [pc EXCEPT !["main"] = "pump"] /\ UNCHANGED <<immediate, phase, subs>>
        BY <1>11 DEF Pump
    <2>2. ~immediate
        BY <2>1 DEF ThreadInv
    <2>3. pc'["main"] = "pump" /\ \A u \in Threads : u # "main" => hand'[u] = hand[u]
        BY <1>a, <2>1
    <2> QED
        BY <2>1, <2>2, <2>3 DEF PlaceInv
<1>12. CASE BeginShutdown
    <2>1. /\ hand' = [hand EXCEPT !["main"] = Completions(pending, ShutDown)]
          /\ pc' = [pc EXCEPT !["main"] = "join"] /\ UNCHANGED immediate
          /\ phase' = "hung" \/ (phase' = "joining" /\ subs' = <<>>)
        BY <1>12 DEF BeginShutdown
    <2>2. PICK s : s = Completions(pending, ShutDown)
        OBVIOUS
    <2>3. Still(s) /\ "main" \in Threads
        BY <1>a, <2>2, CompletionsStill DEF TypeOK
    <2>4. \A u \in Threads \ {"ws"} :
              (u = "main" /\ pc'["main"] \in {"pump", "destroy"}) \/ Still(hand'[u])
        <3>1. hand' = [hand EXCEPT !["main"] = s]
            BY <2>1, <2>2
        <3> QED
            BY <1>b, <2>3, <3>1
    <2>5. pc'["main"] = "join"
        BY <1>a, <2>1
    <2> QED
        BY <2>1, <2>4, <2>5 DEF PlaceInv
<1>13. CASE Drain
    <2>1. /\ phase = "sweeping" /\ phase' = "draining"
          /\ hand' = [hand EXCEPT !["main"] = Remaining]
          /\ pc' = [pc EXCEPT !["main"] = "destroy"] /\ UNCHANGED <<immediate, subs>>
        BY <1>13 DEF Drain
    <2>2. pc'["main"] = "destroy" /\ \A u \in Threads : u # "main" => hand'[u] = hand[u]
        BY <1>a, <2>1
    <2> QED
        BY <2>1, <2>2 DEF PlaceInv
<1>14. CASE Return
    <2>1. phase = "draining" /\ UNCHANGED <<immediate, subs, pc, hand>>
        BY <1>14 DEF Return, deliveryVars, eventVars
    <2> QED
        BY <2>1 DEF PlaceInv
<1>15. CASE UNCHANGED vars
    BY <1>d, <1>15 DEF vars, eventVars
<1>16. CASE Connection \/ Join
    BY <1>16, ConnectionSteps DEF PlaceInv
<1> QED
    BY <1>1, <1>2, <1>3, <1>4, <1>5, <1>6, <1>7, <1>8, <1>9, <1>10, <1>11, <1>12, <1>13, <1>14,
       <1>15, <1>16
    DEF Next, Produce, Call, Deliver, Destroy

\* Whom the events of all threads but t tell what subscribe() found.
OthersRecall(t) == UNION {CachedOf(hand[u]) : u \in Threads \ {t}}

\* The part of one thread.
LEMMA RecalledBy ==
    ASSUME TypeOK, NEW t \in Threads, NEW s, hand' = [hand EXCEPT ![t] = s]
    PROVE  /\ Recalled = CachedOf(queue) \cup OthersRecall(t) \cup CachedOf(hand[t])
           /\ Recalled' = CachedOf(queue') \cup OthersRecall(t) \cup CachedOf(s)
<1>1. \A u \in Threads : hand'[u] = IF u = t THEN s ELSE hand[u]
    BY DEF TypeOK
<1>2. UNION {CachedOf(hand[u]) : u \in Threads} = OthersRecall(t) \cup CachedOf(hand[t])
    BY DEF OthersRecall
<1>3. UNION {CachedOf(hand'[u]) : u \in Threads} = OthersRecall(t) \cup CachedOf(s)
    BY <1>1 DEF OthersRecall
<1> QED
    BY <1>2, <1>3 DEF Recalled

\* Pairs of a subscription and a result.
LEMMA PairTypes ==
    ASSUME TypeOK
    PROVE  /\ Out \in Seq(Event)
           /\ AllTold \subseteq Subscribers \X (1..MaxResults)
           /\ Called \subseteq AllTold /\ Recalled \subseteq AllTold /\ Brought \subseteq AllTold
           /\ Settled \subseteq Subscribers \X (1..computed)
<1>1. ASSUME NEW s \in Seq(Event)
      PROVE  FreshOf(s) \cup CachedOf(s) \subseteq Subscribers \X (1..MaxResults)
    <2>1. ASSUME NEW e \in Range(s), e.type = "result"
          PROVE  e.at \in 1..MaxResults
        <3>1. e \in Event
            BY ElementOfSeq, LenProperties DEF Range
        <3> QED
            BY <2>1, <3>1 DEF Event
    <2> QED
        BY <2>1 DEF FreshOf, CachedOf, IsFresh, IsCached
<1>2. queue \in Seq(Event) /\ \A t \in Threads : hand[t] \in Seq(Event)
    BY DEF TypeOK
<1>3. "main" \in Threads /\ "ws" \in Threads /\ <<>> \in Seq(Event)
    BY Places, EmptySeq
<1>4. Out \in Seq(Event)
    BY <1>2, <1>3 DEF Out
<1>5. Brought \subseteq Subscribers \X (1..MaxResults)
    BY <1>1, <1>2, <1>3, <1>4 DEF Brought
<1>6. Recalled \subseteq Subscribers \X (1..MaxResults)
    BY <1>1, <1>2 DEF Recalled
<1> QED
    BY <1>4, <1>5, <1>6 DEF AllTold, Called, Settled

\* The first event of a way.
LEMMA FirstOrder ==
    ASSUME NEW s \in Seq(Event), s # <<>>, NEW told, NEW held, NEW L
    PROVE  /\ Rising(s, told) /\ IsFresh(Head(s)) =>
                  \A v \in 1..MaxResults : <<Head(s).to, v>> \in told => v < Head(s).at
           /\ Covered(s, held, L) /\ Success(Head(s)) =>
                  \A x \in L : \E v \in 1..MaxResults : Head(s).at <= v /\ <<x, v>> \in held
           /\ FreshOf(s) = FirstOf(Head(s)) \cup FreshOf(Tail(s))
           /\ CachedOf(s) =
                  (IF IsCached(Head(s)) THEN {<<Head(s).to, Head(s).at>>} ELSE {}) \cup CachedOf(Tail(s))
           /\ DueOf(s) = (IF Success(Head(s)) THEN {Head(s).at} ELSE {}) \cup DueOf(Tail(s))
<1>1. 1 \in DOMAIN s /\ Head(s) = s[1] /\ DOMAIN s = 1..Len(s) /\ Len(s) \in Nat
    BY TailAt
<1>2. Earlier(s, 1) = {}
    <2>1. \A k \in DOMAIN s : ~(k < 1)
        BY <1>1
    <2> QED
        BY <2>1 DEF Earlier
<1>3. ASSUME Rising(s, told), IsFresh(Head(s)), NEW v \in 1..MaxResults, <<Head(s).to, v>> \in told
      PROVE  v < Head(s).at
    BY <1>1, <1>3 DEF Rising
<1>4. ASSUME Covered(s, held, L), Success(Head(s)), NEW x \in L
      PROVE  \E v \in 1..MaxResults : Head(s).at <= v /\ <<x, v>> \in held
    <2>1. \E v \in 1..MaxResults : s[1].at <= v /\ <<x, v>> \in held \cup Earlier(s, 1)
        BY <1>1, <1>4 DEF Covered
    <2> QED
        BY <1>1, <1>2, <2>1
<1>5. Range(s) = {Head(s)} \cup Range(Tail(s))
    BY RangeTail
<1>6. FreshOf(s) = FirstOf(Head(s)) \cup FreshOf(Tail(s))
    BY <1>5 DEF FreshOf, FirstOf
<1>7. CachedOf(s) =
          (IF IsCached(Head(s)) THEN {<<Head(s).to, Head(s).at>>} ELSE {}) \cup CachedOf(Tail(s))
    BY <1>5 DEF CachedOf
<1>8. DueOf(s) = (IF Success(Head(s)) THEN {Head(s).at} ELSE {}) \cup DueOf(Tail(s))
    BY <1>5 DEF DueOf
<1> QED
    BY <1>3, <1>4, <1>6, <1>7, <1>8

\* What the successes on their way were held for.
Dues == DueOf(Out) \cup DueOf(queue) \cup DueOf(hand["ws"])

\* Results and successes are in order.
OrderInv == PlaceInv /\ BoundInv /\ RisingInv /\ LatestInv /\ EffectInv

\* The two halves of the order.
LEMMA OrderIsWay ==
    Way(Out, queue, hand["ws"], Called \cup Recalled, Settled, Live) <=>
        /\ Ascending(Out, queue, hand["ws"], Called \cup Recalled)
        /\ Supported(Out, queue, hand["ws"], Settled, Live)
BY DEF Way

\* A request ran with n: an error, or after the results it was held for.
RanInOrder(n) == n < 1 \/ (n <= computed /\ \A x \in Live : \E v \in n..MaxResults : <<x, v>> \in Settled)

\* A step that tells no subscription of anything.
LEMMA OrderKept ==
    ASSUME TypeOK, TypeOK', BoundInv, RisingInv, LatestInv, EffectInv,
           computed' = computed, latest' \in {latest, NoResult}, overtaken' = overtaken,
           \A x \in Subscribers : calls'[x] = calls[x],
           Recalled' = Recalled, Brought' = Brought, Dues' \subseteq Dues,
           Live' \subseteq Live,
           Way(Out', queue', hand'["ws"], Called \cup Recalled, Settled, Live),
           \A r \in Requests : \A n \in Range(ran'[r]) : n \in Range(ran[r]) \/ RanInOrder(n)
    PROVE  BoundInv' /\ RisingInv' /\ LatestInv' /\ EffectInv'
<1>1. Called' = Called
    BY DEF Called
<1>2. AllTold' = AllTold
    BY <1>1 DEF AllTold
<1>3. Settled' = Settled
    BY <1>1, <1>2 DEF Settled
<1>4. Way(Out', queue', hand'["ws"], Called' \cup Recalled', Settled', Live')
    BY <1>1, <1>3, WayMore
<1>5. ASSUME NEW r \in Requests, NEW n \in Range(ran'[r])
      PROVE  n <= computed /\ (n >= 1 => \A x \in Live : \E v \in n..MaxResults : <<x, v>> \in Settled)
    <2>1. n \in Lost..MaxResults \cup {ShutDown} /\ computed \in Nat
        <3>1. ran'[r] \in Seq(Lost..MaxResults \cup {ShutDown})
            BY DEF TypeOK
        <3> QED
            BY <3>1, ElementOfSeq, LenProperties, DeliveryAssumption DEF Range, TypeOK
    <2>2. CASE n \in Range(ran[r])
        BY <2>2 DEF BoundInv, EffectInv
    <2>3. CASE RanInOrder(n)
        BY <2>1, <2>3, DeliveryAssumption DEF RanInOrder, Lost, ShutDown
    <2> QED
        BY <1>5, <2>2, <2>3
<1>6. BoundInv'
    <2>1. \A p \in AllTold' : p[2] <= computed'
        BY <1>2 DEF BoundInv
    <2>2. \A n \in Dues' : n <= computed'
        BY DEF BoundInv, Dues
    <2> QED
        BY <1>5, <2>1, <2>2 DEF BoundInv, Dues
<1>7. RisingInv'
    BY <1>1, <1>4 DEF RisingInv, Way
<1>8. LatestInv'
    BY <1>2 DEF LatestInv
<1>9. EffectInv'
    BY <1>3, <1>4, <1>5 DEF EffectInv, Way
<1> QED
    BY <1>6, <1>7, <1>8, <1>9

\* The newest of the results a listener was called with.
LEMMA NewestIs ==
    ASSUME NEW s \in Seq(1..MaxResults), s # <<>>
    PROVE  Newest(s) \in Range(s) /\ \A v \in Range(s) : v <= Newest(s)
<1> MaxResults \in Nat
    BY DeliveryAssumption
<1> PICK S : S = Range(s)
    OBVIOUS
<1>1. S \subseteq 1..MaxResults /\ S # {}
    BY ElementOfSeq, LenProperties DEF Range
<1> DEFINE T == {MaxResults - i : i \in S}
<1>2. T \subseteq Nat /\ T # {}
    <2>1. PICK i \in S : TRUE
        BY <1>1
    <2>2. MaxResults - i \in T
        OBVIOUS
    <2> QED
        BY <1>1, <2>2
<1>3. PICK x \in T : \A y \in T : ~(<<y, x>> \in OpToRel(<, Nat))
    BY <1>2, NatLessThanWellFounded, WFMin
<1>4. \A y \in T : ~(y < x)
    BY <1>2, <1>3 DEF OpToRel
<1>5. PICK i \in S : x = MaxResults - i
    BY <1>3
<1>6. \A j \in S : i >= j
    <2> TAKE j \in S
    <2>1. MaxResults - j \in T
        OBVIOUS
    <2>2. i \in Nat /\ j \in Nat
        BY <1>1
    <2>3. ~(MaxResults - j < MaxResults - i)
        BY <2>1, <1>4, <1>5
    <2> QED
        BY <2>2, <2>3
<1>7. Max(S) \in S /\ \A j \in S : Max(S) >= j
    BY <1>6 DEF Max
<1>8. Max(S) \in Nat
    BY <1>1, <1>7
<1>9. Newest(s) = Max(S)
    BY DEF Newest
<1> QED
    BY <1>1, <1>7, <1>8, <1>9

\* It is called once more.
LEMMA CalledMore ==
    ASSUME NEW s \in Seq(1..MaxResults), NEW n \in 1..MaxResults, NEW u, u = Append(s, n)
    PROVE  /\ Range(u) = Range(s) \cup {n} /\ Last(u) = n
           /\ n >= Newest(s) => Newest(u) = n
<1>0. /\ MaxResults \in Nat /\ s \in Seq(1..MaxResults) /\ Len(s) \in Nat /\ DOMAIN s = 1..Len(s)
      /\ u \in Seq(1..MaxResults) /\ Len(u) = Len(s) + 1 /\ DOMAIN u = 1..(Len(s) + 1)
      /\ u[Len(s) + 1] = n /\ \A i \in DOMAIN s : u[i] = s[i]
    BY DeliveryAssumption, LenProperties, AppendProperties
<1>1. Range(u) = Range(s) \cup {n}
    BY <1>0 DEF Range
<1>2. Last(u) = n
    BY <1>0 DEF Last
<1>3. ASSUME n >= Newest(s) PROVE Newest(u) = n
    <2>1. u # <<>>
        BY <1>0
    <2>2. Newest(u) \in Range(u) /\ n <= Newest(u)
        BY <1>0, <1>1, <2>1, NewestIs
    <2>3. \A v \in Range(s) : v <= n
        <3>1. ASSUME NEW v \in Range(s) PROVE v <= n
            <4>1. s # <<>>
                BY <3>1 DEF Range
            <4>2. v <= Newest(s) /\ Newest(s) \in Range(s)
                BY <4>1, NewestIs
            <4>3. v \in 1..MaxResults /\ Newest(s) \in 1..MaxResults
                BY <4>2, ElementOfSeq, LenProperties DEF Range
            <4> QED
                BY <1>3, <4>2, <4>3
        <3> QED
            BY <3>1
    <2>4. Newest(u) \in 1..MaxResults
        BY <1>0, <2>2, ElementOfSeq DEF Range
    <2> QED
        BY <1>1, <2>2, <2>3, <2>4
<1> QED
    BY <1>1, <1>2, <1>3

\* One part of the way only.
LEMMA WayAlone ==
    ASSUME NEW w, NEW told, NEW held, NEW L
    PROVE  Way(<<>>, <<>>, w, told, held, L) <=> Rising(w, told) /\ Covered(w, held, L)
<1>1. FreshOf(<<>>) = {} /\ Still(<<>>)
    BY RangeSingle
<1>2. told \cup FreshOf(<<>>) \cup FreshOf(<<>>) = told /\ held \cup FreshOf(<<>>) \cup FreshOf(<<>>) = held
    BY <1>1
<1>3. Rising(<<>>, told) /\ Covered(<<>>, held, L)
    BY <1>1, StillOrder
<1>4. Rising(<<>>, told \cup FreshOf(<<>>)) /\ Covered(<<>>, held \cup FreshOf(<<>>), L)
    BY <1>1, StillOrder
<1> QED
    BY <1>2, <1>3, <1>4 DEF Way, Ascending, Supported

\* What subscribe() found, if it is the first event.
FoundFirst(e) == IF IsCached(e) THEN {<<e.to, e.at>>} ELSE {}

\* What running the event does to the order of those left.
Advanced(e) ==
    /\ Way(Out', queue', hand'["ws"], Called \cup Recalled \cup FirstOf(e), Settled \cup FirstOf(e), Live)
    /\ Brought = Brought' \cup FirstOf(e)
    /\ Dues' \subseteq Dues

\* What the event is, among those told before it.
Due(e) ==
    /\ IsFresh(e) => \A v \in 1..MaxResults : <<e.to, v>> \in Called \cup Recalled => v < e.at
    /\ Success(e) => RanInOrder(e.at)

\* What a thread has in hand besides what it runs.
LEMMA RunRecalls ==
    ASSUME TypeOK, NEW t \in Threads, Run(t), NEW e, e = Head(hand[t])
    PROVE  Recalled = Recalled' \cup FoundFirst(e)
<1>1. PICK rest \in Seq(Event) :
          /\ GoOn(t, rest)
          /\ \/ rest = Tail(hand[t])
             \/ \E r \in Event : /\ Still(<<r>>) /\ CachedOf(<<r>>) = {}
                                 /\ rest = <<r>> \o Tail(hand[t])
    BY RunRest
<1>2. PICK s \in Seq(Event) : s = hand[t]
    BY DEF TypeOK
<1>3. s # <<>> /\ hand' = [hand EXCEPT ![t] = rest] /\ queue' = queue /\ Tail(s) \in Seq(Event)
    BY <1>1, <1>2, HeadType DEF Run, Running, GoOn
<1>4. CachedOf(s) = FoundFirst(e) \cup CachedOf(Tail(s))
    BY <1>2, <1>3, FirstOrder DEF FoundFirst
<1>5. CachedOf(rest) = CachedOf(Tail(s))
    <2>1. ASSUME NEW r \in Event, CachedOf(<<r>>) = {}, rest = <<r>> \o Tail(s)
          PROVE  CachedOf(rest) = CachedOf(Tail(s))
        <3>0. <<r>> \in Seq(Event)
            OBVIOUS
        <3>1. PICK c \in Seq(Event) : c = <<r>>
            BY <3>0
        <3>2. PICK w \in Seq(Event) : w = Tail(s)
            BY <1>3
        <3>3. CachedOf(c \o w) = CachedOf(c) \cup CachedOf(w)
            BY RangeConcat
        <3> QED
            BY <2>1, <3>1, <3>2, <3>3
    <2> QED
        BY <1>1, <1>2, <2>1
<1>6. Recalled = CachedOf(queue) \cup OthersRecall(t) \cup CachedOf(s)
    BY <1>2, <1>3, RecalledBy
<1>7. Recalled' = CachedOf(queue') \cup OthersRecall(t) \cup CachedOf(rest)
    BY <1>3, RecalledBy
<1> QED
    BY <1>3, <1>4, <1>5, <1>6, <1>7

\* The events left are in order, and so is the one that runs.
LEMMA RunWay ==
    ASSUME TypeOK, TypeOK', ThreadInv, PlaceInv, BoundInv, RisingInv, EffectInv,
           NEW t \in Threads, Run(t), NEW e, e = Head(hand[t])
    PROVE  Advanced(e) /\ Due(e)
<1>1. PICK rest \in Seq(Event) :
          /\ GoOn(t, rest)
          /\ \/ rest = Tail(hand[t])
             \/ \E r \in Event : /\ Still(<<r>>) /\ CachedOf(<<r>>) = {}
                                 /\ rest = <<r>> \o Tail(hand[t])
    BY RunRest
<1>2. PICK s \in Seq(Event) : s = hand[t]
    BY DEF TypeOK
<1>3. /\ s # <<>> /\ hand' = [hand EXCEPT ![t] = rest] /\ queue' = queue /\ e = Head(s)
      /\ pc' = [pc EXCEPT ![t] = IF rest = <<>> /\ @ \in {"deliver", "pump"} THEN "idle" ELSE @]
      /\ pc[t] # "join" /\ (immediate \/ pc[t] \in {"pump", "destroy"})
    BY <1>1, <1>2 DEF Run, Running, GoOn
<1>4. rest = Tail(s) \/ \E r \in Event : Still(<<r>>) /\ rest = <<r>> \o Tail(s)
    BY <1>1, <1>2
<1>5. /\ Threads = {"user", "main", "ws", "worker", "detached"}
      /\ pc \in [Threads -> {"idle", "deliver", "pump", "join", "destroy"} \cup Listeners]
      /\ hand \in [Threads -> Seq(Event)]
    BY Places DEF TypeOK
<1>6. /\ \A u \in Threads : u # t => hand'[u] = hand[u] /\ pc'[u] = pc[u]
      /\ hand'[t] = rest /\ (pc'[t] = pc[t] \/ (pc'[t] = "idle" /\ rest = <<>>))
    BY <1>3, <1>5
<1>7. PICK told : told = Called \cup Recalled
    OBVIOUS
<1>8. PICK held : held = Settled
    OBVIOUS
<1>9. PICK L : L = Live
    OBVIOUS
<1>10. Way(Out, queue, hand["ws"], told, held, L)
    BY <1>7, <1>8, <1>9 DEF RisingInv, EffectInv, Way
<1>11. ASSUME Rising(s, told), Covered(s, held, L), Success(e) => e.at \in Dues
       PROVE  /\ FreshOf(rest) = FreshOf(Tail(s)) /\ DueOf(rest) \subseteq DueOf(s)
              /\ Rising(rest, told \cup FirstOf(e)) /\ Covered(rest, held \cup FirstOf(e), L)
              /\ FreshOf(s) = FirstOf(e) \cup FreshOf(rest)
              /\ Due(e)
    <2>1. /\ FreshOf(rest) = FreshOf(Tail(s)) /\ DueOf(rest) = DueOf(Tail(s))
          /\ Rising(rest, told \cup FirstOf(e)) /\ Covered(rest, held \cup FirstOf(e), L)
        BY <1>3, <1>4, <1>11, RestOrder
    <2>2. /\ IsFresh(e) => \A v \in 1..MaxResults : <<e.to, v>> \in told => v < e.at
          /\ Success(e) => \A x \in L : \E v \in 1..MaxResults : e.at <= v /\ <<x, v>> \in held
          /\ FreshOf(s) = FirstOf(e) \cup FreshOf(Tail(s))
        BY <1>3, <1>11, FirstOrder
    <2>3. DueOf(s) = (IF Success(e) THEN {e.at} ELSE {}) \cup DueOf(Tail(s))
        BY <1>3, FirstOrder
    <2>4. Success(e) => RanInOrder(e.at)
        <3>1. Success(e) => e.at <= computed
            BY <1>11 DEF BoundInv, Dues
        <3>2. e \in Event /\ (Success(e) => e.at \in Int)
            <4>1. e \in Event
                BY <1>2, <1>3, HeadTailProperties
            <4> QED
                BY <4>1, DeliveryAssumption DEF Event, Success, Lost, ShutDown
        <3> QED
            BY <2>2, <3>1, <3>2, <1>8, <1>9, DeliveryAssumption DEF RanInOrder
    <2> QED
        BY <2>1, <2>2, <2>3, <2>4, <1>7 DEF Due
<1>12. CASE t = "main" /\ pc["main"] \in {"pump", "destroy"}
    <2>1. Out = s /\ Out' = rest /\ hand'["ws"] = hand["ws"]
        BY <1>2, <1>5, <1>6, <1>12 DEF Out
    <2>2. Rising(s, told) /\ Covered(s, held, L)
        BY <1>10, <2>1 DEF Way, Ascending, Supported
    <2>3. Success(e) => e.at \in Dues
        <3>1. Success(e) => e.at \in DueOf(s)
            BY <1>3, FirstOrder
        <3> QED
            BY <2>1, <3>1 DEF Dues
    <2>4. /\ FreshOf(rest) = FreshOf(Tail(s)) /\ DueOf(rest) \subseteq DueOf(s)
          /\ Rising(rest, told \cup FirstOf(e)) /\ Covered(rest, held \cup FirstOf(e), L)
          /\ FreshOf(s) = FirstOf(e) \cup FreshOf(rest)
          /\ Due(e)
        BY <1>11, <2>2, <2>3
    <2>5. Way(rest, queue, hand["ws"], told \cup FirstOf(e), held \cup FirstOf(e), L)
        BY <1>3, <1>10, <2>1, <2>4, WayRun
    <2>6. Way(Out', queue', hand'["ws"], Called \cup Recalled \cup FirstOf(e), Settled \cup FirstOf(e), Live)
        BY <1>3, <1>7, <1>8, <1>9, <2>1, <2>5
    <2>7. Brought = Brought' \cup FirstOf(e)
        BY <1>3, <2>1, <2>4 DEF Brought
    <2>8. Dues' \subseteq Dues
        BY <1>3, <2>1, <2>4 DEF Dues
    <2> QED
        BY <2>4, <2>6, <2>7, <2>8 DEF Advanced
<1>13. CASE t = "ws"
    <2>1. immediate /\ queue = <<>>
        <3>1. pc["ws"] \notin {"pump", "destroy"}
            BY Places DEF ThreadInv
        <3>2. immediate
            BY <1>3, <1>13, <3>1
        <3> QED
            BY <3>2 DEF ThreadInv
    <2>2. pc["main"] \notin {"pump", "destroy"}
        <3>1. phase \in {"draining", "returned"} => hand["ws"] = <<>>
            BY DEF ThreadInv
        <3>2. phase \notin {"draining", "returned"}
            BY <1>2, <1>3, <1>13, <3>1
        <3>3. pc["main"] # "destroy"
            BY <3>2, Places DEF ThreadInv, TypeOK
        <3> QED
            BY <2>1, <3>3 DEF PlaceInv
    <2>3. Out = <<>> /\ Out' = <<>> /\ hand["ws"] = s /\ hand'["ws"] = rest /\ queue' = <<>>
        BY <1>2, <1>3, <1>5, <1>6, <1>13, <2>1, <2>2 DEF Out
    <2>4. Rising(s, told) /\ Covered(s, held, L)
        BY <1>10, <2>1, <2>3, WayAlone
    <2>5. Success(e) => e.at \in Dues
        <3>1. Success(e) => e.at \in DueOf(s)
            BY <1>3, FirstOrder
        <3> QED
            BY <2>3, <3>1 DEF Dues
    <2>6. /\ FreshOf(rest) = FreshOf(Tail(s)) /\ DueOf(rest) \subseteq DueOf(s)
          /\ Rising(rest, told \cup FirstOf(e)) /\ Covered(rest, held \cup FirstOf(e), L)
          /\ FreshOf(s) = FirstOf(e) \cup FreshOf(rest)
          /\ Due(e)
        BY <1>11, <2>4, <2>5
    <2>7. Way(<<>>, <<>>, rest, told \cup FirstOf(e), held \cup FirstOf(e), L)
        BY <2>6, WayAlone
    <2>8. Way(Out', queue', hand'["ws"], Called \cup Recalled \cup FirstOf(e), Settled \cup FirstOf(e), Live)
        BY <1>7, <1>8, <1>9, <2>3, <2>7
    <2>9. Brought = Brought' \cup FirstOf(e)
        BY <2>1, <2>3, <2>6 DEF Brought
    <2>10. Dues' \subseteq Dues
        BY <2>1, <2>3, <2>6 DEF Dues
    <2> QED
        BY <2>6, <2>8, <2>9, <2>10 DEF Advanced
<1>14. CASE t # "ws" /\ ~(t = "main" /\ pc["main"] \in {"pump", "destroy"})
    <2>1. Still(s)
        BY <1>2, <1>14 DEF PlaceInv
    <2>2. ~IsFresh(e) /\ ~Success(e) /\ FirstOf(e) = {}
        <3>1. e \in Range(s)
            BY <1>3, RangeTail
        <3> QED
            BY <2>1, <3>1 DEF Still, FirstOf
    <2>3. Out' = Out /\ hand'["ws"] = hand["ws"]
        <3>1. hand'["ws"] = hand["ws"]
            BY <1>5, <1>6, <1>14
        <3>2. CASE t = "main"
            <4>1. pc'["main"] \notin {"pump", "destroy"} /\ pc["main"] \notin {"pump", "destroy"}
                BY <1>6, <1>14, <3>2
            <4> QED
                BY <3>1, <4>1 DEF Out
        <3>3. CASE t # "main"
            <4>1. pc'["main"] = pc["main"] /\ hand'["main"] = hand["main"]
                BY <1>5, <1>6, <3>3
            <4> QED
                BY <3>1, <4>1 DEF Out
        <3> QED
            BY <3>2, <3>3
    <2>4. Way(Out', queue', hand'["ws"], Called \cup Recalled \cup FirstOf(e), Settled \cup FirstOf(e), Live)
        <3>1. Called \cup Recalled \cup FirstOf(e) = told /\ Settled \cup FirstOf(e) = held
            BY <1>7, <1>8, <2>2
        <3> QED
            BY <1>3, <1>9, <1>10, <2>3, <3>1
    <2>5. Brought = Brought' \cup FirstOf(e)
        BY <1>3, <2>2, <2>3 DEF Brought
    <2>6. Dues' \subseteq Dues
        BY <1>3, <2>3 DEF Dues
    <2> QED
        BY <2>2, <2>4, <2>5, <2>6 DEF Advanced, Due
<1> QED
    BY <1>12, <1>13, <1>14

\* A subscription is called.
LEMMA CallOrder ==
    ASSUME TypeOK, TypeOK', ThreadInv, OrderInv,
           NEW t \in Threads, Run(t), NEW e, e = Head(hand[t]), CallUpdate(t, e)
    PROVE  BoundInv' /\ RisingInv' /\ LatestInv' /\ EffectInv'
<1>1. /\ e.type = "result" /\ e.to \in Subscribers /\ e \in Event
      /\ calls' = [calls EXCEPT ![e.to] = Append(@, e.at)]
      /\ overtaken' = IF e.cached /\ e.at < Newest(calls[e.to]) THEN overtaken \cup {e.to}
                      ELSE overtaken \ {e.to}
      /\ UNCHANGED <<subs, ran, latest, computed>>
    BY HeadType DEF CallUpdate, Run, Running
<1>2. PICK x \in Subscribers : x = e.to
    BY <1>1
<1>3. PICK n \in 1..MaxResults : n = e.at
    BY <1>1 DEF Event
<1>4. PICK p : p = <<x, n>>
    OBVIOUS
<1>5. /\ calls \in [Listeners -> Seq(1..MaxResults)] /\ computed \in Nat /\ MaxResults \in Nat
      /\ x \in Listeners /\ Subscribers \subseteq Listeners
    BY DeliveryAssumption DEF TypeOK, Listeners
<1>6. Advanced(e) /\ Due(e)
    BY RunWay DEF OrderInv
<1>7. Recalled = Recalled' \cup FoundFirst(e)
    BY RunRecalls
<1>8. \/ IsFresh(e) /\ FirstOf(e) = {p} /\ FoundFirst(e) = {}
      \/ ~IsFresh(e) /\ e.cached /\ FirstOf(e) = {} /\ FoundFirst(e) = {p}
    <2>1. e.cached \in BOOLEAN
        BY <1>1 DEF Event
    <2> QED
        BY <1>1, <1>2, <1>3, <1>4, <2>1 DEF FirstOf, FoundFirst, IsFresh, IsCached
<1>9. /\ Range(calls'[x]) = Range(calls[x]) \cup {n} /\ Last(calls'[x]) = n
      /\ n >= Newest(calls[x]) => Newest(calls'[x]) = n
      /\ \A y \in Listeners : y # x => calls'[y] = calls[y]
    <2>1. calls' = [calls EXCEPT ![x] = Append(calls[x], n)]
        BY <1>1, <1>2, <1>3
    <2>2. calls'[x] = Append(calls[x], n) /\ \A y \in Listeners : y # x => calls'[y] = calls[y]
        BY <1>5, <2>1
    <2>3. calls[x] \in Seq(1..MaxResults)
        BY <1>5
    <2> QED
        BY <2>2, <2>3, CalledMore
<1>10. Called' = Called \cup {p}
    <2>1. p \in Subscribers \X (1..MaxResults) /\ p[1] = x /\ p[2] = n
        BY <1>4
    <2>2. ASSUME NEW q \in Subscribers \X (1..MaxResults)
          PROVE  q[2] \in Range(calls'[q[1]]) <=> q[2] \in Range(calls[q[1]]) \/ q = p
        <3>1. CASE q[1] = x
            <4>1. q = p <=> q[2] = n
                BY <1>4, <3>1
            <4> QED
                BY <1>9, <3>1, <4>1
        <3>2. CASE q[1] # x
            <4>1. calls'[q[1]] = calls[q[1]] /\ q # p
                BY <1>5, <1>9, <2>1, <3>2
            <4> QED
                BY <4>1
        <3> QED
            BY <3>1, <3>2
    <2> QED
        BY <2>1, <2>2 DEF Called
<1>11. AllTold' = AllTold
    BY <1>6, <1>7, <1>8, <1>10 DEF AllTold, Advanced
<1>12. /\ \A q \in AllTold : q[2] <= computed
       /\ \A d \in Dues : d <= computed
    BY DEF OrderInv, BoundInv, Dues
<1>13. p \in AllTold /\ p[1] = x /\ p[2] = n /\ n <= computed
    <2>1. p \in AllTold
        BY <1>10, <1>11 DEF AllTold
    <2> QED
        BY <1>4, <1>12, <2>1
<1>14. Settled \subseteq Settled' /\ p \in Settled'
    <2>1. ASSUME NEW q \in Settled PROVE q \in Settled'
        BY <1>1, <1>10, <1>11 DEF Settled
    <2>2. p \in Settled'
        <3>1. p \in Subscribers \X (1..computed')
            BY <1>1, <1>4, <1>5, <1>13
        <3>2. n \in n..MaxResults /\ <<x, n>> \in Called'
            BY <1>4, <1>10
        <3> QED
            BY <1>13, <3>1, <3>2 DEF Settled
    <2> QED
        BY <2>1, <2>2
<1>15. Called' \cup Recalled' \subseteq Called \cup Recalled \cup FirstOf(e)
    BY <1>7, <1>8, <1>10
<1>16. Live' = Live
    BY <1>1 DEF Live
<1>17. Way(Out', queue', hand'["ws"], Called' \cup Recalled', Settled', Live')
    <2>1. Settled \cup FirstOf(e) \subseteq Settled'
        BY <1>8, <1>14
    <2>2. Live' \subseteq Live
        BY <1>16
    <2>3. Way(Out', queue', hand'["ws"], Called \cup Recalled \cup FirstOf(e), Settled \cup FirstOf(e), Live)
        BY <1>6 DEF Advanced
    <2> QED
        BY <1>15, <2>1, <2>2, <2>3, WayMore
<1>18. BoundInv'
    <2>1. \A d \in Dues' : d <= computed'
        BY <1>1, <1>6, <1>12 DEF Advanced
    <2>2. \A q \in AllTold' : q[2] <= computed'
        BY <1>1, <1>11, <1>12
    <2>3. \A r \in Requests : \A v \in Range(ran'[r]) : v <= computed'
        BY <1>1 DEF OrderInv, BoundInv
    <2> QED
        BY <2>1, <2>2, <2>3 DEF BoundInv, Dues
<1>19. RisingInv'
    <2>1. ASSUME NEW q \in Recalled', NEW r \in Called' \cup Recalled', q[1] = r[1]
          PROVE  q[2] <= r[2]
        <3>1. q \in Recalled
            BY <1>7
        <3>2. CASE r \in Called \cup Recalled
            BY <2>1, <3>1, <3>2 DEF OrderInv, RisingInv
        <3>3. CASE r = p /\ IsFresh(e)
            <4>1. q \in Subscribers \X (1..MaxResults)
                BY <3>1, PairTypes
            <4>2. q = <<x, q[2]>> /\ q[2] \in 1..MaxResults
                BY <1>13, <2>1, <3>3, <4>1
            <4>3. q[2] < e.at
                BY <1>2, <1>6, <3>1, <3>3, <4>2 DEF Due
            <4> QED
                BY <1>3, <1>13, <3>3, <4>2, <4>3
        <3> QED
            BY <1>7, <1>8, <1>10, <2>1, <3>2, <3>3
    <2> QED
        BY <1>17, <2>1 DEF RisingInv, Way
<1>20. LatestInv'
    <2>1. latest' # NoResult => \A y \in Live' : <<y, latest'>> \in AllTold'
        BY <1>1, <1>11, <1>16 DEF OrderInv, LatestInv
    <2>2. ASSUME NEW y \in Subscribers
          PROVE  calls'[y] = <<>> \/ Last(calls'[y]) = Newest(calls'[y]) \/ y \in overtaken'
        <3>1. CASE y # x
            <4>1. calls'[y] = calls[y] /\ (y \in overtaken => y \in overtaken')
                BY <1>1, <1>2, <1>5, <1>9, <3>1
            <4> QED
                BY <4>1 DEF OrderInv, LatestInv
        <3>2. CASE y = x /\ ~(n >= Newest(calls[x]))
            <4>1. n < Newest(calls[x]) /\ calls[x] # <<>>
                <5>1. calls[x] = <<>> => Newest(calls[x]) = 0
                    BY DEF Newest, NoResult
                <5>2. calls[x] # <<>>
                    BY <1>5, <3>2, <5>1
                <5>3. Newest(calls[x]) \in Range(calls[x])
                    BY <1>5, <5>2, NewestIs
                <5>4. Newest(calls[x]) \in 1..MaxResults
                    BY <1>5, <5>3, ElementOfSeq, LenProperties DEF Range
                <5> QED
                    BY <3>2, <5>2, <5>4
            <4>2. ~IsFresh(e)
                <5>1. Newest(calls[x]) \in Range(calls[x])
                    BY <1>5, <4>1, NewestIs
                <5>2. Newest(calls[x]) \in 1..MaxResults
                    BY <1>5, <5>1, ElementOfSeq, LenProperties DEF Range
                <5>3. <<x, Newest(calls[x])>> \in Called
                    BY <5>1, <5>2 DEF Called
                <5>4. IsFresh(e) => Newest(calls[x]) < n
                    BY <1>2, <1>3, <1>6, <5>2, <5>3 DEF Due
                <5> QED
                    BY <3>2, <5>2, <5>4
            <4>3. e.cached
                BY <1>8, <4>2
            <4> QED
                BY <1>1, <1>2, <1>3, <3>2, <4>1, <4>3
        <3>3. CASE y = x /\ n >= Newest(calls[x])
            BY <1>9, <3>3
        <3> QED
            BY <3>1, <3>2, <3>3
    <2> QED
        BY <2>1, <2>2 DEF LatestInv
<1>21. EffectInv'
    <2>1. ASSUME NEW r \in Requests, NEW v \in Range(ran'[r]), v >= 1, NEW y \in Live'
          PROVE  \E u \in v..MaxResults : <<y, u>> \in Settled'
        BY <1>1, <1>14, <1>16, <2>1 DEF OrderInv, EffectInv
    <2> QED
        BY <1>17, <2>1 DEF EffectInv, Way
<1> QED
    BY <1>18, <1>19, <1>20, <1>21

\* A callback runs.
LEMMA RunOrder ==
    ASSUME TypeOK, TypeOK', ThreadInv, SubsInv, OrderInv, NEW t \in Threads, Run(t)
    PROVE  BoundInv' /\ RisingInv' /\ LatestInv' /\ EffectInv'
<1>1. PICK e : e = Head(hand[t])
    OBVIOUS
<1>2. CASE CallUpdate(t, e)
    BY <1>1, <1>2, CallOrder
<1>3. CASE ~CallUpdate(t, e)
    <2>1. CallOnce(t, e) \/ ReleaseOnce(t, e) \/ CallDone(t, e)
        BY <1>1, <1>3 DEF Run
    <2>2. e \in Event /\ UNCHANGED <<latest, computed>>
        BY <1>1, HeadType DEF Run, Running
    <2>3. Advanced(e) /\ Due(e)
        BY <1>1, RunWay DEF OrderInv
    <2>4. Recalled = Recalled' \cup FoundFirst(e)
        BY <1>1, RunRecalls
    <2>5. FirstOf(e) = {} /\ FoundFirst(e) = {}
        <3>1. e.type # "result" \/ e.to \notin Subscribers
            BY <2>1, DeliveryAssumption DEF CallOnce, ReleaseOnce, CallDone
        <3> QED
            BY <3>1 DEF FirstOf, FoundFirst, IsFresh, IsCached
    <2>6. overtaken' = overtaken /\ \A x \in Subscribers : calls'[x] = calls[x]
        <3>1. CASE CallOnce(t, e)
            <4>1. /\ overtaken' = overtaken /\ e.to \in OneShots
                  /\ calls' = calls \/ calls' = [calls EXCEPT ![e.to] = Append(@, e.at)]
                BY <3>1 DEF CallOnce
            <4>2. \A x \in Subscribers : x # e.to /\ x \in Listeners
                BY <4>1, DeliveryAssumption DEF Listeners
            <4> QED
                BY <4>1, <4>2 DEF TypeOK
        <3>2. CASE ReleaseOnce(t, e) \/ CallDone(t, e)
            BY <3>2 DEF ReleaseOnce, CallDone
        <3> QED
            BY <2>1, <3>1, <3>2
    <2>7. Live' \subseteq Live
        <3>1. subs' = subs \/ \E x : subs' = Without(x)
            BY <2>1 DEF CallOnce, ReleaseOnce, CallDone, Release
        <3>2. ASSUME NEW x, subs' = Without(x) PROVE Range(subs') \subseteq Range(subs)
            BY <3>2, WithoutOne DEF TypeOK, SubsInv, OnePlace
        <3> QED
            BY <3>1, <3>2 DEF Live
    <2>8. ASSUME NEW r \in Requests, NEW n \in Range(ran'[r])
          PROVE  n \in Range(ran[r]) \/ RanInOrder(n)
        <3>1. CASE ~CallDone(t, e)
            BY <2>1, <2>8, <3>1 DEF CallOnce, ReleaseOnce
        <3>2. CASE CallDone(t, e)
            <4>1. e.type = "completion" /\ ran' = [ran EXCEPT ![e.to] = Append(@, e.at)]
                BY <3>2 DEF CallDone
            <4>2. e.to \in Requests /\ e.at \in Lost..MaxResults \cup {ShutDown}
                BY <2>2, <4>1 DEF Event
            <4>3. RanInOrder(e.at)
                <5>1. e.at \in Int
                    BY <4>2, DeliveryAssumption DEF Lost, ShutDown
                <5> QED
                    BY <2>3, <4>1, <5>1 DEF Due, Success, RanInOrder
            <4>4. CASE r # e.to
                BY <2>8, <4>1, <4>4 DEF TypeOK
            <4>5. CASE r = e.to
                <5>1. ran'[r] = Append(ran[r], e.at) /\ ran[r] \in Seq(Lost..MaxResults \cup {ShutDown})
                    BY <4>1, <4>5 DEF TypeOK
                <5>2. Range(Append(ran[r], e.at)) \subseteq Range(ran[r]) \cup {e.at}
                    BY <4>2, <5>1, AppendProperties, LenProperties DEF Range
                <5> QED
                    BY <2>8, <4>3, <5>1, <5>2
            <4> QED
                BY <4>4, <4>5
        <3> QED
            BY <3>1, <3>2
    <2>9. /\ Recalled' = Recalled /\ Brought' = Brought /\ Dues' \subseteq Dues
          /\ Way(Out', queue', hand'["ws"], Called \cup Recalled, Settled, Live)
        <3>1. Called \cup Recalled \cup FirstOf(e) = Called \cup Recalled /\ Settled \cup FirstOf(e) = Settled
            BY <2>5
        <3> QED
            BY <2>3, <2>4, <2>5, <3>1 DEF Advanced
    <2>10. BoundInv /\ RisingInv /\ LatestInv /\ EffectInv
        BY DEF OrderInv
    <2> QED
        BY <2>2, <2>6, <2>7, <2>8, <2>9, <2>10, OrderKept
<1> QED
    BY <1>2, <1>3

\* Results that come after those told are newer than them.
LEMMA FreshNewer ==
    ASSUME NEW s, NEW told, Rising(s, told), NEW x, NEW n, <<x, n>> \in FreshOf(s),
           NEW v \in 1..MaxResults, <<x, v>> \in told
    PROVE  v < n
<1>1. PICK e \in Range(s) : IsFresh(e) /\ <<e.to, e.at>> = <<x, n>>
    BY DEF FreshOf
<1>2. PICK j \in DOMAIN s : s[j] = e
    BY DEF Range
<1> QED
    BY <1>1, <1>2 DEF Rising

\* Someone of whom nothing is on the way is told of something.
LEMMA RisingNew ==
    ASSUME NEW s, NEW told, Rising(s, told), NEW x, \A v : <<x, v>> \notin FreshOf(s),
           NEW told2, \A y, v : <<y, v>> \in told2 => <<y, v>> \in told \/ y = x
    PROVE  Rising(s, told2)
<1>1. ASSUME NEW i \in DOMAIN s, IsFresh(s[i]), NEW v \in 1..MaxResults,
             <<s[i].to, v>> \in told2 \cup Earlier(s, i)
      PROVE  v < s[i].at
    <2>1. <<s[i].to, s[i].at>> \in FreshOf(s)
        BY <1>1, EarlierIs
    <2>2. s[i].to # x
        BY <2>1
    <2>3. <<s[i].to, v>> \in told \cup Earlier(s, i)
        BY <1>1, <2>2
    <2> QED
        BY <1>1, <2>3 DEF Rising
<1> QED
    BY <1>1 DEF Rising

\* Successes wait for one more listener, of which that much is known.
LEMMA CoveredNew ==
    ASSUME NEW s, NEW held, NEW L, Covered(s, held, L), NEW held2, held \subseteq held2,
           NEW x, \A n \in DueOf(s) : \E v \in 1..MaxResults : n <= v /\ <<x, v>> \in held2
    PROVE  Covered(s, held2, L \cup {x})
<1>1. ASSUME NEW i \in DOMAIN s, Success(s[i]), NEW y \in L \cup {x}
      PROVE  \E v \in 1..MaxResults : s[i].at <= v /\ <<y, v>> \in held2 \cup Earlier(s, i)
    <2>1. CASE y \in L
        BY <1>1, <2>1 DEF Covered
    <2>2. CASE y = x
        <3>1. s[i].at \in DueOf(s)
            BY <1>1 DEF DueOf, Range
        <3> QED
            BY <2>2, <3>1
    <2> QED
        BY <2>1, <2>2
<1> QED
    BY <1>1 DEF Covered

\* Someone new subscribes.
LEMMA WayNew ==
    ASSUME NEW o, NEW q, NEW w, NEW told, NEW held, NEW L, Way(o, q, w, told, held, L), NEW x,
           \A v : <<x, v>> \notin FreshOf(o) \cup FreshOf(q) \cup FreshOf(w),
           NEW told2, \A y, v : <<y, v>> \in told2 => <<y, v>> \in told \/ y = x,
           NEW held2, held \subseteq held2,
           \A n \in DueOf(o) \cup DueOf(q) \cup DueOf(w) :
               \E v \in 1..MaxResults : n <= v /\ <<x, v>> \in held2
    PROVE  Way(o, q, w, told2, held2, L \cup {x})
<1>1. Rising(o, told2)
    BY RisingNew DEF Way, Ascending
<1>2. Rising(q, told2 \cup FreshOf(o))
    <2>1. \A y, v : <<y, v>> \in told2 \cup FreshOf(o) => <<y, v>> \in told \cup FreshOf(o) \/ y = x
        OBVIOUS
    <2>2. Rising(q, told \cup FreshOf(o)) /\ \A v : <<x, v>> \notin FreshOf(q)
        BY DEF Way, Ascending
    <2> QED
        BY <2>1, <2>2, RisingNew
<1>3. Rising(w, told2 \cup FreshOf(o) \cup FreshOf(q))
    <2>1. \A y, v : <<y, v>> \in told2 \cup FreshOf(o) \cup FreshOf(q)
                        => <<y, v>> \in told \cup FreshOf(o) \cup FreshOf(q) \/ y = x
        OBVIOUS
    <2>2. Rising(w, told \cup FreshOf(o) \cup FreshOf(q)) /\ \A v : <<x, v>> \notin FreshOf(w)
        BY DEF Way, Ascending
    <2> QED
        BY <2>1, <2>2, RisingNew
<1>4. Covered(o, held2, L \cup {x})
    BY CoveredNew DEF Way, Supported
<1>5. Covered(q, held2 \cup FreshOf(o), L \cup {x})
    <2>1. Covered(q, held \cup FreshOf(o), L) /\ held \cup FreshOf(o) \subseteq held2 \cup FreshOf(o)
        BY DEF Way, Supported
    <2>2. \A n \in DueOf(q) : \E v \in 1..MaxResults : n <= v /\ <<x, v>> \in held2 \cup FreshOf(o)
        OBVIOUS
    <2> QED
        BY <2>1, <2>2, CoveredNew
<1>6. Covered(w, held2 \cup FreshOf(o) \cup FreshOf(q), L \cup {x})
    <2>1. /\ Covered(w, held \cup FreshOf(o) \cup FreshOf(q), L)
          /\ held \cup FreshOf(o) \cup FreshOf(q) \subseteq held2 \cup FreshOf(o) \cup FreshOf(q)
        BY DEF Way, Supported
    <2>2. \A n \in DueOf(w) :
              \E v \in 1..MaxResults : n <= v /\ <<x, v>> \in held2 \cup FreshOf(o) \cup FreshOf(q)
        OBVIOUS
    <2> QED
        BY <2>1, <2>2, CoveredNew
<1> QED
    BY <1>1, <1>2, <1>3, <1>4, <1>5, <1>6 DEF Way, Ascending, Supported

\* Nothing is known of a listener before it subscribes.
LEMMA Unheard ==
    ASSUME TypeOK, SubsInv, NEW x \in Subscribers, x \notin made
    PROVE  \A v : <<x, v>> \notin AllTold
<1>0. x \in Listeners /\ "main" \in Threads /\ "ws" \in Threads
    BY Places DEF Listeners
<1>1. calls[x] = <<>> /\ x \notin Expecting
    BY <1>0 DEF SubsInv
<1>2. ASSUME NEW s \in Seq(Event), x \notin To(s, "result"), NEW v
      PROVE  <<x, v>> \notin FreshOf(s) \cup CachedOf(s)
    BY <1>2 DEF FreshOf, CachedOf, IsFresh, IsCached, Range, To
<1>3. /\ queue \in Seq(Event) /\ x \notin To(queue, "result")
      /\ \A t \in Threads : hand[t] \in Seq(Event) /\ x \notin To(hand[t], "result")
    BY <1>1 DEF TypeOK, Expecting, Sent
<1>4. ASSUME NEW v PROVE <<x, v>> \notin Called
    <2>1. Range(<<>>) = {}
        BY RangeSingle
    <2> QED
        BY <1>1, <2>1 DEF Called
<1>5. ASSUME NEW v PROVE <<x, v>> \notin Recalled
    BY <1>2, <1>3 DEF Recalled
<1>6. ASSUME NEW v PROVE <<x, v>> \notin Brought
    <2>1. Out = hand["main"] \/ Out = <<>>
        BY DEF Out
    <2>2. FreshOf(<<>>) = {}
        BY RangeSingle
    <2>3. <<x, v>> \notin FreshOf(Out)
        BY <1>0, <1>2, <1>3, <2>1, <2>2
    <2> QED
        BY <1>0, <1>2, <1>3, <2>3 DEF Brought
<1> QED
    BY <1>4, <1>5, <1>6 DEF AllTold

\* Successes on their way were held for results.
LEMMA DuesType ==
    ASSUME TypeOK, NEW n \in Dues
    PROVE  n \in Int /\ n >= 1
<1>1. ASSUME NEW s \in Seq(Event), n \in DueOf(s) PROVE n \in Int /\ n >= 1
    <2>1. PICK e \in Range(s) : Success(e) /\ e.at = n
        BY <1>1 DEF DueOf
    <2>2. e \in Event
        BY ElementOfSeq, LenProperties DEF Range
    <2> QED
        BY <2>1, <2>2, DeliveryAssumption DEF Success, Event, Lost, ShutDown
<1>2. Out \in Seq(Event) /\ queue \in Seq(Event) /\ hand["ws"] \in Seq(Event)
    BY Places, PairTypes DEF TypeOK
<1> QED
    BY <1>1, <1>2 DEF Dues

\* subscribe() takes its place after all that is on the way.
LEMMA SubscribeOrder ==
    ASSUME TypeOK, TypeOK', ThreadInv, SubsInv, OrderInv,
           NEW t \in Program, NEW x \in Listeners, Subscribe(t, x)
    PROVE  BoundInv' /\ RisingInv' /\ LatestInv' /\ EffectInv'
<1>1. /\ Idle(t) /\ x \notin made /\ t \in Threads
      /\ subs' = Append(subs, x) /\ hand' = [hand EXCEPT ![t] = Cached(x)]
      /\ pc' = [pc EXCEPT ![t] = x]
      /\ UNCHANGED <<latest, computed, queue, calls, ran, overtaken>>
    BY DEF Subscribe, Threads
<1>2. /\ computed \in Nat /\ MaxResults \in Nat /\ computed <= MaxResults /\ latest \in {NoResult, computed}
      /\ subs \in Seq(Listeners) /\ Threads = {"user", "main", "ws", "worker", "detached"}
      /\ pc \in [Threads -> {"idle", "deliver", "pump", "join", "destroy"} \cup Listeners]
      /\ hand \in [Threads -> Seq(Event)]
    BY Places, DeliveryAssumption DEF TypeOK
<1>3. Out' = Out /\ hand'["ws"] = hand["ws"]
    <2>1. x \notin {"pump", "destroy"} /\ t # "ws"
        BY Places DEF Program
    <2>2. hand'["ws"] = hand["ws"]
        BY <1>1, <1>2, <2>1
    <2>3. CASE t = "main"
        <3>1. pc["main"] \notin {"pump", "destroy"} /\ pc'["main"] \notin {"pump", "destroy"}
            BY <1>1, <1>2, <2>1, <2>3 DEF Idle
        <3> QED
            BY <2>2, <3>1 DEF Out
    <2>4. CASE t # "main"
        <3>1. pc'["main"] = pc["main"] /\ hand'["main"] = hand["main"]
            BY <1>1, <1>2, <2>4
        <3> QED
            BY <2>2, <3>1 DEF Out
    <2> QED
        BY <2>3, <2>4
<1>4. Range(subs') = Range(subs) \cup {x}
    <2>1. subs' = subs \o <<x>> /\ <<x>> \in Seq(Listeners)
        BY <1>1, <1>2, AppendIsConcat
    <2>2. PICK c \in Seq(Listeners) : c = <<x>>
        BY <2>1
    <2>3. Range(subs \o c) = Range(subs) \cup Range(c)
        BY <1>2, RangeConcat
    <2>4. Range(c) = {x}
        BY <2>2, RangeSingle
    <2> QED
        BY <2>1, <2>2, <2>3, <2>4
<1>5. Recalled' = Recalled \cup CachedOf(Cached(x))
    <2>1. hand[t] = <<>>
        BY <1>1 DEF ThreadInv
    <2>2. Recalled = CachedOf(queue) \cup OthersRecall(t) \cup CachedOf(hand[t])
        BY <1>1, RecalledBy
    <2>3. Recalled' = CachedOf(queue') \cup OthersRecall(t) \cup CachedOf(Cached(x))
        BY <1>1, RecalledBy
    <2>4. CachedOf(hand[t]) = {}
        BY <2>1, RangeSingle
    <2> QED
        BY <1>1, <2>2, <2>3, <2>4
<1>6. Brought' = Brought /\ Dues' = Dues /\ Called' = Called
    BY <1>1, <1>3 DEF Brought, Dues, Called
<1>7. Way(Out, queue, hand["ws"], Called \cup Recalled, Settled, Live)
    BY DEF OrderInv, RisingInv, EffectInv, Way
<1>8. CASE x \notin Subscribers
    <2>1. CachedOf(Cached(x)) = {}
        BY <1>8, CachedStill
    <2>2. Recalled' = Recalled /\ Live' = Live
        BY <1>4, <1>5, <1>8, <2>1 DEF Live
    <2>3. Way(Out', queue', hand'["ws"], Called \cup Recalled, Settled, Live)
        BY <1>1, <1>3, <1>7
    <2>4. /\ BoundInv /\ RisingInv /\ LatestInv /\ EffectInv
          /\ \A r \in Requests : \A n \in Range(ran'[r]) : n \in Range(ran[r]) \/ RanInOrder(n)
          /\ \A y \in Subscribers : calls'[y] = calls[y]
        BY <1>1 DEF OrderInv
    <2> QED
        BY <1>1, <1>6, <2>2, <2>3, <2>4, OrderKept
<1>9. CASE x \in Subscribers
    <2>1. \A v : <<x, v>> \notin AllTold
        BY <1>1, <1>9, Unheard
    <2>2. Live' = Live \cup {x}
        BY <1>4, <1>9 DEF Live
    <2>3. PICK P : P = CachedOf(Cached(x))
        OBVIOUS
    <2>4. (latest # NoResult => P = {<<x, latest>>}) /\ (latest = NoResult => P = {})
        BY <1>9, <2>3, CachedStill
    <2>5. \A p \in P : p = <<x, computed>> /\ p[1] = x /\ p[2] = computed
        BY <1>2, <2>4
    <2>6. Recalled' = Recalled \cup P /\ AllTold' = AllTold \cup P
        BY <1>5, <1>6, <2>3 DEF AllTold
    <2>7. \A v : <<x, v>> \in AllTold' => v = computed
        BY <2>1, <2>5, <2>6
    <2>8. \A m \in 1..computed : <<x, m>> \in Settled'
        BY <1>1, <1>2, <1>9, <2>7 DEF Settled
    <2>9. Settled \subseteq Settled'
        <3>1. ASSUME NEW p \in Settled PROVE p \in Settled'
            <4>1. p \in Subscribers \X (1..computed)
                BY DEF Settled
            <4>2. CASE p[1] = x
                <5>1. p = <<x, p[2]>> /\ p[2] \in 1..computed
                    BY <4>1, <4>2
                <5> QED
                    BY <2>8, <5>1
            <4>3. CASE p[1] # x
                <5>1. \A v : <<p[1], v>> \in AllTold' <=> <<p[1], v>> \in AllTold
                    BY <2>5, <2>6, <4>3
                <5> QED
                    BY <1>1, <1>6, <5>1 DEF Settled
            <4> QED
                BY <4>2, <4>3
        <3> QED
            BY <3>1
    <2>10. \A n \in Dues : \E v \in 1..MaxResults : n <= v /\ <<x, v>> \in Settled'
        <3>1. ASSUME NEW n \in Dues PROVE n \in 1..computed
            <4>1. n <= computed
                BY DEF OrderInv, BoundInv, Dues
            <4>2. n \in Int /\ n >= 1
                BY DuesType
            <4> QED
                BY <1>2, <4>1, <4>2
        <3> QED
            BY <1>2, <2>8, <3>1
    <2>11. Way(Out', queue', hand'["ws"], Called' \cup Recalled', Settled', Live')
        <3>1. \A v : <<x, v>> \notin FreshOf(Out) \cup FreshOf(queue) \cup FreshOf(hand["ws"])
            BY <2>1 DEF AllTold, Brought
        <3>2. \A y, v : <<y, v>> \in Called' \cup Recalled' => <<y, v>> \in Called \cup Recalled \/ y = x
            BY <1>6, <2>5, <2>6
        <3>3. \A n \in DueOf(Out) \cup DueOf(queue) \cup DueOf(hand["ws"]) :
                  \E v \in 1..MaxResults : n <= v /\ <<x, v>> \in Settled'
            BY <2>10 DEF Dues
        <3>4. Way(Out, queue, hand["ws"], Called' \cup Recalled', Settled', Live \cup {x})
            BY <1>7, <2>9, <3>1, <3>2, <3>3, WayNew
        <3> QED
            BY <1>1, <1>3, <2>2, <3>4
    <2>12. BoundInv'
        <3>1. \A p \in AllTold' : p[2] <= computed'
            BY <1>1, <1>2, <2>5, <2>6 DEF OrderInv, BoundInv
        <3>2. \A d \in Dues' : d <= computed'
            BY <1>1, <1>6 DEF OrderInv, BoundInv, Dues
        <3>3. \A r \in Requests : \A v \in Range(ran'[r]) : v <= computed'
            BY <1>1 DEF OrderInv, BoundInv
        <3> QED
            BY <3>1, <3>2, <3>3 DEF BoundInv, Dues
    <2>13. RisingInv'
        <3>1. ASSUME NEW p \in Recalled', NEW q \in Called' \cup Recalled', p[1] = q[1]
              PROVE  p[2] <= q[2]
            <4>1. /\ Called \cup Recalled \subseteq AllTold
                  /\ AllTold \subseteq Subscribers \X (1..MaxResults)
                BY PairTypes
            <4>2. \A r \in Called \cup Recalled : r[1] # x
                <5>1. ASSUME NEW r \in Called \cup Recalled PROVE r = <<r[1], r[2]>>
                    BY <4>1
                <5> QED
                    BY <2>1, <4>1, <5>1
            <4>3. CASE p[1] = x
                <5>1. p \in P /\ q \in P
                    BY <1>6, <2>6, <3>1, <4>2, <4>3
                <5> QED
                    BY <1>2, <2>5, <5>1
            <4>4. CASE p[1] # x
                <5>1. p \in Recalled /\ q \in Called \cup Recalled
                    BY <1>6, <2>5, <2>6, <3>1, <4>4
                <5> QED
                    BY <3>1, <5>1 DEF OrderInv, RisingInv
            <4> QED
                BY <4>3, <4>4
        <3> QED
            BY <2>11, <3>1 DEF RisingInv, Way
    <2>14. LatestInv'
        <3>1. ASSUME latest' # NoResult, NEW y \in Live' PROVE <<y, latest'>> \in AllTold'
            BY <1>1, <2>2, <2>4, <2>6, <3>1 DEF OrderInv, LatestInv
        <3>2. \A y \in Subscribers :
                  calls'[y] = <<>> \/ Last(calls'[y]) = Newest(calls'[y]) \/ y \in overtaken'
            BY <1>1 DEF OrderInv, LatestInv
        <3> QED
            BY <3>1, <3>2 DEF LatestInv
    <2>15. EffectInv'
        <3>1. ASSUME NEW r \in Requests, NEW n \in Range(ran'[r]), n >= 1, NEW y \in Live'
              PROVE  \E v \in n..MaxResults : <<y, v>> \in Settled'
            <4>1. CASE y \in Live
                BY <1>1, <2>9, <3>1, <4>1 DEF OrderInv, EffectInv
            <4>2. CASE y = x
                <5>1. n \in 1..computed
                    <6>1. n <= computed
                        BY <1>1, <3>1 DEF OrderInv, BoundInv
                    <6>2. ran'[r] \in Seq(Lost..MaxResults \cup {ShutDown})
                        BY DEF TypeOK
                    <6>3. n \in Int
                        BY <3>1, <6>2, ElementOfSeq, LenProperties, DeliveryAssumption DEF Range, Lost, ShutDown
                    <6> QED
                        BY <1>2, <3>1, <6>1, <6>3
                <5>2. n \in n..MaxResults
                    BY <1>2, <5>1
                <5> QED
                    BY <2>8, <4>2, <5>1, <5>2
            <4> QED
                BY <2>2, <4>1, <4>2
        <3> QED
            BY <2>11, <3>1 DEF EffectInv, Way
    <2> QED
        BY <2>12, <2>13, <2>14, <2>15
<1> QED
    BY <1>8, <1>9

\* More is settled, and stays so, as results come that are newer than all.
LEMMA SettledGrows ==
    ASSUME computed \in Nat, computed' \in Nat, computed <= computed', Called' = Called,
           \A p \in AllTold' : p \in AllTold \/ p[2] >= computed
    PROVE  Settled \subseteq Settled'
<1>1. ASSUME NEW p \in Settled PROVE p \in Settled'
    <2>1. p \in Subscribers \X (1..computed')
        BY DEF Settled
    <2>2. CASE \E v \in p[2]..MaxResults : <<p[1], v>> \in Called
        BY <2>1, <2>2 DEF Settled
    <2>3. CASE \A v \in 1..MaxResults : <<p[1], v>> \in AllTold => p[2] <= v
        <3>1. ASSUME NEW v \in 1..MaxResults, <<p[1], v>> \in AllTold' PROVE p[2] <= v
            <4>1. <<p[1], v>> \in AllTold \/ v >= computed
                BY <3>1
            <4>2. p[2] \in 1..computed
                BY DEF Settled
            <4> QED
                BY <2>3, <4>1, <4>2
        <3> QED
            BY <2>1, <3>1 DEF Settled
    <2> QED
        BY <2>2, <2>3 DEF Settled
<1> QED
    BY <1>1

\* The completions of a message.
LEMMA CompletionsOrder ==
    ASSUME NEW done, IsFiniteSet(done), done \subseteq Requests,
           NEW n \in 0..MaxResults, NEW c, c = Completions(done, n),
           NEW told, NEW held, NEW L,
           n # 0 => \A x \in L : <<x, n>> \in held
    PROVE  /\ Rising(c, told) /\ Covered(c, held, L)
           /\ FreshOf(c) = {} /\ CachedOf(c) = {} /\ DueOf(c) \subseteq {n}
<1>1. n \in Lost..MaxResults \cup {ShutDown} /\ MaxResults \in Nat
    BY DeliveryAssumption DEF Lost
<1>2. \A i \in DOMAIN c : c[i].type = "completion" /\ c[i].at = n
    BY <1>1, CompletionsAre
<1>3. \A i \in DOMAIN c : ~IsFresh(c[i]) /\ ~IsCached(c[i])
    BY <1>2 DEF IsFresh, IsCached
<1>4. Rising(c, told)
    BY <1>3 DEF Rising
<1>5. Covered(c, held, L)
    <2>1. ASSUME NEW i \in DOMAIN c, Success(c[i]), NEW x \in L
          PROVE  \E v \in 1..MaxResults : c[i].at <= v /\ <<x, v>> \in held \cup Earlier(c, i)
        <3>1. c[i].at = n /\ n \in 1..MaxResults
            BY <1>1, <1>2, <2>1 DEF Success
        <3> QED
            BY <2>1, <3>1
    <2> QED
        BY <2>1 DEF Covered
<1>6. FreshOf(c) = {} /\ CachedOf(c) = {}
    BY <1>3 DEF FreshOf, CachedOf, Range
<1>7. DueOf(c) \subseteq {n}
    BY <1>2 DEF DueOf, Range
<1> QED
    BY <1>4, <1>5, <1>6, <1>7

\* The results of a message: one for each entry of subs.
LEMMA ResultsOrder ==
    ASSUME SubsInv, subs \in Seq(Listeners), NEW n \in 1..MaxResults, NEW c, c = Results(n),
           NEW told, NEW held, \A p \in told : p[2] < n
    PROVE  /\ Rising(c, told) /\ Covered(c, held, Live)
           /\ FreshOf(c) = {<<x, n>> : x \in Live} /\ CachedOf(c) = {} /\ DueOf(c) = {}
<1>1. DOMAIN c = DOMAIN subs /\ \A i \in DOMAIN c : c[i] = ResultEvent(subs[i], n, FALSE)
    BY ResultsAre
<1>2. \A i \in DOMAIN c : /\ c[i].type = "result" /\ c[i].to = subs[i] /\ c[i].at = n
                          /\ c[i].cached = FALSE
    BY <1>1 DEF ResultEvent
<1>3. \A i \in DOMAIN c : ~IsCached(c[i]) /\ ~Success(c[i]) /\ (IsFresh(c[i]) <=> subs[i] \in Subscribers)
    BY <1>2 DEF IsFresh, IsCached, Success
<1>4. Rising(c, told)
    <2>1. ASSUME NEW i \in DOMAIN c, IsFresh(c[i]), NEW v \in 1..MaxResults,
                 <<c[i].to, v>> \in told \cup Earlier(c, i)
          PROVE  v < c[i].at
        <3>1. CASE <<c[i].to, v>> \in told
            BY <1>2, <3>1
        <3>2. CASE <<c[i].to, v>> \in Earlier(c, i)
            <4>1. PICK j \in DOMAIN c : j < i /\ IsFresh(c[j]) /\ c[j].to = c[i].to
                BY <3>2, EarlierIs
            <4>2. subs[j] = subs[i]
                BY <1>2, <4>1
            <4>3. i = j
                BY <1>1, <4>2 DEF SubsInv
            <4>4. i \in Int
                BY <1>1, LenProperties
            <4> QED
                BY <4>1, <4>3, <4>4
        <3> QED
            BY <2>1, <3>1, <3>2
    <2> QED
        BY <2>1 DEF Rising
<1>5. Covered(c, held, Live)
    BY <1>3 DEF Covered
<1>6. FreshOf(c) = {<<x, n>> : x \in Live}
    <2>1. ASSUME NEW p \in FreshOf(c) PROVE p \in {<<x, n>> : x \in Live}
        <3>1. PICK i \in DOMAIN c : IsFresh(c[i]) /\ p = <<c[i].to, c[i].at>>
            BY <2>1 DEF FreshOf, Range
        <3>2. p = <<subs[i], n>> /\ subs[i] \in Live
            BY <1>1, <1>2, <1>3, <3>1 DEF Live, Range
        <3> QED
            BY <3>2
    <2>2. ASSUME NEW x \in Live PROVE <<x, n>> \in FreshOf(c)
        <3>1. PICK i \in DOMAIN subs : subs[i] = x
            BY DEF Live, Range
        <3>2. i \in DOMAIN c /\ IsFresh(c[i]) /\ c[i].to = x /\ c[i].at = n
            BY <1>1, <1>2, <1>3, <3>1 DEF Live
        <3> QED
            BY <3>2, EarlierIs
    <2> QED
        BY <2>1, <2>2
<1>7. CachedOf(c) = {} /\ DueOf(c) = {}
    BY <1>3 DEF CachedOf, DueOf, Range
<1> QED
    BY <1>4, <1>5, <1>6, <1>7

\* The latest result is settled for all subscribed, or comes first on the way.
LEMMA LatestHeld ==
    ASSUME TypeOK, OrderInv, latest # NoResult, hand["ws"] = <<>>, NEW x \in Live
    PROVE  <<x, latest>> \in Settled \cup FreshOf(Out) \cup FreshOf(queue)
<1>1. /\ latest = computed /\ computed \in 1..MaxResults /\ MaxResults \in Nat /\ x \in Subscribers
      /\ FreshOf(<<>>) = {}
    BY DeliveryAssumption, RangeSingle DEF TypeOK, NoResult, Live
<1>2. <<x, latest>> \in AllTold
    BY DEF OrderInv, LatestInv
<1>3. CASE <<x, latest>> \in Called
    BY <1>1, <1>3 DEF Settled
<1>4. CASE <<x, latest>> \in Recalled
    <2>1. ASSUME NEW v \in 1..MaxResults, <<x, v>> \in AllTold PROVE latest <= v
        <3>1. CASE <<x, v>> \in Called \cup Recalled
            <4>1. \A p \in Recalled, q \in Called \cup Recalled : p[1] = q[1] => p[2] <= q[2]
                BY DEF OrderInv, RisingInv
            <4>2. PICK p \in Recalled : p = <<x, latest>>
                BY <1>4
            <4>3. PICK q \in Called \cup Recalled : q = <<x, v>>
                BY <3>1
            <4>4. p[2] <= q[2]
                BY <4>1, <4>2, <4>3
            <4> QED
                BY <4>2, <4>3, <4>4
        <3>2. CASE <<x, v>> \in FreshOf(Out)
            <4>1. Rising(Out, Called \cup Recalled)
                BY DEF OrderInv, RisingInv, Ascending
            <4>2. latest < v
                BY <1>1, <1>4, <3>2, <4>1, FreshNewer
            <4> QED
                BY <1>1, <4>2
        <3>3. CASE <<x, v>> \in FreshOf(queue)
            <4>1. Rising(queue, Called \cup Recalled \cup FreshOf(Out))
                BY DEF OrderInv, RisingInv, Ascending
            <4>2. latest < v
                BY <1>1, <1>4, <3>3, <4>1, FreshNewer
            <4> QED
                BY <1>1, <4>2
        <3> QED
            BY <1>1, <2>1, <3>1, <3>2, <3>3 DEF AllTold, Brought
    <2> QED
        BY <1>1, <2>1 DEF Settled
<1> QED
    BY <1>1, <1>2, <1>3, <1>4 DEF AllTold, Brought

\* A message brings results and successes in order.
LEMMA ReceiveOrder ==
    ASSUME TypeOK, TypeOK', ThreadInv, SubsInv, OrderInv, Receive
    PROVE  BoundInv' /\ RisingInv' /\ LatestInv' /\ EffectInv'
<1>1. PICK changed \in BOOLEAN, done \in SUBSET pending :
          LET n == IF changed THEN computed + 1 ELSE latest IN
          /\ Idle("ws") /\ ~stopping
          /\ changed => computed < MaxResults
          /\ latest' = n
          /\ computed' = IF changed THEN n ELSE computed
          /\ Collect("ws", EventsOf(changed, done, n))
          /\ UNCHANGED <<subs, queue, calls, ran, overtaken>>
    BY DEF Receive, historyVars
<1>2. PICK n : n = IF changed THEN computed + 1 ELSE latest
    OBVIOUS
<1>3. /\ latest' = n /\ computed' = (IF changed THEN n ELSE computed)
      /\ Collect("ws", EventsOf(changed, done, n)) /\ (changed => computed < MaxResults)
      /\ UNCHANGED <<subs, queue, calls, ran, overtaken>> /\ hand["ws"] = <<>>
    BY <1>1, <1>2, Places DEF ThreadInv
<1>4. /\ computed \in Nat /\ MaxResults \in Nat /\ computed <= MaxResults /\ latest \in {NoResult, computed}
      /\ subs \in Seq(Listeners) /\ hand \in [Threads -> Seq(Event)] /\ "ws" \in Threads
      /\ pc \in [Threads -> {"idle", "deliver", "pump", "join", "destroy"} \cup Listeners]
      /\ IsFiniteSet(done) /\ done \subseteq Requests
    BY Places, DeliveryAssumption, FS_Subset DEF TypeOK
<1>5. n \in 0..MaxResults /\ (changed => n \in 1..MaxResults) /\ computed' \in Nat /\ computed <= computed'
    BY <1>2, <1>3, <1>4 DEF NoResult
<1>6. PICK rs : rs = IF changed THEN Results(n) ELSE <<>>
    OBVIOUS
<1>7. PICK cs : cs = Completions(done, n)
    OBVIOUS
<1>8. rs \in Seq(Event) /\ cs \in Seq(Event)
    <2>1. n \in Lost..MaxResults \cup {ShutDown}
        BY <1>4, <1>5 DEF Lost
    <2>2. cs \in Seq(Event)
        BY <1>4, <1>7, <2>1, CompletionsAre
    <2>3. changed => rs \in Seq(Event)
        BY <1>4, <1>5, <1>6, ResultsAre
    <2> QED
        BY <1>6, <2>2, <2>3, EmptySeq
<1>9. PICK w : w = rs \o cs
    OBVIOUS
<1>10. hand' = [hand EXCEPT !["ws"] = w] /\ pc'["main"] = pc["main"]
    BY <1>3, <1>4, <1>6, <1>7, <1>9, Places DEF Collect, EventsOf
<1>11. Out' = Out /\ hand'["ws"] = w
    BY <1>4, <1>10, Places DEF Out
<1>12. Called' = Called /\ Live' = Live
    BY <1>3 DEF Called, Live
<1>13. PICK told : told = Called \cup Recalled
    OBVIOUS
<1>14. PICK front : front = FreshOf(Out) \cup FreshOf(queue)
    OBVIOUS
<1>15. \A p \in told \cup front : p[2] <= computed
    BY <1>13, <1>14 DEF OrderInv, BoundInv, AllTold, Brought
<1>16. PICK new : new = IF changed THEN {<<x, n>> : x \in Live} ELSE {}
    OBVIOUS
\* What the results are, before anything is said of whom they settle.
<1>17. ASSUME NEW held
       PROVE  /\ Rising(rs, told \cup front) /\ Covered(rs, held, Live)
              /\ FreshOf(rs) = new /\ CachedOf(rs) = {} /\ DueOf(rs) = {}
    <2>1. CASE changed
        <3>1. rs = Results(n) /\ n \in 1..MaxResults /\ n = computed + 1
            BY <1>2, <1>5, <1>6, <2>1
        <3>2. \A p \in told \cup front : p[2] < n
            <4>1. ASSUME NEW p \in told \cup front PROVE p[2] < n
                <5>1. p \in AllTold
                    BY <1>13, <1>14 DEF AllTold, Brought
                <5>2. p[2] \in 1..MaxResults
                    BY <5>1, PairTypes
                <5> QED
                    BY <1>4, <1>15, <3>1, <5>2
            <4> QED
                BY <4>1
        <3> QED
            BY <1>4, <1>16, <2>1, <3>1, <3>2, ResultsOrder
    <2>2. CASE ~changed
        BY <1>6, <1>16, <2>2, RangeSingle, StillOrder
    <2> QED
        BY <2>1, <2>2
<1>18. /\ Brought' = Brought \cup new /\ Recalled' = Recalled
       /\ AllTold' = AllTold \cup new /\ Dues' \subseteq Dues \cup {n}
    <2>1. FreshOf(cs) = {} /\ CachedOf(cs) = {} /\ DueOf(cs) \subseteq {n}
        <3>1. n # 0 => \A x \in {} : <<x, n>> \in {}
            OBVIOUS
        <3> QED
            BY <1>4, <1>5, <1>7, <3>1, CompletionsOrder, ZenonT(60)
    <2>2. FreshOf(rs) = new /\ CachedOf(rs) = {} /\ DueOf(rs) = {}
        BY <1>17
    <2>3. FreshOf(w) = new /\ CachedOf(w) = {} /\ DueOf(w) \subseteq {n}
        <3>1. /\ FreshOf(rs \o cs) = FreshOf(rs) \cup FreshOf(cs)
              /\ CachedOf(rs \o cs) = CachedOf(rs) \cup CachedOf(cs)
              /\ DueOf(rs \o cs) = DueOf(rs) \cup DueOf(cs)
            BY <1>8, RangeConcat
        <3> QED
            BY <1>9, <2>1, <2>2, <3>1
    <2>4. FreshOf(hand["ws"]) = {} /\ CachedOf(hand["ws"]) = {} /\ DueOf(hand["ws"]) = {}
        BY <1>3, RangeSingle
    <2>5. Brought' = Brought \cup new
        BY <1>3, <1>11, <2>3, <2>4 DEF Brought
    <2>6. Recalled' = Recalled
        <3>1. Recalled = CachedOf(queue) \cup OthersRecall("ws") \cup CachedOf(hand["ws"])
            BY <1>4, <1>10, RecalledBy
        <3>2. Recalled' = CachedOf(queue') \cup OthersRecall("ws") \cup CachedOf(w)
            BY <1>4, <1>10, RecalledBy
        <3> QED
            BY <1>3, <2>3, <2>4, <3>1, <3>2
    <2>7. AllTold' = AllTold \cup new
        BY <1>12, <2>5, <2>6 DEF AllTold
    <2>8. Dues' \subseteq Dues \cup {n}
        BY <1>3, <1>11, <2>3 DEF Dues
    <2> QED
        BY <2>5, <2>6, <2>7, <2>8
<1>19. Settled \subseteq Settled'
    <2>1. \A p \in AllTold' : p \in AllTold \/ p[2] >= computed
        BY <1>2, <1>4, <1>16, <1>18
    <2> QED
        BY <1>4, <1>5, <1>12, <2>1, SettledGrows
<1>20. n # 0 => \A x \in Live : <<x, n>> \in Settled' \cup front \cup new
    <2>1. CASE changed
        BY <1>16, <2>1
    <2>2. CASE ~changed
        <3>1. n = latest
            BY <1>2, <2>2
        <3> QED
            BY <1>3, <1>14, <1>19, <3>1, LatestHeld DEF NoResult
    <2> QED
        BY <2>1, <2>2
<1>21. Rising(w, told \cup front) /\ Covered(w, Settled' \cup front, Live)
    <2>1. Rising(rs, told \cup front) /\ Covered(rs, Settled' \cup front, Live) /\ FreshOf(rs) = new
        BY <1>17
    <2>2. Rising(cs, told \cup front \cup FreshOf(rs))
        BY <1>4, <1>5, <1>7, <1>20, CompletionsOrder
    <2>3. Covered(cs, Settled' \cup front \cup new, Live)
        BY <1>4, <1>5, <1>7, <1>20, CompletionsOrder
    <2>4. Covered(cs, Settled' \cup front \cup FreshOf(rs), Live)
        BY <2>1, <2>3
    <2>5. Rising(rs \o cs, told \cup front)
        BY <1>8, <2>1, <2>2, RisingConcat
    <2>6. Covered(rs \o cs, Settled' \cup front, Live)
        BY <1>8, <2>1, <2>4, CoveredConcat
    <2> QED
        BY <1>9, <2>5, <2>6
<1>22. Way(Out', queue', hand'["ws"], Called' \cup Recalled', Settled', Live')
    <2>1. Way(Out, queue, hand["ws"], told, Settled, Live)
        BY <1>13 DEF OrderInv, RisingInv, EffectInv, Way
    <2>2. Way(Out, queue, hand["ws"], told, Settled', Live)
        BY <1>19, <2>1, WayMore
    <2>3. /\ told \cup front = told \cup FreshOf(Out) \cup FreshOf(queue)
          /\ Settled' \cup front = Settled' \cup FreshOf(Out) \cup FreshOf(queue)
        BY <1>14
    <2>4. Rising(w, told \cup FreshOf(Out) \cup FreshOf(queue))
        BY <1>21, <2>3
    <2>5. Covered(w, Settled' \cup FreshOf(Out) \cup FreshOf(queue), Live)
        BY <1>21, <2>3
    <2>6. Way(Out, queue, w, told, Settled', Live)
        BY <2>2, <2>4, <2>5, WayCollect
    <2> QED
        BY <1>3, <1>11, <1>12, <1>13, <1>18, <2>6
<1>23. BoundInv'
    <2>1. ASSUME NEW p \in AllTold' PROVE p[2] <= computed'
        <3>1. CASE p \in AllTold
            <4>1. p[2] \in 1..MaxResults /\ p[2] <= computed
                BY <3>1, PairTypes DEF OrderInv, BoundInv
            <4> QED
                BY <1>4, <1>5, <4>1
        <3>2. CASE p \in new
            BY <1>3, <1>5, <1>16, <3>2
        <3> QED
            BY <1>18, <3>1, <3>2
    <2>2. ASSUME NEW r \in Requests, NEW v \in Range(ran'[r]) PROVE v <= computed'
        <3>1. v <= computed
            BY <1>3 DEF OrderInv, BoundInv
        <3>2. v \in Int
            <4>1. ran'[r] \in Seq(Lost..MaxResults \cup {ShutDown})
                BY DEF TypeOK
            <4> QED
                BY <4>1, ElementOfSeq, LenProperties, DeliveryAssumption DEF Range, Lost, ShutDown
        <3> QED
            BY <1>4, <1>5, <3>1, <3>2
    <2>3. ASSUME NEW d \in Dues' PROVE d <= computed'
        <3>1. n <= computed'
            BY <1>2, <1>3, <1>4, <1>5 DEF NoResult
        <3>2. CASE d \in Dues
            <4>1. d <= computed
                BY <3>2 DEF OrderInv, BoundInv, Dues
            <4>2. d \in Int
                BY <3>2, DuesType
            <4> QED
                BY <1>4, <1>5, <4>1, <4>2
        <3> QED
            BY <1>18, <3>1, <3>2
    <2> QED
        BY <2>1, <2>2, <2>3 DEF BoundInv, Dues
<1>24. RisingInv'
    BY <1>12, <1>18, <1>22 DEF OrderInv, RisingInv, Way
<1>25. LatestInv'
    <2>1. ASSUME latest' # NoResult, NEW x \in Live' PROVE <<x, latest'>> \in AllTold'
        <3>1. CASE changed
            BY <1>3, <1>12, <1>16, <1>18, <3>1
        <3>2. CASE ~changed
            BY <1>2, <1>3, <1>12, <1>18, <2>1, <3>2 DEF OrderInv, LatestInv
        <3> QED
            BY <3>1, <3>2
    <2>2. \A y \in Subscribers :
              calls'[y] = <<>> \/ Last(calls'[y]) = Newest(calls'[y]) \/ y \in overtaken'
        BY <1>3 DEF OrderInv, LatestInv
    <2> QED
        BY <2>1, <2>2 DEF LatestInv
<1>26. EffectInv'
    <2>1. ASSUME NEW r \in Requests, NEW v \in Range(ran'[r]), v >= 1, NEW y \in Live'
          PROVE  \E u \in v..MaxResults : <<y, u>> \in Settled'
        BY <1>3, <1>12, <1>19, <2>1 DEF OrderInv, EffectInv
    <2> QED
        BY <1>22, <2>1 DEF EffectInv, Way
<1> QED
    BY <1>23, <1>24, <1>25, <1>26

\* What is on its way stays in order.
OrderSame ==
    /\ Recalled' = Recalled /\ Brought' = Brought /\ Dues' \subseteq Dues
    /\ Way(Out', queue', hand'["ws"], Called \cup Recalled, Settled, Live)

\* A thread comes to have nothing new in hand.
LEMMA HandStill ==
    ASSUME TypeOK, OrderInv, NEW t \in Threads, hand[t] = <<>>,
           t # "main" \/ pc["main"] \notin {"pump", "destroy"},
           pc'["main"] \in {"pump", "destroy"} <=> pc["main"] \in {"pump", "destroy"},
           NEW s \in Seq(Event), Still(s), CachedOf(s) = {},
           hand' = [hand EXCEPT ![t] = s], queue' = queue
    PROVE  OrderSame
<1>1. /\ Threads = {"user", "main", "ws", "worker", "detached"}
      /\ hand \in [Threads -> Seq(Event)]
    BY Places DEF TypeOK
<1>2. Out' = Out
    <2>1. CASE t = "main"
        BY <2>1 DEF Out
    <2>2. CASE t # "main"
        <3>1. hand'["main"] = hand["main"]
            BY <1>1, <2>2
        <3> QED
            BY <3>1 DEF Out
    <2> QED
        BY <2>1, <2>2
<1>3. FreshOf(s) = {} /\ DueOf(s) = {} /\ FreshOf(<<>>) = {} /\ DueOf(<<>>) = {} /\ CachedOf(<<>>) = {}
    BY RangeSingle, StillOrder
<1>4. hand'["ws"] = hand["ws"] \/ (hand'["ws"] = s /\ hand["ws"] = <<>>)
    BY <1>1
<1>5. FreshOf(hand'["ws"]) = FreshOf(hand["ws"]) /\ DueOf(hand'["ws"]) = DueOf(hand["ws"])
    BY <1>3, <1>4
<1>6. Recalled' = Recalled
    <2>1. Recalled = CachedOf(queue) \cup OthersRecall(t) \cup CachedOf(hand[t])
        BY RecalledBy
    <2>2. Recalled' = CachedOf(queue') \cup OthersRecall(t) \cup CachedOf(s)
        BY RecalledBy
    <2> QED
        BY <1>3, <2>1, <2>2
<1>7. Way(Out, queue, hand["ws"], Called \cup Recalled, Settled, Live)
    BY DEF OrderInv, RisingInv, EffectInv, Way
<1>8. Way(Out, queue, s, Called \cup Recalled, Settled, Live)
    <2>1. /\ Rising(s, Called \cup Recalled \cup FreshOf(Out) \cup FreshOf(queue))
          /\ Covered(s, Settled \cup FreshOf(Out) \cup FreshOf(queue), Live)
        BY StillOrder
    <2> QED
        BY <1>7, <2>1, WayCollect
<1>9. Way(Out', queue', hand'["ws"], Called \cup Recalled, Settled, Live)
    BY <1>2, <1>4, <1>7, <1>8
<1> QED
    BY <1>2, <1>5, <1>6, <1>9 DEF Brought, Dues, OrderSame

\* What a thread has in hand is queued.
LEMMA EnqueueOrder ==
    ASSUME TypeOK, ThreadInv, OrderInv, NEW t \in Threads, Enqueue(t)
    PROVE  OrderSame
<1>1. /\ Threads = {"user", "main", "ws", "worker", "detached"}
      /\ hand \in [Threads -> Seq(Event)] /\ queue \in Seq(Event)
      /\ pc \in [Threads -> {"idle", "deliver", "pump", "join", "destroy"} \cup Listeners]
    BY Places DEF TypeOK
<1>2. PICK s \in Seq(Event) : s = hand[t]
    BY <1>1
<1>3. /\ queue' = queue \o s /\ hand' = [hand EXCEPT ![t] = <<>>]
      /\ pc[t] \in {"deliver"} \cup Listeners
      /\ pc' = [pc EXCEPT ![t] = IF @ = "deliver" THEN "idle" ELSE @]
    BY <1>2 DEF Enqueue
<1>4. pc[t] \notin {"pump", "destroy"} /\ pc'[t] \notin {"pump", "destroy"}
    BY <1>1, <1>3, Places
<1>5. Out' = Out
    <2>1. CASE t = "main"
        BY <1>4, <2>1 DEF Out
    <2>2. CASE t # "main"
        <3>1. hand'["main"] = hand["main"] /\ pc'["main"] = pc["main"]
            BY <1>1, <1>3, <2>2
        <3> QED
            BY <3>1 DEF Out
    <2> QED
        BY <2>1, <2>2
<1>6. /\ CachedOf(queue \o s) = CachedOf(queue) \cup CachedOf(s)
      /\ FreshOf(queue \o s) = FreshOf(queue) \cup FreshOf(s)
      /\ DueOf(queue \o s) = DueOf(queue) \cup DueOf(s)
    BY <1>1, RangeConcat
<1>7. FreshOf(<<>>) = {} /\ DueOf(<<>>) = {} /\ CachedOf(<<>>) = {}
    BY RangeSingle
<1>8. Recalled' = Recalled
    <2>1. Recalled = CachedOf(queue) \cup OthersRecall(t) \cup CachedOf(s)
        BY <1>2, <1>3, RecalledBy
    <2>2. Recalled' = CachedOf(queue') \cup OthersRecall(t) \cup CachedOf(<<>>)
        BY <1>3, RecalledBy
    <2> QED
        BY <1>3, <1>6, <1>7, <2>1, <2>2
<1>9. Way(Out, queue, hand["ws"], Called \cup Recalled, Settled, Live)
    BY DEF OrderInv, RisingInv, EffectInv, Way
<1>10. CASE t = "ws"
    <2>1. hand["ws"] = s /\ hand'["ws"] = <<>>
        BY <1>1, <1>2, <1>3, <1>10
    <2>2. Brought' = Brought /\ Dues' = Dues
        BY <1>3, <1>5, <1>6, <1>7, <2>1 DEF Brought, Dues
    <2>3. Way(Out, queue, s, Called \cup Recalled, Settled, Live)
        BY <1>9, <2>1
    <2>4. Way(Out, queue \o s, <<>>, Called \cup Recalled, Settled, Live)
        BY <1>1, <2>3, WayQueue
    <2>5. Way(Out', queue', hand'["ws"], Called \cup Recalled, Settled, Live)
        BY <1>3, <1>5, <2>1, <2>4
    <2> QED
        BY <1>8, <2>2, <2>5 DEF OrderSame
<1>11. CASE t # "ws"
    <2>1. Still(s)
        BY <1>2, <1>4, <1>11 DEF OrderInv, PlaceInv
    <2>2. FreshOf(s) = {} /\ DueOf(s) = {}
        BY <2>1, StillOrder
    <2>3. hand'["ws"] = hand["ws"]
        BY <1>1, <1>3, <1>11
    <2>4. Brought' = Brought /\ Dues' = Dues
        BY <1>3, <1>5, <1>6, <2>2, <2>3 DEF Brought, Dues
    <2>5. Way(Out, queue \o s, hand["ws"], Called \cup Recalled, Settled, Live)
        BY <1>1, <1>9, <2>1, WayInsert
    <2>6. Way(Out', queue', hand'["ws"], Called \cup Recalled, Settled, Live)
        BY <1>3, <1>5, <2>3, <2>5
    <2> QED
        BY <1>8, <2>4, <2>6 DEF OrderSame
<1> QED
    BY <1>10, <1>11

\* process_events() takes the queue.
LEMMA PumpOrder ==
    ASSUME TypeOK, ThreadInv, OrderInv, Pump
    PROVE  OrderSame
<1>1. /\ Threads = {"user", "main", "ws", "worker", "detached"}
      /\ hand \in [Threads -> Seq(Event)]
      /\ pc \in [Threads -> {"idle", "deliver", "pump", "join", "destroy"} \cup Listeners]
    BY Places DEF TypeOK
<1>2. /\ pc["main"] = "idle" /\ hand["main"] = <<>> /\ queue' = <<>>
      /\ hand' = [hand EXCEPT !["main"] = queue] /\ pc' = [pc EXCEPT !["main"] = "pump"]
    BY <1>1 DEF Pump, Idle, ThreadInv
<1>3. Out = <<>> /\ Out' = queue /\ hand'["ws"] = hand["ws"]
    BY <1>1, <1>2 DEF Out
<1>4. FreshOf(<<>>) = {} /\ DueOf(<<>>) = {} /\ CachedOf(<<>>) = {}
    BY RangeSingle
<1>5. Recalled' = Recalled
    <2>1. Recalled = CachedOf(queue) \cup OthersRecall("main") \cup CachedOf(hand["main"])
        BY <1>1, <1>2, RecalledBy
    <2>2. Recalled' = CachedOf(queue') \cup OthersRecall("main") \cup CachedOf(queue)
        BY <1>1, <1>2, RecalledBy
    <2> QED
        BY <1>2, <1>4, <2>1, <2>2
<1>6. Brought' = Brought /\ Dues' = Dues
    BY <1>2, <1>3, <1>4 DEF Brought, Dues
<1>7. Way(Out, queue, hand["ws"], Called \cup Recalled, Settled, Live)
    BY DEF OrderInv, RisingInv, EffectInv, Way
<1>8. Way(queue, <<>>, hand["ws"], Called \cup Recalled, Settled, Live)
    BY <1>3, <1>7, WayPump
<1> QED
    BY <1>2, <1>3, <1>5, <1>6, <1>8 DEF OrderSame

\* ~client takes it once the other threads are joined, and goes on to its errors.
LEMMA DrainOrder ==
    ASSUME TypeOK, ThreadInv, OrderInv, Drain
    PROVE  OrderSame
<1>1. /\ Threads = {"user", "main", "ws", "worker", "detached"}
      /\ hand \in [Threads -> Seq(Event)] /\ queue \in Seq(Event)
      /\ pc \in [Threads -> {"idle", "deliver", "pump", "join", "destroy"} \cup Listeners]
    BY Places DEF TypeOK
<1>2. PICK s \in Seq(Event) : s = hand["main"]
    BY <1>1
<1>3. /\ pc["main"] = "join" /\ hand["ws"] = <<>> /\ queue' = <<>>
      /\ hand' = [hand EXCEPT !["main"] = queue \o s] /\ pc' = [pc EXCEPT !["main"] = "destroy"]
    BY <1>1, <1>2 DEF Drain, Joinable, Idle, ThreadInv, Remaining
<1>4. Out = <<>> /\ Out' = queue \o s /\ hand'["ws"] = <<>>
    BY <1>1, <1>3 DEF Out
<1>5. Still(s)
    BY <1>1, <1>2, <1>3 DEF OrderInv, PlaceInv
<1>6. FreshOf(<<>>) = {} /\ DueOf(<<>>) = {} /\ CachedOf(<<>>) = {} /\ FreshOf(s) = {} /\ DueOf(s) = {}
    BY <1>5, RangeSingle, StillOrder
<1>7. /\ CachedOf(queue \o s) = CachedOf(queue) \cup CachedOf(s)
      /\ FreshOf(queue \o s) = FreshOf(queue) \cup FreshOf(s)
      /\ DueOf(queue \o s) = DueOf(queue) \cup DueOf(s)
    BY <1>1, RangeConcat
<1>8. Recalled' = Recalled
    <2>1. Recalled = CachedOf(queue) \cup OthersRecall("main") \cup CachedOf(s)
        BY <1>1, <1>2, <1>3, RecalledBy
    <2>2. Recalled' = CachedOf(queue') \cup OthersRecall("main") \cup CachedOf(queue \o s)
        BY <1>1, <1>3, RecalledBy
    <2> QED
        BY <1>3, <1>6, <1>7, <2>1, <2>2
<1>9. Brought' = Brought /\ Dues' = Dues
    BY <1>3, <1>4, <1>6, <1>7 DEF Brought, Dues
<1>10. Way(Out, queue, hand["ws"], Called \cup Recalled, Settled, Live)
    BY DEF OrderInv, RisingInv, EffectInv, Way
<1>11. Way(<<>>, queue \o s, <<>>, Called \cup Recalled, Settled, Live)
    BY <1>1, <1>3, <1>4, <1>5, <1>10, WayInsert
<1>12. Way(queue \o s, <<>>, <<>>, Called \cup Recalled, Settled, Live)
    BY <1>11, WayPump
<1> QED
    BY <1>3, <1>4, <1>8, <1>9, <1>12 DEF OrderSame

\* The order, after a step.
OrderAfter == BoundInv' /\ RisingInv' /\ LatestInv' /\ EffectInv'

\* Every step keeps the order.
LEMMA OrderStep ==
    ASSUME TypeOK, TypeOK', ThreadInv, SubsInv, OrderInv, [Next]_vars
    PROVE  OrderInv'
<1>a. PlaceInv'
    BY PlaceStep DEF OrderInv
<1>b. /\ BoundInv /\ RisingInv /\ LatestInv /\ EffectInv
      /\ Way(Out, queue, hand["ws"], Called \cup Recalled, Settled, Live)
    BY DEF OrderInv, RisingInv, EffectInv, Way
<1>c. ASSUME UNCHANGED <<computed, overtaken, calls, ran>>, latest' \in {latest, NoResult},
             Live' \subseteq Live, OrderSame
      PROVE  OrderAfter
    BY <1>b, <1>c, OrderKept DEF OrderSame, OrderAfter
<1>d. ASSUME UNCHANGED <<queue, hand>>, Out' = Out
      PROVE  OrderSame
    BY <1>b, <1>d DEF Recalled, Brought, Dues, OrderSame
<1>e. /\ Threads = {"user", "main", "ws", "worker", "detached"}
      /\ pc \in [Threads -> {"idle", "deliver", "pump", "join", "destroy"} \cup Listeners]
      /\ hand \in [Threads -> Seq(Event)]
    BY Places DEF TypeOK
\* Errors tell of nothing new.
<1>f. ASSUME NEW lost, IsFiniteSet(lost), lost \subseteq Requests, NEW n \in {Lost, ShutDown},
             NEW s, s = Completions(lost, n)
      PROVE  s \in Seq(Event) /\ Still(s) /\ CachedOf(s) = {}
    <2>1. n \in Lost..MaxResults \cup {ShutDown}
        BY DeliveryAssumption DEF Lost
    <2> QED
        BY <1>f, <2>1, CompletionsAre, CompletionsStill
<1>g. ASSUME NEW q \in Seq(Event), NEW s \in Seq(Event)
      PROVE  /\ FreshOf(q \o s) = FreshOf(q) \cup FreshOf(s)
             /\ CachedOf(q \o s) = CachedOf(q) \cup CachedOf(s)
             /\ DueOf(q \o s) = DueOf(q) \cup DueOf(s)
    BY RangeConcat
<1>1. ASSUME Receive PROVE OrderAfter
    BY <1>1, ReceiveOrder DEF OrderAfter
<1>2. ASSUME NEW t \in {"ws", "worker"}, Disconnect(t)
      PROVE  OrderAfter
    <2>1. PICK lost \in SUBSET (pending \cap Actions) :
              /\ Idle(t) /\ FailActions(lost) /\ Collect(t, Completions(lost, Lost))
              /\ UNCHANGED <<computed, subs, queue, calls, ran, overtaken>>
        BY <1>2 DEF Disconnect, historyVars
    <2>2. PICK s : s = Completions(lost, Lost)
        OBVIOUS
    <2>3. s \in Seq(Event) /\ Still(s) /\ CachedOf(s) = {}
        <3>1. Lost \in {Lost, ShutDown}
            OBVIOUS
        <3> QED
            BY <1>f, <2>2, <3>1, LostType
    <2>4. /\ hand' = [hand EXCEPT ![t] = s] /\ pc'["main"] = pc["main"] /\ t \in Threads
          /\ hand[t] = <<>> /\ t # "main"
        BY <1>e, <2>1, <2>2 DEF Collect, ThreadInv
    <2>5. OrderSame
        BY <2>1, <2>3, <2>4, HandStill
    <2>6. Live' \subseteq Live /\ latest' \in {latest, NoResult} /\ UNCHANGED <<computed, overtaken, calls, ran>>
        BY <2>1 DEF Live, FailActions
    <2> QED
        BY <1>c, <2>5, <2>6
<1>3. ASSUME ProtocolError PROVE OrderAfter
    <2>1. PICK lost \in SUBSET (pending \cap Actions) :
              /\ FailActions(lost)
              /\ IF immediate
                 THEN /\ Idle("detached") /\ Collect("detached", Completions(lost, Lost))
                      /\ UNCHANGED queue
                 ELSE queue' = queue \o Completions(lost, Lost) /\ UNCHANGED <<hand, pc>>
              /\ UNCHANGED <<computed, subs, calls, ran, overtaken>>
        BY <1>3 DEF ProtocolError, historyVars
    <2>2. PICK s : s = Completions(lost, Lost)
        OBVIOUS
    <2>3. s \in Seq(Event) /\ Still(s) /\ CachedOf(s) = {}
        <3>1. Lost \in {Lost, ShutDown}
            OBVIOUS
        <3> QED
            BY <1>f, <2>2, <3>1, LostType
    <2>4. Live' \subseteq Live /\ latest' \in {latest, NoResult} /\ UNCHANGED <<computed, overtaken, calls, ran>>
        BY <2>1 DEF Live, FailActions
    <2>5. CASE immediate
        <3>1. /\ hand' = [hand EXCEPT !["detached"] = s] /\ pc'["main"] = pc["main"]
              /\ hand["detached"] = <<>> /\ "detached" \in Threads /\ queue' = queue
            BY <1>e, <2>1, <2>2, <2>5 DEF Collect, ThreadInv
        <3>2. OrderSame
            BY <2>3, <3>1, HandStill
        <3> QED
            BY <1>c, <2>4, <3>2
    <2>6. CASE ~immediate
        <3>1. queue' = queue \o s /\ UNCHANGED <<hand, pc>> /\ queue \in Seq(Event)
            BY <2>1, <2>2, <2>6 DEF TypeOK
        <3>2. Out' = Out
            BY <3>1 DEF Out
        <3>3. FreshOf(s) = {} /\ DueOf(s) = {}
            BY <2>3, StillOrder
        <3>4. FreshOf(queue') = FreshOf(queue) /\ CachedOf(queue') = CachedOf(queue) /\ DueOf(queue') = DueOf(queue)
            <4>1. /\ FreshOf(queue \o s) = FreshOf(queue) \cup FreshOf(s)
                  /\ CachedOf(queue \o s) = CachedOf(queue) \cup CachedOf(s)
                  /\ DueOf(queue \o s) = DueOf(queue) \cup DueOf(s)
                BY <2>3, <3>1, <1>g
            <4> QED
                BY <2>3, <3>1, <3>3, <4>1
        <3>5. Recalled' = Recalled /\ Brought' = Brought /\ Dues' \subseteq Dues
            BY <3>1, <3>2, <3>4 DEF Recalled, Brought, Dues
        <3>6. Way(Out, queue \o s, hand["ws"], Called \cup Recalled, Settled, Live)
            BY <1>b, <2>3, <3>1, WayInsert
        <3>7. Way(Out', queue', hand'["ws"], Called \cup Recalled, Settled, Live)
            BY <3>1, <3>2, <3>6
        <3>8. OrderSame
            BY <3>5, <3>7 DEF OrderSame
        <3> QED
            BY <1>c, <2>4, <3>8
    <2> QED
        BY <2>5, <2>6
<1>4. ASSUME NEW t \in Program, NEW x \in Listeners, Subscribe(t, x)
      PROVE  OrderAfter
    BY <1>4, SubscribeOrder DEF OrderAfter
<1>5. ASSUME NEW t \in Program, NEW x \in Subscribers, Unsubscribe(t, x)
      PROVE  OrderAfter
    <2>1. /\ UNCHANGED <<latest, computed, queue, hand, pc, calls, ran, overtaken>>
          /\ subs' = subs \/ subs' = Without(x)
        BY <1>5 DEF Unsubscribe, Release, eventVars, historyVars
    <2>2. Live' \subseteq Live
        <3>1. Range(Without(x)) = Range(subs) \ {x}
            BY WithoutOne DEF TypeOK, SubsInv, OnePlace
        <3> QED
            BY <2>1, <3>1 DEF Live
    <2>3. Out' = Out
        BY <2>1 DEF Out
    <2> QED
        BY <1>c, <1>d, <2>1, <2>2, <2>3
<1>6. ASSUME NEW t \in Program, NEW r \in Requests, Request(t, r)
      PROVE  OrderAfter
    <2>1. UNCHANGED <<latest, computed, queue, hand, pc, calls, ran, overtaken, subs>>
        BY <1>6 DEF Request, eventVars
    <2>2. Out' = Out /\ Live' = Live
        BY <2>1 DEF Out, Live
    <2> QED
        BY <1>c, <1>d, <2>1, <2>2
<1>7. ASSUME NEW t \in Program, Subscribed(t)
      PROVE  OrderAfter
    <2>1. /\ UNCHANGED <<latest, computed, queue, hand, calls, ran, overtaken, subs>>
          /\ pc' = [pc EXCEPT ![t] = "idle"] /\ pc[t] \notin {"pump", "destroy"} /\ t \in Threads
        BY <1>7, Places DEF Subscribed, historyVars, Threads
    <2>2. pc'["main"] \in {"pump", "destroy"} <=> pc["main"] \in {"pump", "destroy"}
        BY <1>e, <2>1
    <2>3. Out' = Out /\ Live' = Live
        BY <2>1, <2>2 DEF Out, Live
    <2> QED
        BY <1>c, <1>d, <2>1, <2>3
<1>8. ASSUME NEW t \in Threads, Enqueue(t)
      PROVE  OrderAfter
    <2>1. OrderSame
        BY <1>8, EnqueueOrder
    <2>2. UNCHANGED <<latest, computed, calls, ran, overtaken, subs>>
        BY <1>8 DEF Enqueue, historyVars
    <2>3. Live' = Live
        BY <2>2 DEF Live
    <2> QED
        BY <1>c, <2>1, <2>2, <2>3
<1>9. ASSUME NEW t \in Threads, Run(t)
      PROVE  OrderAfter
    BY <1>9, RunOrder DEF OrderAfter
<1>10. ASSUME NEW t \in Threads, NEW r \in Requests, RequestRefused(t, r)
       PROVE  OrderAfter
    <2>1. /\ UNCHANGED <<latest, computed, queue, hand, pc, calls, overtaken, subs>>
          /\ ran' = [ran EXCEPT ![r] = Append(@, ShutDown)]
        BY <1>10 DEF RequestRefused, eventVars
    <2>2. Out' = Out /\ Live' = Live
        BY <2>1 DEF Out, Live
    <2>3. ASSUME NEW u \in Requests, NEW n \in Range(ran'[u])
          PROVE  n \in Range(ran[u]) \/ RanInOrder(n)
        <3>1. CASE u # r
            BY <2>1, <2>3, <3>1 DEF TypeOK
        <3>2. CASE u = r
            <4>1. ran'[u] = Append(ran[u], ShutDown) /\ ran[u] \in Seq(Lost..MaxResults \cup {ShutDown})
                BY <2>1, <3>2 DEF TypeOK
            <4>2. Range(Append(ran[u], ShutDown)) \subseteq Range(ran[u]) \cup {ShutDown}
                BY <4>1, AppendProperties, LenProperties DEF Range
            <4> QED
                BY <2>3, <4>1, <4>2 DEF RanInOrder, ShutDown
        <3> QED
            BY <3>1, <3>2
    <2>4. OrderSame
        BY <1>d, <2>1, <2>2
    <2> QED
        BY <1>b, <2>1, <2>2, <2>3, <2>4, OrderKept DEF OrderSame, OrderAfter
<1>11. ASSUME Pump PROVE OrderAfter
    <2>1. OrderSame
        BY <1>11, PumpOrder
    <2>2. UNCHANGED <<latest, computed, calls, ran, overtaken, subs>>
        BY <1>11 DEF Pump, historyVars
    <2>3. Live' = Live
        BY <2>2 DEF Live
    <2> QED
        BY <1>c, <2>1, <2>2, <2>3
<1>12. ASSUME BeginShutdown PROVE OrderAfter
    <2>1. /\ hand' = [hand EXCEPT !["main"] = Completions(pending, ShutDown)]
          /\ pc["main"] = "idle" /\ pc' = [pc EXCEPT !["main"] = "join"]
          /\ UNCHANGED <<latest, computed, queue, calls, ran, overtaken>>
          /\ subs' = subs \/ subs' = <<>>
        BY <1>12 DEF BeginShutdown, historyVars, Idle, Program
    <2>2. PICK s : s = Completions(pending, ShutDown)
        OBVIOUS
    <2>3. s \in Seq(Event) /\ Still(s) /\ CachedOf(s) = {}
        <3>1. ShutDown \in {Lost, ShutDown} /\ IsFiniteSet(pending) /\ pending \subseteq Requests
            BY DEF TypeOK
        <3> QED
            BY <1>f, <2>2, <3>1
    <2>4. /\ hand' = [hand EXCEPT !["main"] = s] /\ hand["main"] = <<>> /\ "main" \in Threads
          /\ pc["main"] \notin {"pump", "destroy"} /\ pc'["main"] \notin {"pump", "destroy"}
        BY <1>e, <2>1, <2>2 DEF ThreadInv, Idle
    <2>5. OrderSame
        <3>1. pc'["main"] \in {"pump", "destroy"} <=> pc["main"] \in {"pump", "destroy"}
            BY <2>4
        <3>2. "main" # "main" \/ pc["main"] \notin {"pump", "destroy"}
            BY <2>4
        <3>3. hand' = [hand EXCEPT !["main"] = s] /\ hand["main"] = <<>> /\ "main" \in Threads
            BY <2>4
        <3>4. queue' = queue
            BY <2>1
        <3> QED
            BY <2>3, <3>1, <3>2, <3>3, <3>4, HandStill
    <2>6. Live' \subseteq Live
        <3>1. Range(<<>>) = {}
            BY RangeSingle
        <3> QED
            BY <2>1, <3>1 DEF Live
    <2> QED
        BY <1>c, <2>1, <2>5, <2>6
<1>13. ASSUME Drain PROVE OrderAfter
    <2>1. OrderSame
        BY <1>13, DrainOrder
    <2>2. UNCHANGED <<latest, computed, calls, ran, overtaken, subs>>
        BY <1>13 DEF Drain, historyVars
    <2>3. Live' = Live
        BY <2>2 DEF Live
    <2> QED
        BY <1>c, <2>1, <2>2, <2>3
<1>14. ASSUME Return \/ Connection \/ Join \/ UNCHANGED vars PROVE OrderAfter
    <2>1. UNCHANGED <<latest, computed, queue, hand, pc, calls, ran, overtaken, subs>>
        BY <1>14, ConnectionSteps DEF Return, deliveryVars, vars, eventVars, historyVars
    <2>2. Out' = Out /\ Live' = Live
        BY <2>1 DEF Out, Live
    <2> QED
        BY <1>c, <1>d, <2>1, <2>2
<1>15. OrderAfter
    BY <1>1, <1>2, <1>3, <1>4, <1>5, <1>6, <1>7, <1>8, <1>9, <1>10, <1>11, <1>12, <1>13, <1>14
    DEF Next, Produce, Call, Deliver, Destroy
<1> QED
    BY <1>a, <1>15 DEF OrderInv, OrderAfter

\* Results and successes are in order, always.
LEMMA OrderInvariant == Spec => []OrderInv
<1>1. Init => OrderInv
    <2> SUFFICES ASSUME Init PROVE OrderInv
        OBVIOUS
    <2>1. /\ queue = <<>> /\ hand["ws"] = <<>> /\ Out = <<>> /\ subs = <<>> /\ phase = "alive"
          /\ latest = NoResult /\ pc["main"] = "idle" /\ \A t \in Threads : hand[t] = <<>>
          /\ computed = 0
        BY Places DEF Init, Out
    <2>2. /\ FreshOf(<<>>) = {} /\ CachedOf(<<>>) = {} /\ DueOf(<<>>) = {} /\ Still(<<>>)
          /\ Range(<<>>) = {}
        BY RangeSingle
    <2>3. (\A x \in Subscribers : calls[x] = <<>>) /\ (\A r \in Requests : ran[r] = <<>>)
        BY DEF Init, Listeners
    <2>4. Called = {} /\ Recalled = {} /\ Brought = {} /\ AllTold = {}
        BY <2>1, <2>2, <2>3 DEF Called, Recalled, Brought, AllTold
    <2>5. PlaceInv
        BY <2>1, <2>2 DEF PlaceInv
    <2>6. BoundInv
        BY <2>1, <2>2, <2>3, <2>4 DEF BoundInv
    <2>7. Way(Out, queue, hand["ws"], Called \cup Recalled, Settled, Live)
        <3>1. Rising(<<>>, Called \cup Recalled) /\ Covered(<<>>, Settled, Live)
            BY <2>2, StillOrder
        <3> QED
            BY <2>1, <3>1, WayAlone
    <2>8. RisingInv
        BY <2>4, <2>7 DEF RisingInv, Way
    <2>9. LatestInv
        BY <2>1, <2>3 DEF LatestInv
    <2>10. EffectInv
        BY <2>2, <2>3, <2>7 DEF EffectInv, Way
    <2> QED
        BY <2>5, <2>6, <2>8, <2>9, <2>10 DEF OrderInv
<1>2. TypeOK /\ TypeOK' /\ ThreadInv /\ SubsInv /\ OrderInv /\ [Next]_vars => OrderInv'
    BY OrderStep
<1>3. DeliveryInv => TypeOK /\ ThreadInv
    BY DEF DeliveryInv
<1> QED
    BY <1>1, <1>2, <1>3, DeliveryInvariant, ListenerInvariant, PTL DEF Spec

\* A success is heard of after the results it was held for: no subscription that
\* has been called at all has then only been called with older ones (client.cpp
\* ws_message's order of events, deliver, do_process_events).
THEOREM EffectsBeforeSuccess == Spec => []EffectsFirst
<1>1. TypeOK /\ AnswerInv /\ OrderInv => EffectsFirst
    <2> SUFFICES ASSUME TypeOK, AnswerInv, OrderInv,
                        NEW r \in Requests, NEW x \in Range(subs) \cap Subscribers,
                        ran[r] # <<>>, calls[x] # <<>>
                 PROVE  Head(ran[r]) <= Newest(calls[x])
        BY DEF EffectsFirst
    <2>1. PICK n : n = Head(ran[r])
        OBVIOUS
    <2>2. n \in Range(ran[r]) /\ n \in Int /\ computed \in Nat /\ MaxResults \in Nat
        <3>1. ran[r] \in Seq(Lost..MaxResults \cup {ShutDown})
            BY DEF TypeOK
        <3>2. n \in Range(ran[r])
            BY <2>1, <3>1, RangeTail
        <3> QED
            BY <3>1, <3>2, ElementOfSeq, LenProperties, DeliveryAssumption DEF Range, Lost, ShutDown, TypeOK
    <2>3. /\ calls[x] \in Seq(1..MaxResults) /\ x \in Live
          /\ Newest(calls[x]) \in Range(calls[x]) /\ \A v \in Range(calls[x]) : v <= Newest(calls[x])
        <3>1. calls[x] \in Seq(1..MaxResults)
            BY DEF TypeOK, Listeners
        <3> QED
            BY <3>1, NewestIs DEF Live
    <2>4. Newest(calls[x]) \in 1..MaxResults
        BY <2>3, ElementOfSeq, LenProperties DEF Range
    <2>5. CASE n < 1
        BY <2>1, <2>2, <2>4, <2>5
    <2>6. CASE n >= 1
        <3>1. PICK v \in n..MaxResults : <<x, v>> \in Settled
            BY <2>2, <2>3, <2>6 DEF OrderInv, EffectInv
        <3>2. v \in 1..MaxResults
            BY <2>2, <2>6, <3>1
        <3>3. PICK p \in Settled : p = <<x, v>>
            BY <3>1
        <3>4. \/ \E u \in v..MaxResults : <<x, u>> \in Called
              \/ \A u \in 1..MaxResults : <<x, u>> \in AllTold => v <= u
            BY <3>3 DEF Settled
        <3>5. CASE \E u \in v..MaxResults : <<x, u>> \in Called
            <4>1. PICK u \in v..MaxResults : <<x, u>> \in Called
                BY <3>5
            <4>2. u \in Range(calls[x])
                BY <4>1 DEF Called
            <4>3. u <= Newest(calls[x])
                BY <2>3, <4>2
            <4> QED
                BY <2>1, <2>2, <2>4, <3>1, <3>2, <4>1, <4>3
        <3>6. CASE \A u \in 1..MaxResults : <<x, u>> \in AllTold => v <= u
            <4>1. <<x, Newest(calls[x])>> \in AllTold
                BY <2>3, <2>4 DEF Called, AllTold
            <4>2. v <= Newest(calls[x])
                BY <2>4, <3>6, <4>1
            <4> QED
                BY <2>1, <2>2, <2>4, <3>1, <3>2, <4>2
        <3> QED
            BY <3>4, <3>5, <3>6
    <2> QED
        BY <2>2, <2>5, <2>6
<1>2. DeliveryInv => TypeOK /\ AnswerInv
    BY DEF DeliveryInv
<1> QED
    BY <1>1, <1>2, DeliveryInvariant, OrderInvariant, PTL

\* When nothing is on its way, every subscription was last called with the latest
\* result, unless a cached one overtook it (client.cpp do_subscribe, ws_message,
\* deliver).
THEOREM CurrentWhenQuiet == Spec => []QuietIsCurrent
<1>1. TypeOK /\ OrderInv => QuietIsCurrent
    <2> SUFFICES ASSUME TypeOK, OrderInv, queue = <<>>, \A t \in Threads : hand[t] = <<>>,
                        NEW x \in Range(subs) \cap Subscribers, latest # NoResult
                 PROVE  /\ calls[x] # <<>>
                        /\ Last(calls[x]) = latest \/ x \in overtaken
        BY DEF QuietIsCurrent
    <2>1. /\ FreshOf(<<>>) = {} /\ CachedOf(<<>>) = {} /\ hand["ws"] = <<>> /\ Out = <<>>
        BY RangeSingle, Places DEF Out
    <2>2. AllTold = Called
        BY <2>1 DEF AllTold, Recalled, Brought
    <2>3. <<x, latest>> \in Called /\ latest = computed
        BY <2>2 DEF OrderInv, LatestInv, Live, TypeOK
    <2>4. latest \in Range(calls[x]) /\ calls[x] \in Seq(1..MaxResults)
        BY <2>3 DEF Called, TypeOK, Listeners
    <2>5. calls[x] # <<>>
        BY <2>4 DEF Range
    <2>6. Newest(calls[x]) = latest
        <3>1. Newest(calls[x]) \in Range(calls[x]) /\ latest <= Newest(calls[x])
            BY <2>4, <2>5, NewestIs
        <3>2. Newest(calls[x]) \in 1..MaxResults
            BY <2>4, <3>1, ElementOfSeq, LenProperties DEF Range
        <3>3. <<x, Newest(calls[x])>> \in AllTold
            BY <3>1, <3>2 DEF AllTold, Called
        <3>4. PICK p \in AllTold : p = <<x, Newest(calls[x])>>
            BY <3>3
        <3>5. Newest(calls[x]) <= computed
            BY <3>4 DEF OrderInv, BoundInv
        <3> QED
            BY <2>3, <3>1, <3>2, <3>5, DeliveryAssumption DEF TypeOK
    <2>7. Last(calls[x]) = Newest(calls[x]) \/ x \in overtaken
        BY <2>5 DEF OrderInv, LatestInv
    <2> QED
        BY <2>5, <2>6, <2>7
<1>2. DeliveryInv => TypeOK
    BY DEF DeliveryInv
<1> QED
    BY <1>1, <1>2, DeliveryInvariant, OrderInvariant, PTL
=============================================================================
