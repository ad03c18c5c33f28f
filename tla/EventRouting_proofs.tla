-------------------------- MODULE EventRouting_proofs --------------------------
(***************************************************************************)
(* Proofs about EventRouting, for any services, configurations, app ids and  *)
(* run ids: a durable hands out what one of its services asked for, and       *)
(* services that are kept apart get the events of their own app and version. *)
(***************************************************************************)
EXTENDS EventRouting, SequenceTheorems, FiniteSetTheorems, TLAPS

\* The pieces that tokens are made of.
Pieces == {"_", "agent-runtime", "events", "v2", "type"} \cup UNION {Range(id) : id \in Apps \cup Runs}

Tokens == Seq(Pieces)

-----------------------------------------------------------------------------
(* The inductive invariant. *)

\* The filter of a durable is the one of a service that is configured with it, and
\* a service that is in its loop has subscribed to one that exists.
DurablesAreAskedFor ==
  /\ durables \in [Durables -> [filter : Seq(Tokens), handed : SUBSET Nat]]
  /\ \A d \in Durables : durables[d] # NoDurable =>
       \E t \in Services : Config[t].durable = d /\ durables[d].filter = Filter(t)
  /\ \A s \in Services : at[s] = "looping" => durables[Config[s].durable] # NoDurable

\* What a service got matches the filter of a service that shares its durable.
GotWhatMatches ==
  \A s \in Services : \A i \in got[s] :
    /\ i \in DOMAIN log
    /\ \E t \in Services :
         /\ Config[t].durable = Config[s].durable
         /\ Matches(Filter(t), Subject[log[i]])

\* The connection is of the kind that the configuration says, and the one that
\* run() opened is not open any more when it has ended.
ConnectionsFit ==
  \A s \in Services :
    /\ connection[s] \in {"open", "drained"} => Config[s].source = "url"
    /\ connection[s] = "lent" => Config[s].source = "connection"
    /\ at[s] = "ended" => connection[s] # "open"

IInv == TypeOK /\ DurablesAreAskedFor /\ GotWhatMatches /\ ConnectionsFit

-----------------------------------------------------------------------------
(* Lemmas about tokens and subjects. *)

LEMMA IsSequence ==
  ASSUME NEW S, NEW n \in Nat, NEW f \in [1 .. n -> S]
  PROVE  f \in Seq(S) /\ Len(f) = n /\ DOMAIN f = 1 .. n
OBVIOUS

LEMMA Single ==
  ASSUME NEW S, NEW x \in S
  PROVE  <<x>> \in Seq(S) /\ Len(<<x>>) = 1 /\ <<x>>[1] = x /\ DOMAIN <<x>> = {1}
OBVIOUS

\* The ids that are published or configured are made of pieces.
LEMMA IdIsPieces ==
  ASSUME NEW id \in Apps \cup Runs
  PROVE  id \in Seq(Pieces)
<1>1. id \in Seq(STRING)
  BY RoutingAssumption
<1>2. id \in Seq(Range(id))
  BY <1>1, SeqOfRange
<1>3. Range(id) \subseteq Pieces
  BY DEF Pieces
<1> QED
  BY <1>2, <1>3, SeqMonotonic

LEMMA TokenIsWord ==
  ASSUME NEW id \in Apps \cup Runs
  PROVE  /\ Token(id) \in Tokens /\ Token(id) # <<>>
         /\ \A i \in DOMAIN Token(id) : Token(id)[i] \notin {" ", "/", "*", ">"}
<1>1. "_" \in Pieces /\ id \in Seq(Pieces)
  BY IdIsPieces DEF Pieces
<1>2. CASE id = <<>>
  <2>1. Token(id) = <<"_">>
    BY <1>2 DEF Token
  <2>2. <<"_">> \in Seq(Pieces) /\ Len(<<"_">>) = 1 /\ <<"_">>[1] = "_" /\ DOMAIN <<"_">> = {1}
    BY <1>1, Single
  <2>3. <<"_">> # <<>> /\ \A i \in {1} : <<"_">>[i] \notin {" ", "/", "*", ">"}
    BY <2>2
  <2> QED
    BY <2>1, <2>2, <2>3 DEF Tokens
<1>3. CASE id # <<>>
  <2>1. Len(id) \in Nat \ {0} /\ DOMAIN id = 1 .. Len(id) /\ \A i \in 1 .. Len(id) : id[i] \in Pieces
    BY <1>1, <1>3, LenProperties, EmptySeq
  <2>2. Token(id) = [i \in 1 .. Len(id) |-> IF id[i] \in {" ", "/", "*", ">"} THEN "_" ELSE id[i]]
    BY <1>3, <2>1 DEF Token
  <2>3. Token(id) \in [1 .. Len(id) -> Pieces]
    BY <1>1, <2>1, <2>2
  <2>4. Token(id) \in Tokens /\ Len(Token(id)) = Len(id) /\ DOMAIN Token(id) = 1 .. Len(id)
    BY <2>1, <2>3, IsSequence DEF Tokens
  <2>5. Token(id) # <<>>
    BY <2>1, <2>4, EmptySeq DEF Tokens
  <2>6. \A i \in 1 .. Len(id) : Token(id)[i] \notin {" ", "/", "*", ">"}
    BY <2>2
  <2> QED
    BY <2>4, <2>5, <2>6
<1> QED
  BY <1>2, <1>3

\* nats_app_token makes one legal token of any id (nats.py:236-246).
LEMMA AppTokenIsLegal ==
  ASSUME NEW id \in Apps
  PROVE  AppToken(id) \in Tokens /\ Legal(AppToken(id))
<1> DEFINE token == Token(id)
<1>1. /\ token \in Seq(Pieces) /\ token # <<>>
      /\ \A i \in DOMAIN token : token[i] \notin {" ", "/", "*", ">"}
  BY TokenIsWord DEF Tokens
<1>2. AppToken(id) = [i \in DOMAIN token |-> IF token[i] = "." THEN "_" ELSE token[i]]
  BY DEF AppToken
<1> HIDE DEF token
<1>3. Len(token) \in Nat \ {0} /\ DOMAIN token = 1 .. Len(token)
      /\ \A i \in 1 .. Len(token) : token[i] \in Pieces
  BY <1>1, LenProperties, EmptySeq
<1>4. AppToken(id) \in [1 .. Len(token) -> Pieces]
  BY <1>2, <1>3 DEF Pieces
<1>5. AppToken(id) \in Seq(Pieces) /\ Len(AppToken(id)) = Len(token)
      /\ DOMAIN AppToken(id) = 1 .. Len(token)
  BY <1>3, <1>4, IsSequence
<1>6. AppToken(id) # <<>>
  BY <1>3, <1>5, EmptySeq
<1>7. \A i \in DOMAIN AppToken(id) : AppToken(id)[i] \notin {".", " ", "/", "*", ">"}
  BY <1>1, <1>2, <1>3, <1>5
<1> QED
  BY <1>5, <1>6, <1>7 DEF Legal, Range, Tokens

\* A token that is split at its dots is a sequence.
LEMMA SplitIsSequence ==
  ASSUME NEW token \in Tokens
  PROVE  SplitDots(token) \in Seq(Range(SplitDots(token)))
<1> DEFINE dots == {i \in DOMAIN token : token[i] = "."}
           split == SplitDots(token)
<1>1. DOMAIN token = 1 .. Len(token) /\ Len(token) \in Nat
  BY LenProperties DEF Tokens
<1>2. IsFiniteSet(dots) /\ Cardinality(dots) \in Nat
  <2>1. IsFiniteSet(1 .. Len(token)) /\ dots \in SUBSET (1 .. Len(token))
    BY <1>1, FS_Interval
  <2> QED
    BY <2>1, FS_Subset, FS_CardinalityType
<1>3. split = [n \in 1 .. Cardinality(dots) + 1 |-> split[n]]
  BY DEF SplitDots
<1> HIDE DEF dots, split
<1>4. split \in [1 .. Cardinality(dots) + 1 -> Range(split)]
  BY <1>3 DEF Range
<1>5. split \in Seq(Range(split))
  BY <1>2, <1>4, IsSequence
<1> QED
  BY <1>5 DEF split

\* The tokens of a subject family, of a filter, and the first ones of a subject.
LEMMA FamilyTokens ==
  /\ Family("v1") \in Seq(Tokens) /\ Len(Family("v1")) = 2
  /\ Family("v2") \in Seq(Tokens) /\ Len(Family("v2")) = 3 /\ Family("v2")[3] = <<"v2">>
  /\ \A version \in {"v1", "v2"} : \A token \in Range(Family(version)) : Legal(token)
<1> DEFINE stem == <<<<"agent-runtime">>, <<"events">>>>
           v2 == <<<<"v2">>>>
<1>1. \A x \in {"agent-runtime", "events", "v2"} : <<x>> \in Tokens /\ Legal(<<x>>)
  <2> SUFFICES ASSUME NEW x \in {"agent-runtime", "events", "v2"}
               PROVE  <<x>> \in Tokens /\ Legal(<<x>>)
    OBVIOUS
  <2>1. x \in Pieces
    BY DEF Pieces
  <2>2. <<x>> \in Seq(Pieces) /\ Len(<<x>>) = 1 /\ <<x>>[1] = x /\ DOMAIN <<x>> = {1}
    BY <2>1, Single
  <2>3. Range(<<x>>) = {x}
    BY <2>2 DEF Range
  <2>4. <<x>> # <<>>
    OBVIOUS
  <2> QED
    BY <2>2, <2>3, <2>4 DEF Legal, Tokens
<1>2. /\ stem \in Seq(Tokens) /\ Len(stem) = 2 /\ stem[1] = <<"agent-runtime">> /\ stem[2] = <<"events">>
      /\ v2 \in Seq(Tokens) /\ Len(v2) = 1 /\ v2[1] = <<"v2">>
  BY <1>1
<1>3. Family("v1") = stem
  <2>1. Family("v1") = stem \o <<>>
    BY DEF Family
  <2> QED
    BY <1>2, <2>1, ConcatEmptySeq
<1>4. Family("v2") = stem \o v2
  BY DEF Family
<1> HIDE DEF stem, v2
<1>5. /\ stem \o v2 \in Seq(Tokens) /\ Len(stem \o v2) = 3
      /\ \A i \in 1 .. 3 : (stem \o v2)[i] = IF i <= 2 THEN stem[i] ELSE v2[i - 2]
  BY <1>2, ConcatProperties
<1>6. (stem \o v2)[3] = <<"v2">> /\ \A i \in 1 .. 3 : Legal((stem \o v2)[i])
  BY <1>1, <1>2, <1>5
<1>7. \A i \in 1 .. 2 : Legal(stem[i])
  BY <1>1, <1>2
<1>8. DOMAIN stem = 1 .. 2 /\ DOMAIN (stem \o v2) = 1 .. 3
  BY <1>2, <1>5, LenProperties
<1> QED
  BY <1>2, <1>3, <1>4, <1>5, <1>6, <1>7, <1>8 DEF Range

LEMMA FilterTokens ==
  ASSUME NEW version \in {"v1", "v2"}, NEW app \in Apps
  PROVE  /\ AppEvents(version, app) \in Seq(Tokens)
         /\ \A token \in Range(AppEvents(version, app)) : Legal(token)
         /\ version = "v1" =>
              Len(AppEvents(version, app)) = 3 /\ AppEvents(version, app)[3] = AppToken(app)
         /\ version = "v2" =>
              /\ Len(AppEvents(version, app)) = 4
              /\ AppEvents(version, app)[3] = <<"v2">> /\ AppEvents(version, app)[4] = AppToken(app)
<1> DEFINE family == Family(version)
           last == <<AppToken(app)>>
<1>1. AppEvents(version, app) = family \o last
  BY DEF AppEvents
<1>2. AppToken(app) \in Tokens /\ Legal(AppToken(app))
  BY AppTokenIsLegal
<1>3. last \in Seq(Tokens) /\ Len(last) = 1 /\ last[1] = AppToken(app)
  BY <1>2, Single
<1>4. /\ family \in Seq(Tokens) /\ Len(family) \in {2, 3}
      /\ version = "v1" => Len(family) = 2
      /\ version = "v2" => Len(family) = 3 /\ family[3] = <<"v2">>
      /\ \A token \in Range(family) : Legal(token)
  BY FamilyTokens
<1> HIDE DEF family, last
<1>5. /\ family \o last \in Seq(Tokens) /\ Len(family \o last) = Len(family) + 1
      /\ \A i \in 1 .. Len(family) + 1 :
           (family \o last)[i] = IF i <= Len(family) THEN family[i] ELSE last[i - Len(family)]
  <2>1. /\ family \o last \in Seq(Tokens) /\ Len(family \o last) = Len(family) + Len(last)
        /\ \A i \in 1 .. Len(family) + Len(last) :
             (family \o last)[i] = IF i <= Len(family) THEN family[i] ELSE last[i - Len(family)]
    BY <1>3, <1>4, ConcatProperties
  <2> QED
    BY <1>3, <2>1
<1>6. DOMAIN family = 1 .. Len(family) /\ DOMAIN (family \o last) = 1 .. Len(family) + 1
  BY <1>4, <1>5, LenProperties
<1>7. \A i \in 1 .. Len(family) + 1 :
        (family \o last)[i] \in Range(family) \/ (family \o last)[i] = AppToken(app)
  BY <1>3, <1>4, <1>5, <1>6 DEF Range
<1>8. \A token \in Range(family \o last) : Legal(token)
  BY <1>2, <1>4, <1>6, <1>7 DEF Range
<1> QED
  BY <1>1, <1>3, <1>4, <1>5, <1>8

LEMMA SubjectTokens ==
  ASSUME NEW e \in Events
  PROVE  /\ \E S : Subject[e] \in Seq(S)
         /\ e.version = "v1" => Subject[e][3] = AppToken(e.app)
         /\ e.version = "v2" => Subject[e][3] = <<"v2">> /\ Subject[e][4] = AppToken(e.app)
<1> DEFINE rest == SplitDots(Token(e.run)) \o <<<<"type">>>>
           first == AppEvents(e.version, e.app)
<1>1. e.app \in Apps /\ e.run \in Runs /\ e.version \in {"v1", "v2"}
  BY DEF Events
<1>2. PICK S : SplitDots(Token(e.run)) \in Seq(S)
  BY <1>1, TokenIsWord, SplitIsSequence
<1> DEFINE All == S \cup Tokens \cup {<<"type">>}
<1>3. SplitDots(Token(e.run)) \in Seq(All) /\ <<<<"type">>>> \in Seq(All)
  BY <1>2, Single, SeqMonotonic
<1>4. rest \in Seq(All)
  BY <1>3, ConcatProperties
<1>5. first \in Seq(All)
  BY <1>1, FilterTokens, SeqMonotonic
<1>6. Subject[e] = first \o rest
  <2>1. Family(e.version) \in Seq(Tokens) /\ AppToken(e.app) \in Tokens
    BY <1>1, FamilyTokens, AppTokenIsLegal
  <2>2. Family(e.version) \in Seq(All) /\ <<AppToken(e.app)>> \in Seq(All)
    BY <2>1, Single, SeqMonotonic
  <2>3. (Family(e.version) \o <<AppToken(e.app)>>) \o SplitDots(Token(e.run)) \in Seq(All)
    BY <1>3, <2>2, ConcatProperties
  <2> QED
    BY <1>3, <2>2, <2>3, ConcatProperties, ConcatAssociative DEF Subject, AppEvents
<1> HIDE DEF rest, first
<1>7. first \o rest \in Seq(All) /\ Len(rest) \in Nat
      /\ \A i \in 1 .. Len(first) : (first \o rest)[i] = first[i]
  BY <1>4, <1>5, ConcatProperties, LenProperties
<1>8. /\ e.version = "v1" => Len(first) = 3 /\ first[3] = AppToken(e.app)
      /\ e.version = "v2" => Len(first) = 4 /\ first[3] = <<"v2">> /\ first[4] = AppToken(e.app)
  BY <1>1, FilterTokens DEF first
<1> QED
  BY <1>6, <1>7, <1>8

LEMMA PrefixTokens ==
  ASSUME NEW S, NEW T, NEW s \in Seq(S), NEW t \in Seq(T), IsStrictPrefix(s, t)
  PROVE  \A i \in 1 .. Len(s) : s[i] = t[i]
<1>1. Len(s) \in Nat /\ Len(t) \in Nat /\ Len(s) <= Len(t)
      /\ SubSeq(s, 1, Len(s)) = SubSeq(t, 1, Len(s))
  BY LenProperties DEF IsStrictPrefix, IsPrefix
<1>2. /\ \A i \in 1 .. Len(s) : s[i] \in S
      /\ \A i \in 1 .. Len(s) : t[i] \in T
  BY <1>1, ElementOfSeq
<1>3. /\ \A i \in 1 .. Len(s) - 1 + 1 : SubSeq(s, 1, Len(s))[i] = s[1 + i - 1]
      /\ \A i \in 1 .. Len(s) - 1 + 1 : SubSeq(t, 1, Len(s))[i] = t[1 + i - 1]
  BY <1>1, <1>2, SubSeqProperties
<1> QED
  BY <1>1, <1>3

\* Among services that are kept apart a filter matches the events of its app and
\* version only: apps differ in the token behind the family, and no app has the
\* token that makes a v1 subject one of v2, or the other way round.
LEMMA MatchesItsOwn ==
  ASSUME Separated, NEW s \in Services, NEW e \in Events, Matches(Filter(s), Subject[e])
  PROVE  Wants(s, e)
<1>1. /\ Config[s].app \in Apps /\ Config[s].version \in {"v1", "v2"}
      /\ e.app \in Apps /\ e.version \in {"v1", "v2"}
  BY RoutingAssumption DEF Configs, Events
<1>2. \A i \in 1 .. Len(Filter(s)) : Filter(s)[i] = Subject[e][i]
  BY <1>1, FilterTokens, SubjectTokens, PrefixTokens DEF Matches, Filter
<1>3. /\ Config[s].version = "v1" => Filter(s)[3] = AppToken(Config[s].app)
                                   /\ Filter(s)[3] = Subject[e][3]
      /\ Config[s].version = "v2" => /\ Filter(s)[3] = <<"v2">> /\ Filter(s)[3] = Subject[e][3]
                                     /\ Filter(s)[4] = AppToken(Config[s].app)
                                     /\ Filter(s)[4] = Subject[e][4]
  BY <1>1, <1>2, FilterTokens DEF Filter
<1>4. /\ AppToken(e.app) # <<"v2">> /\ AppToken(Config[s].app) # <<"v2">>
      /\ AppToken(e.app) = AppToken(Config[s].app) => e.app = Config[s].app
  BY <1>1 DEF Separated
<1> QED
  BY <1>1, <1>3, <1>4, SubjectTokens DEF Wants

-----------------------------------------------------------------------------
(* The invariant. *)

\* A service's configuration, and the filter that it subscribes with.
LEMMA ConfigTypes ==
  ASSUME NEW s \in Services
  PROVE  /\ Config[s].durable \in Durables
         /\ Config[s].source \in {"url", "connection"}
         /\ Config[s].subjects \in SUBSET Families
         /\ Filter(s) \in Seq(Tokens) /\ Filter(s) # <<>>
         /\ \A token \in Range(Filter(s)) : Legal(token)
<1>1. Config[s] \in Configs
  BY RoutingAssumption
<1>2. Config[s].app \in Apps /\ Config[s].version \in {"v1", "v2"}
  BY <1>1 DEF Configs
<1>3. Filter(s) \in Seq(Tokens) /\ Len(Filter(s)) \in {3, 4}
      /\ \A token \in Range(Filter(s)) : Legal(token)
  BY <1>2, FilterTokens DEF Filter
<1>4. Filter(s) # <<>>
  BY <1>3, EmptySeq
<1> QED
  BY <1>1, <1>3, <1>4 DEF Configs, Durables

LEMMA Initially == Init => IInv
<1> SUFFICES ASSUME Init PROVE IInv
  OBVIOUS
<1>1. <<>> \in Seq(Events) /\ Len(<<>>) = 0 /\ <<>> \in Seq(Tokens) /\ Range(<<>>) = {}
  BY EmptySeq DEF Range
<1>2. MaxEvents \in Nat /\ MaxFaults \in Nat
  BY RoutingAssumption
<1>3. NoDurable.filter = <<>> /\ NoDurable.handed = {}
      /\ NoDurable \in [filter : Seq(Tokens), handed : SUBSET Nat]
  BY <1>1 DEF NoDurable
<1>4. TypeOK
  BY <1>1, <1>2, <1>3 DEF Init, TypeOK, NoStream
<1>5. DurablesAreAskedFor
  BY <1>3 DEF Init, DurablesAreAskedFor
<1>6. GotWhatMatches /\ ConnectionsFit
  BY DEF Init, GotWhatMatches, ConnectionsFit
<1> QED
  BY <1>4, <1>5, <1>6 DEF IInv

\* The log keeps what it has when an event is published.
LEMMA PublishStep == IInv /\ Publish => IInv'
<1> SUFFICES ASSUME IInv, Publish PROVE IInv'
  OBVIOUS
<1>1. PICK e \in Events : log' = Append(log, e)
  BY DEF Publish
<1>2. Len(log) < MaxEvents /\ UNCHANGED <<stream, durables, at, connection, got, faults>>
  BY DEF Publish
<1>3. log \in Seq(Events) /\ Len(log) \in Nat /\ DOMAIN log = 1 .. Len(log) /\ MaxEvents \in Nat
  BY LenProperties, RoutingAssumption DEF IInv, TypeOK
<1>4. /\ log' \in Seq(Events) /\ Len(log') = Len(log) + 1
      /\ \A i \in 1 .. Len(log) : log'[i] = log[i]
  BY <1>1, <1>3, AppendProperties
<1>5. DOMAIN log' = 1 .. Len(log) + 1
  BY <1>4, LenProperties
<1>6. DOMAIN log \subseteq DOMAIN log' /\ \A i \in DOMAIN log : log'[i] = log[i]
  BY <1>3, <1>4, <1>5
<1>7. TypeOK'
  <2>1. \A d \in Durables : durables'[d].handed \subseteq DOMAIN log'
    BY <1>2, <1>6 DEF IInv, TypeOK
  <2>2. Len(log') <= MaxEvents
    BY <1>2, <1>3, <1>4
  <2> QED
    BY <1>2, <1>4, <2>1, <2>2 DEF IInv, TypeOK
<1>8. DurablesAreAskedFor' /\ ConnectionsFit'
  BY <1>2 DEF IInv, DurablesAreAskedFor, ConnectionsFit
<1>9. GotWhatMatches'
  BY <1>2, <1>6 DEF IInv, GotWhatMatches
<1> QED
  BY <1>7, <1>8, <1>9 DEF IInv

\* A step of the start-up before the subscription is about the stream and the
\* connection only.
LEMMA StartStep ==
  ASSUME IInv, NEW s \in Services, Connect(s) \/ FindStream(s) \/ AddStream(s)
  PROVE  IInv'
<1>1. UNCHANGED <<log, durables, got, faults>>
  BY DEF Connect, FindStream, AddStream, server
<1>2. PICK step \in {"checking", "adding", "subscribing"} : at' = [at EXCEPT ![s] = step]
  BY DEF Connect, FindStream, AddStream, Goto
<1>3. stream' \in SUBSET Families
  BY ConfigTypes DEF Connect, FindStream, AddStream, server, IInv, TypeOK
<1>4. \/ connection' = connection
      \/ connection' = [connection EXCEPT ![s] = IF Config[s].source = "url" THEN "open" ELSE "lent"]
  BY DEF Connect, FindStream, AddStream
<1>5. TypeOK'
  BY <1>1, <1>2, <1>3, <1>4 DEF IInv, TypeOK
<1>6. DurablesAreAskedFor'
  BY <1>1, <1>2 DEF IInv, TypeOK, DurablesAreAskedFor
<1>7. GotWhatMatches'
  BY <1>1 DEF IInv, GotWhatMatches
<1>8. ConnectionsFit'
  BY <1>2, <1>4, ConfigTypes DEF IInv, TypeOK, ConnectionsFit
<1> QED
  BY <1>5, <1>6, <1>7, <1>8 DEF IInv

\* A subscription creates the durable with the service's own filter, or leaves it.
LEMMA SubscribeStep ==
  ASSUME IInv, NEW s \in Services, Subscribe(s)
  PROVE  IInv'
<1> DEFINE d == Config[s].durable
<1>1. /\ UNCHANGED <<stream, log, connection, got, faults>>
      /\ at' = [at EXCEPT ![s] = "looping"]
      /\ durables' = IF durables[d] # NoDurable THEN durables
                     ELSE [durables EXCEPT ![d].filter = Filter(s)]
  BY DEF Subscribe, Goto
<1>2. /\ d \in Durables /\ Filter(s) \in Seq(Tokens) /\ Filter(s) # <<>>
      /\ \A token \in Range(Filter(s)) : Legal(token)
  BY ConfigTypes
<1> HIDE DEF d
<1>3. durables \in [Durables -> [filter : Seq(Tokens), handed : SUBSET Nat]]
  BY DEF IInv, DurablesAreAskedFor
<1>4. /\ durables' \in [Durables -> [filter : Seq(Tokens), handed : SUBSET Nat]]
      /\ \A k \in Durables : durables'[k].handed = durables[k].handed
      /\ \A k \in Durables : durables[k] # NoDurable => durables'[k] = durables[k]
      /\ \A k \in Durables : k # d => durables'[k] = durables[k]
      /\ durables[d] = NoDurable => durables'[d].filter = Filter(s)
  BY <1>1, <1>2, <1>3
<1>5. \A k \in Durables : durables'[k].filter = durables[k].filter \/ durables'[k].filter = Filter(s)
  BY <1>4
<1>6. TypeOK'
  BY <1>1, <1>2, <1>4, <1>5 DEF IInv, TypeOK
<1>7. durables'[d] # NoDurable
  <2>1. NoDurable.filter = <<>>
    BY DEF NoDurable
  <2> QED
    BY <1>2, <1>4, <2>1
<1>8. DurablesAreAskedFor'
  <2>1. \A k \in Durables : durables'[k] # NoDurable =>
          \E t \in Services : Config[t].durable = k /\ durables'[k].filter = Filter(t)
    BY <1>2, <1>4 DEF IInv, DurablesAreAskedFor, d
  <2>2. \A t \in Services : at'[t] = "looping" => durables'[Config[t].durable] # NoDurable
    <3> SUFFICES ASSUME NEW t \in Services, at'[t] = "looping"
                 PROVE  durables'[Config[t].durable] # NoDurable
      OBVIOUS
    <3>1. CASE t = s
      BY <1>7, <3>1 DEF d
    <3>2. CASE t # s
      BY <1>1, <1>4, <3>2, ConfigTypes DEF IInv, TypeOK, DurablesAreAskedFor
    <3> QED
      BY <3>1, <3>2
  <2> QED
    BY <1>4, <2>1, <2>2 DEF DurablesAreAskedFor, Filter
<1>9. GotWhatMatches' /\ ConnectionsFit'
  BY <1>1 DEF IInv, TypeOK, GotWhatMatches, ConnectionsFit
<1> QED
  BY <1>6, <1>8, <1>9 DEF IInv

\* A service in its loop gets what matches the filter of its durable.
LEMMA ReceiveStep ==
  ASSUME IInv, NEW s \in Services, Receive(s)
  PROVE  IInv'
<1> DEFINE d == Config[s].durable
<1>1. PICK i \in DOMAIN log \ durables[d].handed :
        /\ Matches(durables[d].filter, Subject[log[i]])
        /\ durables' = [durables EXCEPT ![d].handed = @ \cup {i}]
        /\ got' = [got EXCEPT ![s] = @ \cup {i}]
  BY DEF Receive
<1>2. at[s] = "looping" /\ UNCHANGED <<stream, log, at, connection, faults>>
  BY DEF Receive
<1>3. d \in Durables
  BY ConfigTypes
<1>4. durables[d] # NoDurable
  BY <1>2 DEF IInv, DurablesAreAskedFor
<1>5. PICK t \in Services : Config[t].durable = d /\ durables[d].filter = Filter(t)
  BY <1>3, <1>4 DEF IInv, DurablesAreAskedFor
<1>6. i \in DOMAIN log /\ i \in 1 .. MaxEvents /\ i \in Nat
  <2>1. DOMAIN log = 1 .. Len(log) /\ Len(log) \in Nat /\ Len(log) <= MaxEvents /\ MaxEvents \in Nat
    BY LenProperties, RoutingAssumption DEF IInv, TypeOK
  <2> QED
    BY <2>1
<1>7. durables \in [Durables -> [filter : Seq(Tokens), handed : SUBSET Nat]]
  BY DEF IInv, DurablesAreAskedFor
<1> HIDE DEF d
<1>8. /\ durables' \in [Durables -> [filter : Seq(Tokens), handed : SUBSET Nat]]
      /\ \A k \in Durables : durables'[k].filter = durables[k].filter
      /\ \A k \in Durables : durables'[k].handed \subseteq durables[k].handed \cup {i}
      /\ \A k \in Durables : k # d => durables'[k] = durables[k]
      /\ durables'[d].handed # {}
  BY <1>1, <1>3, <1>6, <1>7
<1>9. durables'[d] # NoDurable
  BY <1>8 DEF NoDurable
<1>10. TypeOK'
  <2>1. got' \in [Services -> SUBSET (1 .. MaxEvents)]
    BY <1>1, <1>6 DEF IInv, TypeOK
  <2>2. \A k \in Durables : durables'[k].handed \subseteq DOMAIN log
    BY <1>6, <1>8 DEF IInv, TypeOK
  <2> QED
    BY <1>2, <1>8, <2>1, <2>2 DEF IInv, TypeOK
<1>11. DurablesAreAskedFor'
  <2>1. \A k \in Durables : durables'[k] # NoDurable =>
          \E u \in Services : Config[u].durable = k /\ durables'[k].filter = Filter(u)
    BY <1>4, <1>8 DEF IInv, DurablesAreAskedFor
  <2>2. \A u \in Services : at'[u] = "looping" => durables'[Config[u].durable] # NoDurable
    BY <1>2, <1>8, <1>9, ConfigTypes DEF IInv, DurablesAreAskedFor
  <2> QED
    BY <1>8, <2>1, <2>2 DEF DurablesAreAskedFor, Filter
<1>12. GotWhatMatches'
  <2>1. \A u \in Services : got'[u] = IF u = s THEN got[s] \cup {i} ELSE got[u]
    BY <1>1 DEF IInv, TypeOK
  <2>2. Config[t].durable = Config[s].durable /\ Matches(Filter(t), Subject[log[i]])
    BY <1>1, <1>5 DEF d
  <2> QED
    BY <1>2, <1>6, <2>1, <2>2 DEF IInv, GotWhatMatches
<1>13. ConnectionsFit'
  BY <1>2 DEF IInv, ConnectionsFit
<1> QED
  BY <1>10, <1>11, <1>12, <1>13 DEF IInv

\* However run() ends, and when it is started again.
LEMMA LeaveStep ==
  ASSUME IInv, NEW s \in Services, Fail(s) \/ Refuse(s) \/ Restart(s)
  PROVE  IInv'
<1>1. UNCHANGED <<stream, log, durables, got>> /\ faults' \in 0 .. MaxFaults
  BY RoutingAssumption DEF Fail, Refuse, Restart, server, IInv, TypeOK
<1>2. \/ /\ at' = [at EXCEPT ![s] = "ended"]
         /\ connection' = [connection EXCEPT ![s] = IF @ = "open" THEN "drained" ELSE @]
      \/ /\ at' = [at EXCEPT ![s] = "new"]
         /\ connection' = [connection EXCEPT ![s] = "none"]
  BY DEF Fail, Refuse, Restart, Leave, Goto
<1>3. TypeOK'
  BY <1>1, <1>2 DEF IInv, TypeOK
<1>4. DurablesAreAskedFor'
  BY <1>1, <1>2 DEF IInv, TypeOK, DurablesAreAskedFor
<1>5. GotWhatMatches'
  BY <1>1 DEF IInv, GotWhatMatches
<1>6. ConnectionsFit'
  BY <1>2 DEF IInv, TypeOK, ConnectionsFit
<1> QED
  BY <1>3, <1>4, <1>5, <1>6 DEF IInv

LEMMA Inductive == IInv /\ [Next]_vars => IInv'
<1> SUFFICES ASSUME IInv, [Next]_vars PROVE IInv'
  OBVIOUS
<1>1. CASE UNCHANGED vars
  BY <1>1 DEF vars, IInv, TypeOK, DurablesAreAskedFor, GotWhatMatches, ConnectionsFit
<1>2. ASSUME NEW s \in Services, FetchTimeout(s) PROVE IInv'
  BY <1>1, <1>2 DEF FetchTimeout
<1> QED
  BY <1>1, <1>2, PublishStep, StartStep, SubscribeStep, ReceiveStep, LeaveStep
  DEF Next, StartUp

LEMMA Invariance == Spec => []IInv
BY Initially, Inductive, PTL DEF Spec

-----------------------------------------------------------------------------
\* Every variable keeps its type; in particular every durable has a filter of legal
\* tokens, whatever the app ids are (nats.py:236-246).
THEOREM RoutingIsTyped == Spec => []TypeOK
<1>1. IInv => TypeOK
  BY DEF IInv
<1> QED
  BY <1>1, Invariance, PTL

\* However run() ends, at whatever step, it drains the connection that it opened and
\* leaves alone one that it was lent (nats.py:77-82, 101-103).
THEOREM ConnectionsAreHandledRight == Spec => []ConnectionsAreLeftRight
<1>1. IInv => ConnectionsAreLeftRight
  BY ConfigTypes DEF IInv, TypeOK, ConnectionsFit, ConnectionsAreLeftRight
<1> QED
  BY <1>1, Invariance, PTL

\* Services that are kept apart get the events of their own app and version only,
\* in whatever order they start, fail and are restarted (nats.py:158-178, 210-246).
THEOREM SeparatedServicesGetTheirOwn ==
  ASSUME Separated
  PROVE  Spec => []OwnEventsOnly
<1>1. ASSUME IInv PROVE OwnEventsOnly
  <2> SUFFICES ASSUME NEW s \in Services, NEW i \in got[s]
               PROVE  Wants(s, log[i])
    BY DEF OwnEventsOnly
  <2>1. PICK t \in Services : Config[t].durable = Config[s].durable
                              /\ Matches(Filter(t), Subject[log[i]])
    BY <1>1 DEF IInv, GotWhatMatches
  <2>2. log[i] \in Events
    BY <1>1, LenProperties, ElementOfSeq DEF IInv, TypeOK, GotWhatMatches
  <2>3. Wants(t, log[i])
    BY <2>1, <2>2, MatchesItsOwn
  <2> QED
    BY <2>1, <2>3 DEF Wants, Separated
<1>2. IInv => OwnEventsOnly
  BY <1>1
<1> QED
  BY <1>2, Invariance, PTL
=============================================================================
