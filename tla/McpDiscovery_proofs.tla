-------------------------- MODULE McpDiscovery_proofs --------------------------
(***************************************************************************)
(* Proofs about McpDiscovery, for any sites and any answers: a configuration  *)
(* that discover returns was checked, and it gives up only when every place    *)
(* was asked.                                                                *)
(***************************************************************************)
EXTENDS McpDiscovery, SequenceTheorems, TLAPS

-----------------------------------------------------------------------------
(* The inductive invariant. *)

\* The places to ask and the places that were asked are sequences.
Shape == TypeOK /\ candidates \in Seq(URLs) /\ requests \in Seq(URLs)

\* The second loop is about the server that the accepted document names first, and
\* the checks of that document were passed.
ChainIsChecked ==
  pc = "server" =>
    /\ issuer = resource.servers[1]
    /\ issuer \in Allowed
    /\ Named(resource) \in Allowed

\* A loop that goes on has had no useful answer from any place it is past.
NothingSkipped ==
  /\ pc = "challenge" => asked = 0
  /\ pc \in {"challenge", "resource", "server"} =>
       /\ error = "none" /\ ~useful
       /\ \A i \in 1 .. asked :
            candidates[i][1] \in Allowed => candidates[i] \in Range(requests)
  /\ pc \in {"validate", "returned"} => error = "none"

IInv ==
  /\ Shape /\ ChainIsChecked /\ NothingSkipped
  /\ ConfigurationIsChecked /\ UnavailableIsExhausted

-----------------------------------------------------------------------------
(* Lemmas about URLs. *)

LEMMA SiteTypes ==
  /\ Home \in Sites /\ Home \in Allowed /\ Allowed \subseteq Sites /\ NoSite \notin Sites
  /\ \A site \in Sites, d \in ResourceDocuments \cup ServerDocuments : <<site, d>> \in URLs
  /\ \A u \in URLs : u[1] \in Sites
BY SitesAssumption DEF URLs

\* A sequence of URLs with one more is one, and has what it had.
LEMMA AppendedURL ==
  ASSUME NEW urls \in Seq(URLs), NEW u \in URLs
  PROVE  /\ Append(urls, u) \in Seq(URLs)
         /\ Range(Append(urls, u)) = Range(urls) \cup {u}
<1>1. /\ Append(urls, u) \in Seq(URLs)
      /\ Len(Append(urls, u)) = Len(urls) + 1
      /\ \A i \in 1 .. Len(urls) : Append(urls, u)[i] = urls[i]
      /\ Append(urls, u)[Len(urls) + 1] = u
  BY AppendProperties
<1>2. Len(urls) \in Nat /\ DOMAIN urls = 1 .. Len(urls)
  BY LenProperties
<1>3. DOMAIN Append(urls, u) = 1 .. Len(urls) + 1
  BY <1>1, LenProperties
<1> QED
  BY <1>1, <1>2, <1>3 DEF Range

LEMMA AddedURL ==
  ASSUME NEW urls \in Seq(URLs), NEW u \in URLs
  PROVE  Adding(urls, u) \in Seq(URLs)
BY AppendedURL DEF Adding

\* The next candidate of a loop is a URL.
LEMMA CandidateIsURL ==
  ASSUME IInv, asked < Len(candidates)
  PROVE  /\ Candidate \in URLs /\ asked + 1 \in 1 .. Len(candidates)
         /\ asked \in Nat /\ Len(candidates) \in Nat
<1>1. candidates \in Seq(URLs) /\ Len(candidates) \in Nat /\ asked \in 0 .. Len(candidates)
  BY LenProperties DEF IInv, Shape, TypeOK
<1>2. asked + 1 \in 1 .. Len(candidates)
  BY <1>1
<1> QED
  BY <1>1, <1>2, ElementOfSeq DEF Candidate

\* What was requested stays requested.
LEMMA RequestAdded ==
  ASSUME IInv, asked < Len(candidates), requests' = Append(requests, Candidate)
  PROVE  /\ requests' \in Seq(URLs) /\ Range(requests') \subseteq URLs
         /\ Range(requests') = Range(requests) \cup {Candidate}
<1>1. Candidate \in URLs /\ requests \in Seq(URLs)
  BY CandidateIsURL DEF IInv, Shape
<1>2. requests' \in Seq(URLs) /\ Range(requests') = Range(requests) \cup {Candidate}
  BY <1>1, AppendedURL
<1> QED
  BY <1>2, RangeOfSeq

\* A document that passes all checks makes a configuration with allowed places only.
LEMMA AcceptedIsAllowed ==
  ASSUME NEW server \in Servers, Refusal(server) = "none"
  PROVE  /\ server.issuer = issuer
         /\ server.authorization \in Allowed /\ server.token \in Allowed
         /\ Registration(server) \in Allowed \cup {NoSite}
BY DEF Refusal, Registration, Valid

-----------------------------------------------------------------------------
(* The steps. *)

LEMMA Initially == Init => IInv
<1> SUFFICES ASSUME Init PROVE IInv
  OBVIOUS
<1>1. Shape
  <2>1. /\ <<>> \in Seq(URLs) /\ Len(<<>>) = 0
        /\ candidates = <<>> /\ requests = <<>> /\ asked = 0
    BY EmptySeq DEF Init
  <2>2. Range(candidates) \subseteq URLs /\ Range(requests) \subseteq URLs
    BY <2>1, RangeOfSeq
  <2>3. resource \in Resources
    BY DEF Init, NoResource, Resources, ServerLists
  <2>4. /\ pc = "challenge" /\ issuer = NoSite /\ config = NoConfig /\ error = "none"
        /\ useful = FALSE
    BY DEF Init
  <2>5. asked \in 0 .. Len(candidates) /\ DOMAIN config = DOMAIN NoConfig
        /\ \A field \in DOMAIN config : config[field] \in Sites \cup {NoSite}
    BY <2>1, <2>4 DEF NoConfig
  <2> QED
    BY <2>1, <2>2, <2>3, <2>4, <2>5 DEF Shape, TypeOK
<1>2. ChainIsChecked /\ NothingSkipped /\ ConfigurationIsChecked /\ UnavailableIsExhausted
  BY DEF Init, ChainIsChecked, NothingSkipped, ConfigurationIsChecked, UnavailableIsExhausted
<1> QED
  BY <1>1, <1>2 DEF IInv

LEMMA ChallengeStep == IInv /\ Challenge => IInv'
<1> SUFFICES ASSUME IInv, Challenge PROVE IInv'
  OBVIOUS
<1>1. candidates' \in Seq(URLs)
  <2>1. PICK named \in {<<>>} \cup {<<u>> : u \in Sites \X ResourceDocuments}, path \in {"path", "root"} :
          candidates' = Adding(Adding(named, <<Home, path>>), <<Home, "root">>)
    BY DEF Challenge
  <2>2. named \in Seq(URLs)
    <3>1. CASE named = <<>>
      BY <3>1, EmptySeq
    <3>2. CASE named \in {<<u>> : u \in Sites \X ResourceDocuments}
      <4>1. PICK u \in URLs : named = <<u>>
        BY <3>2 DEF URLs
      <4> QED
        BY <4>1
    <3> QED
      BY <3>1, <3>2
  <2>3. <<Home, path>> \in URLs /\ <<Home, "root">> \in URLs
    BY SiteTypes DEF ResourceDocuments
  <2>4. Adding(named, <<Home, path>>) \in Seq(URLs)
    BY <2>2, <2>3, AddedURL
  <2> QED
    BY <2>1, <2>3, <2>4, AddedURL
<1>2. Shape'
  <2>1. Range(candidates') \subseteq URLs /\ Len(candidates') \in Nat
    BY <1>1, RangeOfSeq, LenProperties
  <2>2. /\ pc' = "resource" /\ asked = 0
        /\ UNCHANGED <<asked, resource, issuer, config, error, requests, useful>>
    BY DEF Challenge, IInv, NothingSkipped
  <2>3. asked' \in 0 .. Len(candidates')
    BY <2>1, <2>2
  <2> QED
    BY <1>1, <2>1, <2>2, <2>3 DEF IInv, Shape, TypeOK
<1>3. (ChainIsChecked /\ NothingSkipped /\ ConfigurationIsChecked /\ UnavailableIsExhausted)'
  BY DEF Challenge, IInv, ChainIsChecked, NothingSkipped, ConfigurationIsChecked,
         UnavailableIsExhausted
<1> QED
  BY <1>2, <1>3 DEF IInv

LEMMA TryStep ==
  ASSUME IInv, NEW loop \in {"resource", "server"}, TryNext(loop)
  PROVE  IInv'
<1>1. /\ pc = loop /\ pc' = loop /\ asked < Len(candidates) /\ asked' = asked + 1
      /\ requests' = IF Valid(Candidate[1]) THEN Append(requests, Candidate) ELSE requests
      /\ UNCHANGED <<candidates, resource, issuer, config, error, useful>>
  BY DEF TryNext
<1>2. /\ Candidate \in URLs /\ asked + 1 \in 1 .. Len(candidates)
      /\ asked \in Nat /\ Len(candidates) \in Nat
  BY <1>1, CandidateIsURL
<1>3. /\ requests' \in Seq(URLs) /\ Range(requests') \subseteq URLs
      /\ Range(requests) \subseteq Range(requests')
      /\ Candidate[1] \in Allowed => Candidate \in Range(requests')
  BY <1>1, RequestAdded DEF Valid, IInv, Shape, TypeOK
<1>4. Shape'
  BY <1>1, <1>2, <1>3 DEF IInv, Shape, TypeOK
<1>5. NothingSkipped'
  <2>1. \A i \in 1 .. asked' :
          candidates[i][1] \in Allowed => candidates[i] \in Range(requests')
    BY <1>1, <1>2, <1>3 DEF IInv, NothingSkipped, Candidate
  <2> QED
    BY <1>1, <2>1 DEF IInv, NothingSkipped
<1>6. (ChainIsChecked /\ ConfigurationIsChecked /\ UnavailableIsExhausted)'
  BY <1>1 DEF IInv, ChainIsChecked, ConfigurationIsChecked, UnavailableIsExhausted, NothingSkipped,
              Named
<1> QED
  BY <1>4, <1>5, <1>6 DEF IInv

LEMMA ExhaustedStep ==
  ASSUME IInv, NEW loop \in {"resource", "server"}, Exhausted(loop)
  PROVE  IInv'
<1>1. /\ pc = loop /\ pc' = "raised" /\ error' = "metadata_unavailable"
      /\ asked = Len(candidates)
      /\ UNCHANGED <<candidates, asked, resource, issuer, config, requests, useful>>
  BY DEF Exhausted, Raise
<1>2. Shape'
  BY <1>1 DEF IInv, Shape, TypeOK, Errors
<1>3. UnavailableIsExhausted'
  <2>1. DOMAIN candidates = 1 .. asked
    BY <1>1, LenProperties DEF IInv, Shape
  <2>2. ~useful /\ \A i \in 1 .. asked :
          candidates[i][1] \in Allowed => candidates[i] \in Range(requests)
    BY <1>1 DEF IInv, NothingSkipped
  <2>3. \A u \in Range(candidates) : u[1] \in Allowed => u \in Range(requests)
    BY <2>1, <2>2 DEF Range
  <2> QED
    BY <1>1, <2>2, <2>3 DEF UnavailableIsExhausted
<1>4. (ChainIsChecked /\ NothingSkipped /\ ConfigurationIsChecked)'
  BY <1>1 DEF ChainIsChecked, NothingSkipped, ConfigurationIsChecked
<1> QED
  BY <1>2, <1>3, <1>4 DEF IInv

LEMMA ResourceStep == IInv /\ TakeResource => IInv'
<1> SUFFICES ASSUME IInv, TakeResource PROVE IInv'
  OBVIOUS
<1>1. /\ pc = "resource" /\ pc' = "validate" /\ asked < Len(candidates)
      /\ requests' = Append(requests, Candidate) /\ useful' = TRUE
      /\ resource' \in Resources
      /\ UNCHANGED <<candidates, asked, issuer, config, error>>
  BY DEF TakeResource, Hear
<1>2. Shape'
  BY <1>1, RequestAdded DEF IInv, Shape, TypeOK
<1>3. (ChainIsChecked /\ NothingSkipped /\ ConfigurationIsChecked /\ UnavailableIsExhausted)'
  BY <1>1 DEF IInv, ChainIsChecked, NothingSkipped, ConfigurationIsChecked, UnavailableIsExhausted
<1> QED
  BY <1>2, <1>3 DEF IInv

LEMMA ValidateStep == IInv /\ Validate => IInv'
<1> SUFFICES ASSUME IInv, Validate PROVE IInv'
  OBVIOUS
<1>1. pc = "validate" /\ UNCHANGED <<resource, config, requests>>
  BY DEF Validate
<1>2. CASE pc' = "raised"
  <2>1. error' = "metadata_invalid" /\ UNCHANGED <<candidates, asked, issuer, useful>>
    BY <1>2 DEF Validate, Raise
  <2>2. Shape'
    BY <1>1, <1>2, <2>1 DEF IInv, Shape, TypeOK, Errors
  <2>3. (ChainIsChecked /\ NothingSkipped /\ ConfigurationIsChecked /\ UnavailableIsExhausted)'
    BY <1>2, <2>1 DEF ChainIsChecked, NothingSkipped, ConfigurationIsChecked, UnavailableIsExhausted
  <2> QED
    BY <2>2, <2>3 DEF IInv
<1>3. CASE pc' # "raised"
  <2>1. /\ issuer' = resource.servers[1] /\ Valid(Named(resource)) /\ Valid(resource.servers[1])
        /\ candidates' = <<<<issuer', "oauth-authorization-server">>,
                           <<issuer', "openid-configuration">>>>
        /\ asked' = 0 /\ useful' = FALSE /\ pc' = "server" /\ error' = error
    BY <1>3 DEF Validate, Raise
  <2>2. issuer' \in Allowed /\ issuer' \in Sites
    BY <2>1, SiteTypes DEF Valid
  <2>3. candidates' \in Seq(URLs) /\ Len(candidates') = 2
    BY <2>1, <2>2, SiteTypes DEF ServerDocuments
  <2>4. Shape'
    <3>1. Range(candidates') \subseteq URLs
      BY <2>3, RangeOfSeq
    <3>2. asked' \in 0 .. Len(candidates')
      BY <2>1, <2>3
    <3> QED
      BY <1>1, <2>1, <2>2, <2>3, <3>1, <3>2 DEF IInv, Shape, TypeOK
  <2>5. ChainIsChecked'
    BY <1>1, <2>1, <2>2 DEF ChainIsChecked, Valid, Named
  <2>6. (NothingSkipped /\ ConfigurationIsChecked /\ UnavailableIsExhausted)'
    BY <1>1, <2>1 DEF IInv, NothingSkipped, ConfigurationIsChecked, UnavailableIsExhausted
  <2> QED
    BY <2>4, <2>5, <2>6 DEF IInv
<1> QED
  BY <1>2, <1>3

LEMMA ServerStep == IInv /\ TakeServer => IInv'
<1> SUFFICES ASSUME IInv, TakeServer PROVE IInv'
  OBVIOUS
<1>1. /\ pc = "server" /\ asked < Len(candidates)
      /\ requests' = Append(requests, Candidate) /\ useful' = TRUE
      /\ UNCHANGED <<candidates, asked, resource, issuer>>
  BY DEF TakeServer, Hear
<1>2. PICK server \in Servers :
        \/ /\ Refusal(server) = "none"
           /\ config' = [resource |-> Named(resource), issuer |-> server.issuer,
                         authorization |-> server.authorization, token |-> server.token,
                         registration |-> Registration(server)]
           /\ pc' = "returned"
           /\ UNCHANGED error
        \/ /\ Refusal(server) # "none"
           /\ Raise(Refusal(server))
           /\ UNCHANGED config
  BY DEF TakeServer
<1>3. /\ requests' \in Seq(URLs) /\ Range(requests') \subseteq URLs
  BY <1>1, RequestAdded
<1>4. error = "none" /\ Named(resource) \in Allowed /\ issuer = resource.servers[1]
        /\ issuer \in Allowed
  BY <1>1 DEF IInv, ChainIsChecked, NothingSkipped
<1>5. CASE Refusal(server) = "none"
  <2>1. /\ server.issuer = issuer
        /\ server.authorization \in Allowed /\ server.token \in Allowed
        /\ Registration(server) \in Allowed \cup {NoSite}
    BY <1>5, AcceptedIsAllowed
  <2>2. /\ pc' = "returned" /\ error' = error
        /\ config'.resource = Named(resource) /\ config'.issuer = issuer
        /\ config'.authorization = server.authorization /\ config'.token = server.token
        /\ config'.registration = Registration(server)
        /\ DOMAIN config' = {"resource", "issuer", "authorization", "token", "registration"}
    BY <1>2, <1>5, <2>1
  <2>3. Shape'
    <3>1. \A field \in DOMAIN config' : config'[field] \in Sites \cup {NoSite}
      BY <1>4, <2>1, <2>2, SiteTypes
    <3>2. DOMAIN config' = DOMAIN NoConfig
      BY <2>2 DEF NoConfig
    <3> QED
      BY <1>1, <1>3, <2>2, <3>1, <3>2 DEF IInv, Shape, TypeOK
  <2>4. ConfigurationIsChecked'
    BY <1>1, <1>4, <2>1, <2>2 DEF ConfigurationIsChecked
  <2>5. (ChainIsChecked /\ NothingSkipped /\ UnavailableIsExhausted)'
    BY <1>4, <2>2 DEF ChainIsChecked, NothingSkipped, UnavailableIsExhausted
  <2> QED
    BY <2>3, <2>4, <2>5 DEF IInv
<1>6. CASE Refusal(server) # "none"
  <2>1. /\ pc' = "raised" /\ config' = config
        /\ error' \in {"issuer_mismatch", "metadata_invalid", "pkce_s256_required"}
    BY <1>2, <1>6 DEF Raise, Refusal
  <2>2. Shape'
    BY <1>1, <1>3, <2>1 DEF IInv, Shape, TypeOK, Errors
  <2>3. (ChainIsChecked /\ NothingSkipped /\ ConfigurationIsChecked /\ UnavailableIsExhausted)'
    BY <2>1 DEF ChainIsChecked, NothingSkipped, ConfigurationIsChecked, UnavailableIsExhausted
  <2> QED
    BY <2>2, <2>3 DEF IInv
<1> QED
  BY <1>5, <1>6

LEMMA Inductive == IInv /\ [Next]_vars => IInv'
<1> SUFFICES ASSUME IInv, [Next]_vars PROVE IInv'
  OBVIOUS
<1>1. CASE UNCHANGED vars
  BY <1>1 DEF vars, IInv, Shape, TypeOK, ChainIsChecked, NothingSkipped, ConfigurationIsChecked,
              UnavailableIsExhausted, Named
<1> QED
  BY <1>1, ChallengeStep, TryStep, ExhaustedStep, ResourceStep, ValidateStep, ServerStep
  DEF Next, Over

LEMMA Invariance == Spec => []IInv
BY Initially, Inductive, PTL DEF Spec

-----------------------------------------------------------------------------
\* Every variable keeps its type; in particular each place that is asked is a
\* well-known location or the challenge's (mcp_oauth.py:129-189).
THEOREM DiscoveryIsTyped == Spec => []TypeOK
<1>1. IInv => TypeOK
  BY DEF IInv, Shape
<1> QED
  BY <1>1, Invariance, PTL

\* Whatever the documents say, discover returns only a configuration whose endpoints
\* are on allowed hosts and whose issuer is the server that the accepted resource
\* document names first (mcp_oauth.py:157-189).
THEOREM ConfigurationsAreChecked == Spec => []ConfigurationIsChecked
<1>1. IInv => ConfigurationIsChecked
  BY DEF IInv
<1> QED
  BY <1>1, Invariance, PTL

\* discover gives up for want of metadata only after every place of the loop that it
\* may ask was asked in vain (mcp_oauth.py:141-151, 164-175).
THEOREM GivingUpIsExhaustive == Spec => []UnavailableIsExhausted
<1>1. IInv => UnavailableIsExhausted
  BY DEF IInv
<1> QED
  BY <1>1, Invariance, PTL
=============================================================================
