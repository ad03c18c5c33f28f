---------------------------- MODULE McpDiscovery ----------------------------
(***************************************************************************)
(* The discovery of src/agent_runtime/mcp_oauth.py: MCPOAuthClient.discover *)
(* asks the MCP server for its protected-resource metadata and the          *)
(* authorization server it names for that server's metadata, with fallbacks  *)
(* on the way, and returns the configuration that the later OAuth calls use. *)
(*                                                                         *)
(* The answers come from the network: any endpoint may give any answer.  A  *)
(* URL is the pair of a site and a document on it; the site of an endpoint   *)
(* is all that matters of it.                                                *)
(***************************************************************************)
EXTENDS Integers, Sequences, SequencesExt

CONSTANTS
  Sites,    \* the origins that URLs may point to
  Home,     \* the one of resource_url
  Allowed,  \* those that match allowed_hosts, which includes Home
  NoSite    \* a URL that is missing

ASSUME SitesAssumption == Home \in Allowed /\ Allowed \subseteq Sites /\ NoSite \notin Sites

VARIABLES
  pc,          \* the step of discover
  candidates,  \* the URLs of the loop at hand, in order and without repetition
  asked,       \* how many of them were tried
  resource,    \* the protected-resource metadata that was taken
  issuer,      \* the authorization server it names first
  config,      \* the configuration that discover returns
  error,       \* the code of the MCPOAuthError it raises
  requests,    \* history: the URLs that were requested, in order
  useful       \* history: whether a request was answered with what the loop wants

vars == <<pc, candidates, asked, resource, issuer, config, error, requests, useful>>

ResourceDocuments == {"challenged", "path", "root"}
ServerDocuments == {"oauth-authorization-server", "openid-configuration"}
URLs == Sites \X (ResourceDocuments \cup ServerDocuments)

\* What the code reads of a protected-resource document: the sites of "resource"
\* and of "authorization_servers", which is <<>> if there is no usable entry in it.
ServerLists == {<<>>} \cup {<<s>> : s \in Sites} \cup {<<s, t>> : s, t \in Sites}
Resources == [resource : Sites \cup {NoSite}, servers : ServerLists]
NoResource == [resource |-> NoSite, servers |-> <<>>]

\* And of an authorization server's: the last field is whether the list of PKCE
\* methods is missing, has S256, or has not.
Servers ==
  [issuer : Sites \cup {NoSite}, authorization : Sites, token : Sites,
   registration : Sites \cup {NoSite}, pkce : {"unlisted", "s256", "plain"}]
NoConfig ==
  [resource |-> NoSite, issuer |-> NoSite, authorization |-> NoSite, token |-> NoSite,
   registration |-> NoSite]

Errors == {"metadata_unavailable", "metadata_invalid", "issuer_mismatch", "pkce_s256_required"}

TypeOK ==
  /\ pc \in {"challenge", "resource", "validate", "server", "returned", "raised"}
  /\ Range(candidates) \subseteq URLs
  /\ asked \in 0 .. Len(candidates)
  /\ resource \in Resources
  /\ issuer \in Sites \cup {NoSite}
  /\ DOMAIN config = DOMAIN NoConfig
  /\ \A field \in DOMAIN config : config[field] \in Sites \cup {NoSite}
  /\ error \in Errors \cup {"none"}
  /\ Range(requests) \subseteq URLs
  /\ useful \in BOOLEAN

Init ==
  /\ pc = "challenge"
  /\ candidates = <<>>
  /\ asked = 0
  /\ resource = NoResource
  /\ issuer = NoSite
  /\ config = NoConfig
  /\ error = "none"
  /\ requests = <<>>
  /\ useful = FALSE

Raise(code) == pc' = "raised" /\ error' = code

\* Mutant: any host will do.
Valid_AnyHost(site) == site \in Sites

\* validate_url accepts it.
Valid(site) == site \in Allowed

-----------------------------------------------------------------------------
(* Protected-resource metadata. *)

\* dict.fromkeys: the first occurrence of a URL counts.
Adding(urls, u) == IF u \in Range(urls) THEN urls ELSE Append(urls, u)

\* The challenge of the server names a place, if it can be had and has a
\* resource_metadata; the two well-known locations follow, which are one and the
\* same if the resource URL has no path.
Challenge ==
  /\ pc = "challenge"
  /\ \E named \in {<<>>} \cup {<<u>> : u \in Sites \X ResourceDocuments}, path \in {"path", "root"} :
       candidates' = Adding(Adding(named, <<Home, path>>), <<Home, "root">>)
  /\ pc' = "resource"
  /\ UNCHANGED <<asked, resource, issuer, config, error, requests, useful>>

Candidate == candidates[asked + 1]

\* Mutant: the error of one candidate is not caught.
TryNext_Raises(loop) ==
  /\ pc = loop
  /\ asked < Len(candidates)
  /\ Valid(Candidate[1])
  /\ Raise("network_error")
  /\ requests' = Append(requests, Candidate)
  /\ UNCHANGED <<candidates, asked, resource, issuer, config, useful>>

\* The loop goes on to the next candidate: this one's URL is not valid, or it was
\* requested and the answer is an error, not an object, or without what is wanted.
TryNext(loop) ==
  /\ pc = loop
  /\ asked < Len(candidates)
  /\ asked' = asked + 1
  /\ requests' = IF Valid(Candidate[1]) THEN Append(requests, Candidate) ELSE requests
  /\ UNCHANGED <<pc, candidates, resource, issuer, config, error, useful>>

Exhausted(loop) ==
  /\ pc = loop
  /\ asked = Len(candidates)
  /\ Raise("metadata_unavailable")
  /\ UNCHANGED <<candidates, asked, resource, issuer, config, requests, useful>>

\* An answer that ends the loop.
Hear(loop) ==
  /\ pc = loop
  /\ asked < Len(candidates)
  /\ Valid(Candidate[1])
  /\ requests' = Append(requests, Candidate)
  /\ useful' = TRUE

\* "authorization_servers" is there, whatever it holds.
TakeResource ==
  /\ Hear("resource")
  /\ resource' \in Resources
  /\ pc' = "validate"
  /\ UNCHANGED <<candidates, asked, issuer, config, error>>

\* The resource that is missing is the one that was asked.
Named(document) == IF document.resource = NoSite THEN Home ELSE document.resource

\* Mutant: the second loop begins where the first one ended.
Validate_KeepsPlace ==
  /\ pc = "validate"
  /\ LET ok == /\ Valid(Named(resource))
               /\ resource.servers # <<>>
               /\ Valid(resource.servers[1])
     IN  \/ /\ ok
            /\ issuer' = resource.servers[1]
            /\ candidates' = <<<<issuer', "oauth-authorization-server">>,
                               <<issuer', "openid-configuration">>>>
            /\ useful' = FALSE
            /\ pc' = "server"
            /\ UNCHANGED <<asked, error>>
         \/ /\ ~ok
            /\ Raise("metadata_invalid")
            /\ UNCHANGED <<candidates, asked, issuer, useful>>
  /\ UNCHANGED <<resource, config, requests>>

\* The document's resource and its first authorization server have to be valid;
\* no later server and no other candidate is considered.
Validate ==
  /\ pc = "validate"
  /\ LET ok == /\ Valid(Named(resource))
               /\ resource.servers # <<>>
               /\ Valid(resource.servers[1])
     IN  \/ /\ ok
            /\ issuer' = resource.servers[1]
            /\ candidates' = <<<<issuer', "oauth-authorization-server">>,
                               <<issuer', "openid-configuration">>>>
            /\ asked' = 0
            /\ useful' = FALSE
            /\ pc' = "server"
            /\ UNCHANGED error
         \/ /\ ~ok
            /\ Raise("metadata_invalid")
            /\ UNCHANGED <<candidates, asked, issuer, useful>>
  /\ UNCHANGED <<resource, config, requests>>

-----------------------------------------------------------------------------
(* Authorization-server metadata. *)

\* Why the document of the authorization server is refused, in the code's order.
Refusal(server) ==
  IF server.issuer # issuer THEN "issuer_mismatch"
  ELSE IF ~Valid(server.authorization) \/ ~Valid(server.token) THEN "metadata_invalid"
  ELSE IF server.pkce = "plain" THEN "pkce_s256_required"
  ELSE "none"

\* A registration endpoint that is not valid is left out.
Registration(server) == IF Valid(server.registration) THEN server.registration ELSE NoSite

\* Both endpoints are there: check the document and return the configuration.
TakeServer ==
  /\ Hear("server")
  /\ \E server \in Servers :
       \/ /\ Refusal(server) = "none"
          /\ config' = [resource |-> Named(resource), issuer |-> server.issuer,
                        authorization |-> server.authorization, token |-> server.token,
                        registration |-> Registration(server)]
          /\ pc' = "returned"
          /\ UNCHANGED error
       \/ /\ Refusal(server) # "none"
          /\ Raise(Refusal(server))
          /\ UNCHANGED config
  /\ UNCHANGED <<candidates, asked, resource, issuer>>

-----------------------------------------------------------------------------
\* discover returned or raised.
Over ==
  /\ pc \in {"returned", "raised"}
  /\ UNCHANGED vars

Next ==
  \/ Challenge \/ TakeResource \/ Validate \/ TakeServer \/ Over
  \/ \E loop \in {"resource", "server"} : TryNext(loop) \/ Exhausted(loop)

Spec == Init /\ [][Next]_vars

-----------------------------------------------------------------------------
\* Whatever the documents say, a configuration that discover returns is one chain:
\* every endpoint is on an allowed host, and the issuer is the server that the
\* accepted resource document names first (mcp_oauth.py:157-189).
ConfigurationIsChecked ==
  pc = "returned" =>
    /\ {config.resource, config.authorization, config.token} \subseteq Allowed
    /\ config.registration \in Allowed \cup {NoSite}
    /\ config.issuer = resource.servers[1] /\ config.issuer \in Allowed

\* Discovery gives up for want of metadata only if every place it may ask was
\* asked and none had any (mcp_oauth.py:141-151, 164-175).
UnavailableIsExhausted ==
  error = "metadata_unavailable" =>
    /\ ~useful
    /\ \A u \in Range(candidates) : u[1] \in Allowed => u \in Range(requests)
=============================================================================
