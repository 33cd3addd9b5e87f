-------------------------- MODULE OidcAuthentication --------------------------
(***************************************************************************)
(* Authorization of the requests of one API process by tokens of an OIDC   *)
(* provider, through a cached discovery document and cached signing keys,  *)
(* while the provider rotates its keys, fails and answers late.            *)
(* Source: internal/infra/auth/oidc.py, the middleware and the OpenAPI     *)
(* document of app/api/main.py.                                            *)
(*                                                                         *)
(* A request runs from one await to the next in one step: the cache lock   *)
(* is never held across an await, so that nobody waits for it.  The pages  *)
(* of the documentation are built in threads of their own.                 *)
(***************************************************************************)
EXTENDS Integers

CONSTANTS
  Request,
  Page,           \* requests for the documentation page
  Kid,            \* signing keys
  Call,           \* what a request presents and asks for
  TTL,            \* OIDC_JWKS_CACHE_TTL_SECONDS
  Latency,        \* bound: the longest fetch, which the time-out of each read limits
  MaxTime,        \* bound
  MaxChanges,     \* bound: changes at the provider
  Usable,         \* a discovery document with all endpoints
  Unusable,       \* an object without usable endpoints, or without a list of keys
  Empty,          \* the object {} in place of the keys
  Lost,           \* no object: an error, a time-out, something else than an object
  None

Roles == {"user", "admin"}
Methods == {"GET", "HEAD", "POST", "PATCH", "DELETE"}
Outcomes == {"accepted", "unauthorized", "forbidden", "unavailable", "failed"}

(* The key that the token's header names, None when the header cannot be read or names *)
(* no algorithm or no key, and its roles, the method on a route of the API;  `sound':  *)
(* the algorithm fits the key, and what jwt.decode and the claims ask for is there.    *)
ASSUME OidcAssumption ==
  /\ TTL \in Nat \ {0} /\ Latency \in Nat /\ MaxTime \in Nat /\ MaxChanges \in Nat
  /\ Call \subseteq [kid : Kid \cup {None}, sound : BOOLEAN, roles : SUBSET Roles, method : Methods]
  /\ None \notin Kid \cup Call \cup {Usable, Unusable, Empty, Lost}
  /\ Lost \notin {Usable, Unusable, Empty} /\ Usable \notin {Unusable, Empty} /\ Unusable # Empty
  /\ \A keys \in SUBSET Kid : keys \notin {Usable, Unusable, Empty, Lost, None}

VARIABLES
  now,
  provider,       \* what the provider answers, and the keys it publishes
  metadata,       \* the cached discovery document
  jwks,           \* the cached signing keys
  request,        \* fetches that requests wait for
  page,           \* fetches that pages wait for
  schema,         \* the OpenAPI document of the process: how it says to log in
  response,       \* what the last step answered, None: nothing
  seen,           \* history: when a fetch would last have shown each key
  missing,        \* history: when one would last not have shown it
  changes

vars == <<now, provider, metadata, jwks, request, page, schema, response, seen, missing, changes>>
caches == <<metadata, jwks>>
world == <<now, provider, seen, missing, changes>>

Keys == {Unusable, Empty} \cup SUBSET Kid
Answers == {Usable, Lost, None} \cup Keys
Schemas == {"login", "bearer", "unavailable"}
Provider ==
  [status : {"serving"}, keys : SUBSET Kid] \cup [status : {"unusable", "empty", "down"}, keys : {{}}]
Response == [call : Call \cup {None}, outcome : Outcomes \cup Schemas]

(* How old what the process relies on can be *)
Grace == TTL + Latency
LongAgo == -(Grace + 1)

Shows(p, k) == p.status = "serving" /\ k \in p.keys

Cold == [document |-> None, expires |-> 0]
Idle == [pc |-> "idle", call |-> None, since |-> 0, answer |-> None]
Closed == [pc |-> "idle", since |-> 0, answer |-> None]

Init ==
  /\ now = 0
  /\ provider \in Provider
  /\ metadata = Cold /\ jwks = Cold
  /\ request = [r \in Request |-> Idle]
  /\ page = [d \in Page |-> Closed]
  /\ schema = None /\ response = None
  /\ seen = [k \in Kid |-> IF Shows(provider, k) THEN 0 ELSE LongAgo]
  /\ missing = [k \in Kid |-> IF Shows(provider, k) THEN LongAgo ELSE 0]
  /\ changes = 0

-----------------------------------------------------------------------------
(* The caches *)

(* Mutant: an entry once made is believed for ever. *)
HotForEver(entry) == entry.document # None

Hot(entry) == entry.document # None /\ entry.expires > now

Entry(document) == [document |-> document, expires |-> now + TTL]

-----------------------------------------------------------------------------
(* Authorizing a request *)

(* The role that the middleware asks for *)
Required(method) == IF method \in {"GET", "HEAD"} THEN "user" ELSE "admin"

(* can_read, can_write *)
Permitted(call) ==
  \/ "admin" \in call.roles
  \/ Required(call.method) = "user" /\ "user" \in call.roles

(* A published key that cannot be used is none.  PyJWKError, of such a key or of a strange *)
(* algorithm, is not caught, so that the request fails.                                   *)
Verdicts(keys, call) ==
  CASE keys \in {Unusable, Empty} -> {"unavailable"}
    [] keys \notin {Unusable, Empty} /\ (call.kid \notin keys \/ ~call.sound) ->
         {"unauthorized", "failed"}
    [] OTHER -> {IF Permitted(call) THEN "accepted" ELSE "forbidden"}

Answer(r, call, outcome) ==
  /\ request' = [request EXCEPT ![r] = Idle]
  /\ response' = [call |-> call, outcome |-> outcome]

Fetch(r, call, what) ==
  /\ request' = [request EXCEPT ![r] =
       [pc |-> what, call |-> call, since |-> now, answer |-> None]]
  /\ response' = None

(* Mutant: keys are fetched once. *)
KeysKnownOnce == jwks.document \notin {None, Empty}

(* {} counts as no keys at all. *)
KeysKnown == Hot(jwks) /\ jwks.document # Empty

(* From the discovery document to the header and to the keys, which are fetched unless *)
(* they are known.  InvalidURL, of a document whose address of the keys is none, is not *)
(* caught.                                                                              *)
WithMetadata(r, call, document) ==
  \/ /\ document # Usable
     /\ Answer(r, call, "unavailable")
  \/ /\ call.kid = None
     /\ Answer(r, call, "unauthorized")
  \/ /\ document = Unusable /\ call.kid # None
     /\ Answer(r, call, "failed")
  \/ /\ document = Usable /\ call.kid # None /\ KeysKnown
     /\ \E outcome \in Verdicts(jwks.document, call) : Answer(r, call, outcome)
  \/ /\ document = Usable /\ call.kid # None /\ ~KeysKnown
     /\ Fetch(r, call, "jwks")

Waiting(r) == request[r].pc # "idle"

(* The middleware, for a route that requires a role *)
RejectMissing(r) ==
  /\ ~Waiting(r)
  /\ Answer(r, None, "unauthorized")
  /\ UNCHANGED <<world, caches, page, schema>>

Authorize(r, call) ==
  /\ ~Waiting(r)
  /\ \/ Hot(metadata) /\ WithMetadata(r, call, metadata.document)
     \/ ~Hot(metadata) /\ Fetch(r, call, "metadata")
  /\ UNCHANGED <<world, caches, page, schema>>

(* Mutant: what is received is not looked at. *)
ReceivedAnything(r, what) == request[r].pc = what /\ request[r].answer # None

Received(r, what) == request[r].pc = what /\ request[r].answer \notin {None, Lost}

MetadataReceived(r) ==
  /\ Received(r, "metadata")
  /\ metadata' = Entry(request[r].answer)
  /\ WithMetadata(r, request[r].call, request[r].answer)
  /\ UNCHANGED <<world, jwks, page, schema>>

KeysReceived(r) ==
  /\ Received(r, "jwks")
  /\ jwks' = Entry(request[r].answer)
  /\ \E outcome \in Verdicts(request[r].answer, request[r].call) : Answer(r, request[r].call, outcome)
  /\ UNCHANGED <<world, metadata, page, schema>>

(* An error or a time-out; nothing is cached. *)
FetchFailed(r) ==
  /\ Waiting(r) /\ request[r].answer = Lost
  /\ Answer(r, request[r].call, "unavailable")
  /\ UNCHANGED <<world, caches, page, schema>>

-----------------------------------------------------------------------------
(* The documentation page: the OpenAPI document is built once in a process. *)

Login(document) == IF document = Usable THEN "login" ELSE "bearer"

Show(d, what) ==
  /\ page' = [page EXCEPT ![d] = Closed]
  /\ response' = [call |-> None, outcome |-> what]

OpenPage(d) ==
  /\ page[d].pc = "idle"
  /\ \/ /\ schema # None
        /\ Show(d, schema) /\ UNCHANGED schema
     \/ /\ schema = None /\ Hot(metadata)
        /\ schema' = Login(metadata.document) /\ Show(d, schema')
     \/ /\ schema = None /\ ~Hot(metadata)
        /\ page' = [page EXCEPT ![d] = [pc |-> "fetching", since |-> now, answer |-> None]]
        /\ response' = None /\ UNCHANGED schema
  /\ UNCHANGED <<world, caches, request>>

BuildSchema(d) ==
  /\ page[d].answer # None
  /\ \/ /\ page[d].answer = Lost
        /\ schema' = "unavailable" /\ UNCHANGED metadata
     \/ /\ page[d].answer # Lost
        /\ metadata' = Entry(page[d].answer) /\ schema' = Login(page[d].answer)
  /\ Show(d, schema')
  /\ UNCHANGED <<world, jwks, request>>

-----------------------------------------------------------------------------
(* The provider and the clock *)

MetadataAnswer ==
  CASE provider.status = "serving" -> Usable
    [] provider.status = "down" -> Lost
    [] OTHER -> Unusable

KeysAnswer ==
  CASE provider.status = "serving" -> provider.keys
    [] provider.status = "down" -> Lost
    [] provider.status = "empty" -> Empty
    [] OTHER -> Unusable

(* The answer is made some time after the fetch began and before it is received. *)
ServeRequest(r) ==
  /\ Waiting(r) /\ request[r].answer = None
  /\ request' = [request EXCEPT ![r].answer =
       IF request[r].pc = "metadata" THEN MetadataAnswer ELSE KeysAnswer]
  /\ response' = None
  /\ UNCHANGED <<world, caches, page, schema>>

ServePage(d) ==
  /\ page[d].pc = "fetching" /\ page[d].answer = None
  /\ page' = [page EXCEPT ![d].answer = MetadataAnswer]
  /\ response' = None
  /\ UNCHANGED <<world, caches, request, schema>>

(* A rotation of the keys, an outage or its end *)
ChangeProvider ==
  /\ changes < MaxChanges
  /\ changes' = changes + 1
  /\ provider' \in Provider \ {provider}
  /\ seen' = [k \in Kid |-> IF Shows(provider', k) THEN now ELSE seen[k]]
  /\ missing' = [k \in Kid |-> IF Shows(provider', k) THEN missing[k] ELSE now]
  /\ response' = None
  /\ UNCHANGED <<now, caches, request, page, schema>>

Tick ==
  /\ now < MaxTime
  /\ \A r \in Request : Waiting(r) => now < request[r].since + Latency
  /\ \A d \in Page : page[d].pc = "fetching" => now < page[d].since + Latency
  /\ now' = now + 1
  /\ seen' = [k \in Kid |-> IF Shows(provider, k) THEN now' ELSE seen[k]]
  /\ missing' = [k \in Kid |-> IF Shows(provider, k) THEN missing[k] ELSE now']
  /\ response' = None
  /\ UNCHANGED <<provider, caches, request, page, schema, changes>>

(* The process ends with its caches, its document and its requests. *)
Restart ==
  /\ metadata' = Cold /\ jwks' = Cold /\ schema' = None /\ response' = None
  /\ request' = [r \in Request |-> Idle]
  /\ page' = [d \in Page |-> Closed]
  /\ UNCHANGED world

Next ==
  \/ \E r \in Request, call \in Call : Authorize(r, call)
  \/ \E r \in Request :
       RejectMissing(r) \/ ServeRequest(r) \/ MetadataReceived(r) \/ KeysReceived(r) \/ FetchFailed(r)
  \/ \E d \in Page : OpenPage(d) \/ ServePage(d) \/ BuildSchema(d)
  \/ ChangeProvider
  \/ Tick
  \/ Restart

Spec == Init /\ [][Next]_vars

-----------------------------------------------------------------------------
(* Properties *)

TypeOK ==
  /\ now \in 0..MaxTime /\ changes \in 0..MaxChanges
  /\ provider \in Provider
  /\ metadata \in [document : {None, Usable, Unusable}, expires : Int]
  /\ jwks \in [document : {None} \cup Keys, expires : Int]
  /\ request \in [Request -> [pc : {"idle", "metadata", "jwks"}, call : Call \cup {None},
                              since : 0..MaxTime, answer : Answers]]
  /\ \A r \in Request :
       /\ Waiting(r) => request[r].call # None
       /\ request[r].pc = "metadata" => request[r].answer \in {None, Lost, Usable, Unusable}
       /\ request[r].pc = "jwks" =>
            request[r].call.kid # None /\ request[r].answer \in {None, Lost} \cup Keys
  /\ page \in [Page -> [pc : {"idle", "fetching"}, since : 0..MaxTime,
                        answer : {None, Lost, Usable, Unusable}]]
  /\ schema \in Schemas \cup {None} /\ response \in {None} \cup Response
  /\ seen \in [Kid -> Int] /\ missing \in [Kid -> Int]

(* However fetches overlap, answer late and overwrite one another: a token is *)
(* accepted only by a key that the provider published within the lifetime of  *)
(* a cache entry and one fetch before.                                        *)
AcceptanceIsRecent ==
  response # None /\ response.outcome = "accepted" => seen[response.call.kid] >= now - Grace

(* One that its key would let in *)
Deserving(call) == call # None /\ call.kid # None /\ call.sound /\ Permitted(call)

(* A sound token with the role that is required is turned away only if its key *)
(* was not to be had from the provider at some time as recent as that: neither *)
(* a rotation nor an outage nor an answer that made no sense outlives it.      *)
RejectionHasCause ==
  response # None /\ Deserving(response.call) /\ response.outcome # "accepted" =>
    missing[response.call.kid] >= now - Grace
=============================================================================
