---------------------- MODULE OidcAuthenticationProofs ----------------------
(***************************************************************************)
(* Theorems of OidcAuthentication for every set of requests, pages, keys   *)
(* and tokens, lifetime of the entries and latency of the fetches.         *)
(***************************************************************************)
EXTENDS OidcAuthentication, TLAPS

RequestState ==
  [pc : {"idle", "metadata", "jwks"}, call : Call \cup {None}, since : 0..MaxTime, answer : Answers]
PageState ==
  [pc : {"idle", "fetching"}, since : 0..MaxTime, answer : {None, Lost, Usable, Unusable}]

RequestOK(q) ==
  /\ q \in RequestState
  /\ q.pc # "idle" => q.call # None
  /\ q.pc = "metadata" => q.answer \in {None, Lost, Usable, Unusable}
  /\ q.pc = "jwks" => q.call.kid # None /\ q.answer \in {None, Lost} \cup Keys

LEMMA TypeByRequest ==
  (request \in [Request -> RequestState] /\ \A r \in Request : RequestOK(request[r]))
    <=> (/\ request \in [Request -> RequestState]
         /\ \A r \in Request :
              /\ Waiting(r) => request[r].call # None
              /\ request[r].pc = "metadata" => request[r].answer \in {None, Lost, Usable, Unusable}
              /\ request[r].pc = "jwks" =>
                   request[r].call.kid # None /\ request[r].answer \in {None, Lost} \cup Keys)
BY DEF RequestOK, Waiting

LEMMA IdleOK == RequestOK(Idle)
BY OidcAssumption DEF RequestOK, RequestState, Idle, Answers

(* One request at most changes. *)
LEMMA RequestChange ==
  ASSUME request \in [Request -> RequestState], \A r \in Request : RequestOK(request[r]),
         NEW r \in Request, NEW q, RequestOK(q), request' = [request EXCEPT ![r] = q]
  PROVE  request' \in [Request -> RequestState] /\ \A x \in Request : RequestOK(request'[x])
<1>1. q \in RequestState
  BY DEF RequestOK
<1> QED
  BY <1>1

LEMMA VerdictType ==
  ASSUME NEW keys, NEW call PROVE Verdicts(keys, call) \subseteq Outcomes
BY DEF Verdicts, Outcomes

LEMMA AnswerType ==
  ASSUME TypeOK, NEW r \in Request, NEW call \in Call \cup {None}, NEW outcome \in Outcomes,
         Answer(r, call, outcome)
  PROVE  /\ request' \in [Request -> RequestState] /\ \A x \in Request : RequestOK(request'[x])
         /\ response' \in Response
<1>1. request \in [Request -> RequestState] /\ \A x \in Request : RequestOK(request[x])
  BY TypeByRequest DEF TypeOK, RequestState
<1>2. request' \in [Request -> RequestState] /\ \A x \in Request : RequestOK(request'[x])
  BY <1>1, IdleOK, RequestChange DEF Answer
<1>3. response' \in Response
  BY DEF Answer, Response
<1> QED
  BY <1>2, <1>3

LEMMA FetchType ==
  ASSUME TypeOK, NEW r \in Request, NEW call \in Call, NEW what \in {"metadata", "jwks"},
         what = "jwks" => call.kid # None, Fetch(r, call, what)
  PROVE  /\ request' \in [Request -> RequestState] /\ \A x \in Request : RequestOK(request'[x])
         /\ response' = None
<1> DEFINE q == [pc |-> what, call |-> call, since |-> now, answer |-> None]
<1>1. request \in [Request -> RequestState] /\ \A x \in Request : RequestOK(request[x])
  BY TypeByRequest DEF TypeOK, RequestState
<1>2. call # None
  BY OidcAssumption
<1>3. RequestOK(q)
  BY <1>2 DEF RequestOK, RequestState, Answers, TypeOK
<1>4. request' = [request EXCEPT ![r] = q] /\ response' = None
  BY DEF Fetch
<1> HIDE DEF q
<1> QED
  BY <1>1, <1>3, <1>4, RequestChange

LEMMA WithMetadataType ==
  ASSUME TypeOK, NEW r \in Request, NEW call \in Call, NEW document, WithMetadata(r, call, document)
  PROVE  /\ request' \in [Request -> RequestState] /\ \A x \in Request : RequestOK(request'[x])
         /\ response' \in {None} \cup Response
<1>1. CASE Answer(r, call, "unavailable") \/ Answer(r, call, "unauthorized") \/ Answer(r, call, "failed")
  BY <1>1, AnswerType DEF Outcomes
<1>2. CASE \E outcome \in Verdicts(jwks.document, call) : Answer(r, call, outcome)
  BY <1>2, AnswerType, VerdictType
<1>3. CASE call.kid # None /\ Fetch(r, call, "jwks")
  BY <1>3, FetchType
<1> QED
  BY <1>1, <1>2, <1>3 DEF WithMetadata

LEMMA AnswersOfProvider ==
  ASSUME TypeOK
  PROVE  MetadataAnswer \in {Lost, Usable, Unusable} /\ KeysAnswer \in {Lost} \cup Keys
BY DEF TypeOK, MetadataAnswer, KeysAnswer, Keys, Provider

(* The parts of TypeOK that a step changes together. *)
RequestsOK == request \in [Request -> RequestState] /\ \A r \in Request : RequestOK(request[r])
CachesOK ==
  /\ metadata \in [document : {None, Usable, Unusable}, expires : Int]
  /\ jwks \in [document : {None} \cup Keys, expires : Int]
PagesOK ==
  page \in [Page -> PageState] /\ schema \in Schemas \cup {None} /\ response \in {None} \cup Response
WorldOK ==
  /\ now \in 0..MaxTime /\ changes \in 0..MaxChanges /\ provider \in Provider
  /\ seen \in [Kid -> Int] /\ missing \in [Kid -> Int]

LEMMA TypeParts == TypeOK <=> WorldOK /\ CachesOK /\ RequestsOK /\ PagesOK
BY TypeByRequest DEF TypeOK, WorldOK, CachesOK, RequestsOK, PagesOK, RequestState, PageState

LEMMA WorldKept == ASSUME TypeOK, UNCHANGED world PROVE WorldOK'
BY DEF TypeOK, WorldOK, world
LEMMA CachesKept == ASSUME TypeOK, UNCHANGED caches PROVE CachesOK'
BY DEF TypeOK, CachesOK, caches
LEMMA RequestsKept == ASSUME TypeOK, UNCHANGED request PROVE RequestsOK'
<1>1. RequestsOK
  BY TypeParts
<1> QED
  BY <1>1 DEF RequestsOK
LEMMA PagesKept ==
  ASSUME TypeOK, UNCHANGED <<page, schema>>, response' \in {None} \cup Response PROVE PagesOK'
BY DEF TypeOK, PagesOK, PageState

LEMMA EntryType ==
  ASSUME TypeOK PROVE now + TTL \in Int
BY OidcAssumption DEF TypeOK

LEMMA TypeInit == Init => TypeOK
<1> SUFFICES ASSUME Init PROVE TypeOK
  OBVIOUS
<1>1. WorldOK
  BY OidcAssumption DEF Init, WorldOK, LongAgo, Grace
<1>2. CachesOK
  BY DEF Init, CachesOK, Cold
<1>3. RequestsOK
  BY IdleOK DEF Init, RequestsOK, RequestOK
<1>4. PagesOK
  BY OidcAssumption DEF Init, PagesOK, PageState, Closed
<1> QED
  BY <1>1, <1>2, <1>3, <1>4, TypeParts

LEMMA TypeNext == TypeOK /\ [Next]_vars => TypeOK'
<1> SUFFICES ASSUME TypeOK, [Next]_vars PROVE WorldOK' /\ CachesOK' /\ RequestsOK' /\ PagesOK'
  BY TypeParts DEF WorldOK, CachesOK, RequestsOK, PagesOK, TypeOK, RequestState, PageState, RequestOK, Waiting
<1>1. ASSUME NEW r \in Request, NEW call \in Call, Authorize(r, call)
      PROVE  WorldOK' /\ CachesOK' /\ RequestsOK' /\ PagesOK'
  <2>1. RequestsOK' /\ response' \in {None} \cup Response
    BY <1>1, WithMetadataType, FetchType DEF Authorize, RequestsOK
  <2> QED
    BY <1>1, <2>1, WorldKept, CachesKept, PagesKept DEF Authorize
<1>2. ASSUME NEW r \in Request, RejectMissing(r)
      PROVE  WorldOK' /\ CachesOK' /\ RequestsOK' /\ PagesOK'
  <2>1. RequestsOK' /\ response' \in {None} \cup Response
    BY <1>2, AnswerType DEF RejectMissing, RequestsOK, Outcomes
  <2> QED
    BY <1>2, <2>1, WorldKept, CachesKept, PagesKept DEF RejectMissing
<1>3. ASSUME NEW r \in Request, ServeRequest(r)
      PROVE  WorldOK' /\ CachesOK' /\ RequestsOK' /\ PagesOK'
  <2> DEFINE a == IF request[r].pc = "metadata" THEN MetadataAnswer ELSE KeysAnswer
             q == [request[r] EXCEPT !.answer = a]
  <2>1. RequestsOK
    BY TypeParts
  <2>2. request' = [request EXCEPT ![r] = q]
    BY <1>3 DEF ServeRequest
  <2>3. RequestOK(q)
    <3>1. request[r] \in RequestState /\ RequestOK(request[r])
      BY <2>1 DEF RequestsOK
    <3>2. request[r].pc \in {"metadata", "jwks"}
      BY <1>3, <3>1 DEF ServeRequest, Waiting, RequestState
    <3>3. /\ request[r].pc = "metadata" => a \in {None, Lost, Usable, Unusable}
          /\ request[r].pc = "jwks" => a \in {None, Lost} \cup Keys
          /\ a \in Answers
      BY <3>2, AnswersOfProvider DEF Answers, Keys
    <3> HIDE DEF a
    <3> QED
      BY <3>1, <3>2, <3>3 DEF RequestOK, RequestState
  <2> HIDE DEF q
  <2>4. RequestsOK'
    BY <2>1, <2>2, <2>3, RequestChange DEF RequestsOK
  <2> QED
    BY <1>3, <2>4, WorldKept, CachesKept, PagesKept DEF ServeRequest
<1>4. ASSUME NEW r \in Request, MetadataReceived(r)
      PROVE  WorldOK' /\ CachesOK' /\ RequestsOK' /\ PagesOK'
  <2>1. request[r].call \in Call /\ request[r].answer \in {Usable, Unusable}
    BY <1>4 DEF MetadataReceived, Received, TypeOK, Waiting
  <2>2. RequestsOK' /\ response' \in {None} \cup Response
    BY <1>4, <2>1, WithMetadataType DEF MetadataReceived, RequestsOK
  <2>3. CachesOK'
    BY <1>4, <2>1, EntryType DEF MetadataReceived, Entry, CachesOK, TypeOK
  <2> QED
    BY <1>4, <2>2, <2>3, WorldKept, PagesKept DEF MetadataReceived
<1>5. ASSUME NEW r \in Request, KeysReceived(r)
      PROVE  WorldOK' /\ CachesOK' /\ RequestsOK' /\ PagesOK'
  <2>1. request[r].call \in Call /\ request[r].answer \in Keys
    BY <1>5 DEF KeysReceived, Received, TypeOK, Waiting
  <2>2. RequestsOK' /\ response' \in {None} \cup Response
    BY <1>5, <2>1, AnswerType, VerdictType DEF KeysReceived, RequestsOK
  <2>3. CachesOK'
    BY <1>5, <2>1, EntryType DEF KeysReceived, Entry, CachesOK, TypeOK
  <2> QED
    BY <1>5, <2>2, <2>3, WorldKept, PagesKept DEF KeysReceived
<1>6. ASSUME NEW r \in Request, FetchFailed(r)
      PROVE  WorldOK' /\ CachesOK' /\ RequestsOK' /\ PagesOK'
  <2>1. request[r].call \in Call
    BY <1>6 DEF FetchFailed, TypeOK
  <2>2. RequestsOK' /\ response' \in {None} \cup Response
    BY <1>6, <2>1, AnswerType DEF FetchFailed, RequestsOK, Outcomes
  <2> QED
    BY <1>6, <2>2, WorldKept, CachesKept, PagesKept DEF FetchFailed
<1>7. ASSUME NEW d \in Page, OpenPage(d)
      PROVE  WorldOK' /\ CachesOK' /\ RequestsOK' /\ PagesOK'
  <2>1. PagesOK'
    BY <1>7, OidcAssumption
    DEF OpenPage, Show, Login, Closed, PagesOK, PageState, TypeOK, Schemas, Response
  <2> QED
    BY <1>7, <2>1, WorldKept, CachesKept, RequestsKept DEF OpenPage
<1>8. ASSUME NEW d \in Page, ServePage(d)
      PROVE  WorldOK' /\ CachesOK' /\ RequestsOK' /\ PagesOK'
  <2>1. PagesOK'
    BY <1>8, AnswersOfProvider DEF ServePage, PagesOK, PageState, TypeOK
  <2> QED
    BY <1>8, <2>1, WorldKept, CachesKept, RequestsKept DEF ServePage
<1>9. ASSUME NEW d \in Page, BuildSchema(d)
      PROVE  WorldOK' /\ CachesOK' /\ RequestsOK' /\ PagesOK'
  <2>1. PagesOK'
    BY <1>9, OidcAssumption
    DEF BuildSchema, Show, Login, Closed, PagesOK, PageState, TypeOK, Schemas, Response
  <2>2. page[d].answer # Lost => page[d].answer \in {Usable, Unusable}
    BY <1>9 DEF BuildSchema, TypeOK
  <2>3. CachesOK'
    BY <1>9, <2>2, EntryType DEF BuildSchema, Entry, CachesOK, TypeOK
  <2> QED
    BY <1>9, <2>1, <2>3, WorldKept, RequestsKept DEF BuildSchema
<1>10. CASE ChangeProvider
  <2>1. WorldOK'
    BY <1>10, OidcAssumption DEF ChangeProvider, WorldOK, TypeOK
  <2> QED
    BY <1>10, <2>1, CachesKept, RequestsKept, PagesKept DEF ChangeProvider
<1>11. CASE Tick
  <2>1. WorldOK'
    BY <1>11, OidcAssumption DEF Tick, WorldOK, TypeOK
  <2> QED
    BY <1>11, <2>1, CachesKept, RequestsKept, PagesKept DEF Tick
<1>12. CASE Restart
  <2>1. RequestsOK'
    BY <1>12, IdleOK DEF Restart, RequestsOK, RequestOK
  <2>2. CachesOK'
    BY <1>12 DEF Restart, CachesOK, Cold
  <2>3. PagesOK'
    BY <1>12, OidcAssumption DEF Restart, PagesOK, PageState, Closed
  <2> QED
    BY <1>12, <2>1, <2>2, <2>3, WorldKept DEF Restart
<1>13. CASE UNCHANGED vars
  BY <1>13, WorldKept, CachesKept, RequestsKept, PagesKept DEF vars, world, caches, TypeOK
<1> QED
  BY <1>1, <1>2, <1>3, <1>4, <1>5, <1>6, <1>7, <1>8, <1>9, <1>10, <1>11, <1>12, <1>13 DEF Next

(* The caches hold documents, the fetches answers, the times are within the bounds. *)
THEOREM TypeCorrect == Spec => []TypeOK
BY TypeInit, TypeNext, PTL DEF Spec

-----------------------------------------------------------------------------
(* What is known of a document that the provider gave at `t' or later, by the *)
(* histories `s' of what it showed and `m' of what it did not *)
Backed(document, t, s, m) ==
  \A k \in Kid :
    /\ document \in SUBSET Kid /\ k \in document => s[k] >= t
    /\ document \in {Unusable, Empty, Lost} => m[k] >= t
    /\ document \in SUBSET Kid /\ k \notin document => m[k] >= t

(* The histories are up to date. *)
HistoryNow ==
  \A k \in Kid :
    /\ seen[k] <= now /\ missing[k] <= now
    /\ IF Shows(provider, k) THEN seen[k] = now ELSE missing[k] = now

(* An entry holds what the provider gave at most one fetch before it was made. *)
EntriesBacked ==
  /\ Backed(metadata.document, metadata.expires - Grace, seen, missing)
  /\ Backed(jwks.document, jwks.expires - Grace, seen, missing)

(* A fetch began at most Latency ago, and what it brings is younger. *)
FetchBacked(q, n, s, m) ==
  q.pc # "idle" => q.since <= n /\ n <= q.since + Latency /\ Backed(q.answer, q.since, s, m)
FetchesBacked == \A r \in Request : FetchBacked(request[r], now, seen, missing)
PagesBacked ==
  \A d \in Page :
    FetchBacked(page[d], now, seen, missing) /\ (page[d].pc = "idle" => page[d].answer = None)

Justified(call, outcome, n, s, m) ==
  /\ outcome = "accepted" => s[call.kid] >= n - Grace
  /\ Deserving(call) /\ outcome # "accepted" => m[call.kid] >= n - Grace

ResponseJustified ==
  response # None => Justified(response.call, response.outcome, now, seen, missing)

Backing == HistoryNow /\ EntriesBacked /\ FetchesBacked /\ PagesBacked /\ ResponseJustified
IInv == TypeOK /\ Backing

LEMMA BackedGrows ==
  ASSUME NEW document, NEW t \in Int, NEW s \in [Kid -> Int], NEW m \in [Kid -> Int],
         NEW s2 \in [Kid -> Int], NEW m2 \in [Kid -> Int],
         \A k \in Kid : s2[k] >= s[k] /\ m2[k] >= m[k],
         Backed(document, t, s, m)
  PROVE  Backed(document, t, s2, m2)
BY DEF Backed

LEMMA BackedOlder ==
  ASSUME NEW document, NEW t \in Int, NEW u \in Int, t <= u, TypeOK, Backed(document, u, seen, missing)
  PROVE  Backed(document, t, seen, missing)
BY DEF Backed, TypeOK

LEMMA NothingBacked ==
  ASSUME NEW t, NEW s, NEW m PROVE Backed(None, t, s, m)
BY OidcAssumption DEF Backed

LEMMA ProviderBacked ==
  ASSUME IInv
  PROVE  Backed(MetadataAnswer, now, seen, missing) /\ Backed(KeysAnswer, now, seen, missing)
<1>1. provider.keys \in SUBSET Kid /\ provider.status \in {"serving", "unusable", "empty", "down"}
  BY DEF IInv, TypeOK, Provider
<1>2. CASE provider.status = "serving"
  <2>1. MetadataAnswer = Usable /\ KeysAnswer = provider.keys
    BY <1>2 DEF MetadataAnswer, KeysAnswer
  <2>2. \A k \in Kid : IF k \in provider.keys THEN seen[k] = now ELSE missing[k] = now
    BY <1>2 DEF IInv, Backing, HistoryNow, Shows
  <2>3. now \in Int
    BY DEF IInv, TypeOK
  <2> QED
    BY <1>1, <2>1, <2>2, <2>3, OidcAssumption DEF Backed
<1>3. CASE provider.status # "serving"
  <2>1. \A k \in Kid : missing[k] = now
    BY <1>3 DEF IInv, Backing, HistoryNow, Shows
  <2>2. MetadataAnswer \in {Lost, Unusable} /\ KeysAnswer \in {Lost, Empty, Unusable}
    BY <1>1, <1>3 DEF MetadataAnswer, KeysAnswer
  <2>3. now \in Int
    BY DEF IInv, TypeOK
  <2> QED
    BY <2>1, <2>2, <2>3, OidcAssumption DEF Backed
<1> QED
  BY <1>2, <1>3

(* An entry made of what a fetch has brought *)
LEMMA EntryBacked ==
  ASSUME IInv, NEW q \in RequestState \cup PageState, q.pc # "idle", FetchBacked(q, now, seen, missing)
  PROVE  /\ Backed(q.answer, now - Grace, seen, missing)
         /\ Backed(Entry(q.answer).document, Entry(q.answer).expires - Grace, seen, missing)
<1>1. now \in Int /\ q.since \in Int /\ TTL \in Nat /\ Latency \in Nat
  BY OidcAssumption DEF IInv, TypeOK, RequestState, PageState
<1>2. now - Grace <= q.since /\ now - Grace \in Int /\ (now + TTL) - Grace <= q.since /\ (now + TTL) - Grace \in Int
  BY <1>1 DEF FetchBacked, Grace
<1>3. Backed(q.answer, q.since, seen, missing)
  BY DEF FetchBacked
<1> QED
  BY <1>1, <1>2, <1>3, BackedOlder DEF Entry, IInv

LEMMA VerdictJustified ==
  ASSUME IInv, NEW call \in Call, call.kid # None, NEW keys \in Keys,
         Backed(keys, now - Grace, seen, missing)
  PROVE  \A outcome \in Verdicts(keys, call) : Justified(call, outcome, now, seen, missing)
<1>1. call.kid \in Kid
  BY OidcAssumption
<1>2. CASE keys \in {Unusable, Empty}
  BY <1>1, <1>2 DEF Verdicts, Justified, Backed
<1>3. CASE keys \notin {Unusable, Empty}
  <2>1. keys \in SUBSET Kid
    BY <1>3 DEF Keys
  <2>2. \A outcome \in Verdicts(keys, call) :
          /\ outcome = "accepted" => call.kid \in keys
          /\ Deserving(call) /\ outcome # "accepted" => call.kid \notin keys
    BY <1>3 DEF Verdicts, Deserving
  <2> QED
    BY <1>1, <2>1, <2>2 DEF Justified, Backed
<1> QED
  BY <1>2, <1>3

-----------------------------------------------------------------------------
(* Steps of requests: the world stands still. *)

(* What a page shows is about no token. *)
LEMMA SchemaIsNoOutcome ==
  ASSUME NEW what, response' = [call |-> None, outcome |-> what], what # "accepted"
  PROVE  ResponseJustified'
BY DEF ResponseJustified, Justified, Deserving

LEMMA AnswerStep ==
  ASSUME IInv, UNCHANGED world, NEW r \in Request, NEW call, NEW outcome, Answer(r, call, outcome),
         Justified(call, outcome, now, seen, missing)
  PROVE  FetchesBacked' /\ ResponseJustified'
<1>1. request \in [Request -> RequestState]
  BY DEF IInv, TypeOK, RequestState
<1>2. request'[r] = Idle /\ \A x \in Request \ {r} : request'[x] = request[x]
  BY <1>1 DEF Answer
<1>3. FetchesBacked'
  BY <1>2 DEF FetchesBacked, FetchBacked, Idle, world, IInv, Backing
<1>4. ResponseJustified'
  BY DEF Answer, ResponseJustified, Justified, world
<1> QED
  BY <1>3, <1>4

LEMMA FetchStep ==
  ASSUME IInv, UNCHANGED world, NEW r \in Request, NEW call, NEW what, Fetch(r, call, what)
  PROVE  FetchesBacked' /\ ResponseJustified'
<1> DEFINE q == [pc |-> what, call |-> call, since |-> now, answer |-> None]
<1>1. request \in [Request -> RequestState]
  BY DEF IInv, TypeOK, RequestState
<1>2. request'[r] = q /\ \A x \in Request \ {r} : request'[x] = request[x]
  BY <1>1 DEF Fetch
<1>3. FetchBacked(q, now, seen, missing)
  BY NothingBacked, OidcAssumption DEF FetchBacked, IInv, TypeOK
<1> HIDE DEF q
<1>4. FetchesBacked'
  BY <1>2, <1>3 DEF FetchesBacked, world, IInv, Backing
<1>5. ResponseJustified'
  BY DEF Fetch, ResponseJustified
<1> QED
  BY <1>4, <1>5

LEMMA HotKeys ==
  ASSUME IInv, KeysKnown, NEW call \in Call, call.kid # None
  PROVE  \A outcome \in Verdicts(jwks.document, call) : Justified(call, outcome, now, seen, missing)
<1>1. jwks.document \in Keys /\ jwks.expires \in Int /\ now \in Int /\ Grace \in Int
  BY OidcAssumption DEF IInv, TypeOK, KeysKnown, Hot, Grace
<1>2. now - Grace <= jwks.expires - Grace /\ now - Grace \in Int /\ jwks.expires - Grace \in Int
  BY <1>1 DEF KeysKnown, Hot
<1>3. Backed(jwks.document, now - Grace, seen, missing)
  BY <1>2, BackedOlder DEF IInv, Backing, EntriesBacked
<1> QED
  BY <1>1, <1>3, VerdictJustified

LEMMA WithMetadataStep ==
  ASSUME IInv, UNCHANGED world, NEW r \in Request, NEW call \in Call, NEW document \in {Usable, Unusable},
         Backed(document, now - Grace, seen, missing), WithMetadata(r, call, document)
  PROVE  FetchesBacked' /\ ResponseJustified'
<1>1. CASE document # Usable /\ (Answer(r, call, "unavailable") \/ Answer(r, call, "failed"))
  <2>1. Deserving(call) => missing[call.kid] >= now - Grace
    BY <1>1, OidcAssumption DEF Backed, Deserving
  <2> QED
    BY <1>1, <2>1, AnswerStep DEF Justified
<1>2. CASE call.kid = None /\ Answer(r, call, "unauthorized")
  BY <1>2, AnswerStep DEF Justified, Deserving
<1>3. CASE call.kid # None /\ KeysKnown /\ \E outcome \in Verdicts(jwks.document, call) : Answer(r, call, outcome)
  BY <1>3, HotKeys, AnswerStep
<1>4. CASE Fetch(r, call, "jwks")
  BY <1>4, FetchStep
<1> QED
  BY OidcAssumption, <1>1, <1>2, <1>3, <1>4 DEF WithMetadata

LEMMA StillThere ==
  ASSUME IInv, UNCHANGED world
  PROVE  /\ HistoryNow'
         /\ UNCHANGED caches => EntriesBacked'
         /\ UNCHANGED request => FetchesBacked'
         /\ UNCHANGED page => PagesBacked'
<1>1. HistoryNow'
  BY DEF IInv, Backing, HistoryNow, world
<1>2. UNCHANGED caches => EntriesBacked'
  BY DEF IInv, Backing, EntriesBacked, world, caches
<1>3. UNCHANGED request => FetchesBacked'
  BY DEF IInv, Backing, FetchesBacked, world
<1>4. UNCHANGED page => PagesBacked'
  BY DEF IInv, Backing, PagesBacked, world
<1> QED
  BY <1>1, <1>2, <1>3, <1>4

(* Steps that leave the process as it is: what is recorded of the provider only grows. *)
LEMMA WorldStep ==
  ASSUME IInv, TypeOK', UNCHANGED <<caches, request, page>>, response' = None, HistoryNow',
         now' >= now,
         \A k \in Kid : seen'[k] >= seen[k] /\ missing'[k] >= missing[k],
         \A r \in Request : Waiting(r) => now' <= request[r].since + Latency,
         \A d \in Page : page[d].pc = "fetching" => now' <= page[d].since + Latency
  PROVE  Backing'
<1>1. /\ seen \in [Kid -> Int] /\ missing \in [Kid -> Int]
      /\ seen' \in [Kid -> Int] /\ missing' \in [Kid -> Int]
  BY DEF IInv, TypeOK
<1>2. EntriesBacked'
  <2>1. metadata.expires - Grace \in Int /\ jwks.expires - Grace \in Int
    BY OidcAssumption DEF IInv, TypeOK, Grace
  <2>2. /\ Backed(metadata.document, metadata.expires - Grace, seen', missing')
        /\ Backed(jwks.document, jwks.expires - Grace, seen', missing')
    BY <1>1, <2>1, BackedGrows DEF IInv, Backing, EntriesBacked
  <2> QED
    BY <2>2 DEF EntriesBacked, caches
<1>3. FetchesBacked'
  <2> SUFFICES ASSUME NEW r \in Request, request[r].pc # "idle"
               PROVE  /\ request[r].since <= now' /\ now' <= request[r].since + Latency
                      /\ Backed(request[r].answer, request[r].since, seen', missing')
    BY DEF FetchesBacked, FetchBacked
  <2>1. /\ request[r].since \in Int /\ request[r].since <= now
        /\ Backed(request[r].answer, request[r].since, seen, missing)
    BY DEF IInv, Backing, FetchesBacked, FetchBacked, TypeOK
  <2> QED
    BY <1>1, <2>1, BackedGrows DEF Waiting, IInv, TypeOK
<1>4. PagesBacked'
  <2> SUFFICES ASSUME NEW d \in Page
               PROVE  FetchBacked(page[d], now', seen', missing') /\ (page[d].pc = "idle" => page[d].answer = None)
    BY DEF PagesBacked
  <2>1. CASE page[d].pc # "idle"
    <3>1. /\ page[d].pc = "fetching" /\ page[d].since \in Int /\ page[d].since <= now
          /\ Backed(page[d].answer, page[d].since, seen, missing)
      BY <2>1 DEF IInv, Backing, PagesBacked, FetchBacked, TypeOK
    <3> QED
      BY <1>1, <2>1, <3>1, BackedGrows DEF FetchBacked, IInv, TypeOK
  <2>2. CASE page[d].pc = "idle"
    BY <2>2 DEF IInv, Backing, PagesBacked, FetchBacked
  <2> QED
    BY <2>1, <2>2
<1>5. ResponseJustified'
  BY DEF ResponseJustified
<1> QED
  BY <1>2, <1>3, <1>4, <1>5 DEF Backing

-----------------------------------------------------------------------------
LEMMA IInvInit == Init => IInv
<1> SUFFICES ASSUME Init PROVE IInv
  OBVIOUS
<1>1. TypeOK
  BY TypeInit
<1>2. HistoryNow
  BY OidcAssumption DEF Init, HistoryNow, LongAgo, Grace
<1>3. EntriesBacked
  BY NothingBacked DEF Init, EntriesBacked, Cold
<1>4. FetchesBacked
  BY DEF Init, FetchesBacked, FetchBacked, Idle
<1>5. PagesBacked
  BY DEF Init, PagesBacked, FetchBacked, Closed
<1> QED
  BY <1>1, <1>2, <1>3, <1>4, <1>5 DEF IInv, Backing, ResponseJustified, Init

LEMMA IInvNext == IInv /\ [Next]_vars => IInv'
<1> SUFFICES ASSUME IInv, [Next]_vars PROVE Backing'
  BY TypeNext DEF IInv
<1> USE DEF Backing
<1>0. TypeOK /\ TypeOK'
  BY TypeNext DEF IInv
<1>1. ASSUME NEW r \in Request, NEW call \in Call, Authorize(r, call) PROVE Backing'
  <2>1. UNCHANGED <<world, caches, page>>
    BY <1>1 DEF Authorize
  <2>2. CASE Hot(metadata) /\ WithMetadata(r, call, metadata.document)
    <3>1. metadata.document \in {Usable, Unusable} /\ metadata.expires \in Int /\ now \in Int /\ Grace \in Int
      BY <1>0, <2>2, OidcAssumption DEF TypeOK, Hot, Grace
    <3>2. now - Grace <= metadata.expires - Grace /\ now - Grace \in Int /\ metadata.expires - Grace \in Int
      BY <2>2, <3>1 DEF Hot
    <3>3. Backed(metadata.document, now - Grace, seen, missing)
      BY <1>0, <3>2, BackedOlder DEF IInv, EntriesBacked
    <3> QED
      BY <2>1, <2>2, <3>1, <3>3, WithMetadataStep, StillThere
  <2>3. CASE Fetch(r, call, "metadata")
    BY <2>1, <2>3, FetchStep, StillThere
  <2> QED
    BY <1>1, <2>2, <2>3 DEF Authorize
<1>2. ASSUME NEW r \in Request, RejectMissing(r) PROVE Backing'
  <2>1. Justified(None, "unauthorized", now, seen, missing)
    BY DEF Justified, Deserving
  <2> QED
    BY <1>2, <2>1, AnswerStep, StillThere DEF RejectMissing
<1>3. ASSUME NEW r \in Request, ServeRequest(r) PROVE Backing'
  <2> DEFINE a == IF request[r].pc = "metadata" THEN MetadataAnswer ELSE KeysAnswer
  <2>1. Backed(a, now, seen, missing)
    BY ProviderBacked
  <2>2. request[r] \in RequestState /\ request[r].since \in Int /\ request \in [Request -> RequestState]
    BY <1>0 DEF TypeOK, RequestState
  <2>3. /\ request'[r] = [request[r] EXCEPT !.answer = a]
        /\ \A x \in Request \ {r} : request'[x] = request[x]
    BY <1>3, <2>2 DEF ServeRequest
  <2> HIDE DEF a
  <2>4. now \in Int /\ seen \in [Kid -> Int] /\ missing \in [Kid -> Int]
    BY <1>0 DEF TypeOK
  <2>5. request[r].since <= now
    BY <1>3 DEF ServeRequest, Waiting, IInv, FetchesBacked, FetchBacked
  <2>6. Backed(a, request[r].since, seen, missing)
    BY <1>0, <2>1, <2>2, <2>4, <2>5, BackedOlder
  <2>7. FetchBacked(request'[r], now, seen, missing)
    BY <1>3, <2>2, <2>3, <2>6 DEF ServeRequest, IInv, FetchesBacked, FetchBacked, RequestState
  <2>8. FetchesBacked'
    BY <1>3, <2>3, <2>7 DEF ServeRequest, IInv, FetchesBacked, world
  <2> QED
    BY <1>3, <2>8, StillThere DEF ServeRequest, ResponseJustified
<1>4. ASSUME NEW r \in Request, MetadataReceived(r) PROVE Backing'
  <2>1. request[r].answer \in {Usable, Unusable} /\ request[r].call \in Call /\ request[r] \in RequestState
        /\ request[r].pc # "idle"
    BY <1>0, <1>4 DEF MetadataReceived, Received, TypeOK, Waiting, RequestState
  <2>2. FetchBacked(request[r], now, seen, missing)
    BY DEF IInv, FetchesBacked
  <2>3. /\ Backed(request[r].answer, now - Grace, seen, missing)
        /\ Backed(metadata'.document, metadata'.expires - Grace, seen, missing)
    BY <1>4, <2>1, <2>2, EntryBacked DEF MetadataReceived
  <2>4. FetchesBacked' /\ ResponseJustified'
    BY <1>4, <2>1, <2>3, WithMetadataStep DEF MetadataReceived
  <2>5. EntriesBacked'
    BY <1>4, <2>3 DEF MetadataReceived, EntriesBacked, IInv, world
  <2> QED
    BY <1>4, <2>4, <2>5, StillThere DEF MetadataReceived
<1>5. ASSUME NEW r \in Request, KeysReceived(r) PROVE Backing'
  <2>1. request[r].answer \in Keys /\ request[r].call \in Call /\ request[r].call.kid # None
        /\ request[r] \in RequestState /\ request[r].pc # "idle"
    BY <1>0, <1>5 DEF KeysReceived, Received, TypeOK, Waiting, RequestState
  <2>2. FetchBacked(request[r], now, seen, missing)
    BY DEF IInv, FetchesBacked
  <2>3. /\ Backed(request[r].answer, now - Grace, seen, missing)
        /\ Backed(jwks'.document, jwks'.expires - Grace, seen, missing)
    BY <1>5, <2>1, <2>2, EntryBacked DEF KeysReceived
  <2>4. FetchesBacked' /\ ResponseJustified'
    BY <1>5, <2>1, <2>3, VerdictJustified, AnswerStep DEF KeysReceived
  <2>5. EntriesBacked'
    BY <1>5, <2>3 DEF KeysReceived, EntriesBacked, IInv, world
  <2> QED
    BY <1>5, <2>4, <2>5, StillThere DEF KeysReceived
<1>6. ASSUME NEW r \in Request, FetchFailed(r) PROVE Backing'
  <2>1. request[r].call \in Call /\ request[r] \in RequestState /\ request[r].pc # "idle"
    BY <1>0, <1>6 DEF FetchFailed, TypeOK, Waiting, RequestState
  <2>2. FetchBacked(request[r], now, seen, missing)
    BY DEF IInv, FetchesBacked
  <2>3. Backed(Lost, now - Grace, seen, missing)
    BY <1>6, <2>1, <2>2, EntryBacked DEF FetchFailed
  <2>4. Justified(request[r].call, "unavailable", now, seen, missing)
    BY <2>1, <2>3, OidcAssumption DEF Justified, Deserving, Backed
  <2> QED
    BY <1>6, <2>4, AnswerStep, StillThere DEF FetchFailed
<1>7. ASSUME NEW d \in Page, OpenPage(d) PROVE Backing'
  <2>1. page \in [Page -> PageState] /\ now \in Int
    BY <1>0 DEF TypeOK, PageState
  <2>2. /\ page'[d] = Closed \/ page'[d] = [pc |-> "fetching", since |-> now, answer |-> None]
        /\ \A x \in Page \ {d} : page'[x] = page[x]
    BY <1>7, <2>1 DEF OpenPage, Show
  <2>3. PagesBacked'
    BY <1>7, <2>1, <2>2, NothingBacked, OidcAssumption DEF OpenPage, PagesBacked, FetchBacked, Closed, IInv, world
  <2>4. ResponseJustified'
    <3>1. CASE Show(d, schema) /\ schema # None
      <4>1. schema # "accepted"
        BY <1>0, <3>1 DEF TypeOK, Schemas
      <4> QED
        BY <3>1, <4>1, SchemaIsNoOutcome DEF Show
    <3>2. CASE schema' = Login(metadata.document) /\ Show(d, schema')
      <4>1. Login(metadata.document) # "accepted"
        BY DEF Login
      <4> QED
        BY <3>2, <4>1, SchemaIsNoOutcome DEF Show
    <3>3. CASE response' = None
      BY <3>3 DEF ResponseJustified
    <3> QED
      BY <1>7, <3>1, <3>2, <3>3 DEF OpenPage
  <2> QED
    BY <1>7, <2>3, <2>4, StillThere DEF OpenPage
<1>8. ASSUME NEW d \in Page, ServePage(d) PROVE Backing'
  <2>1. page \in [Page -> PageState] /\ now \in Int /\ page[d].since \in Int
    BY <1>0 DEF TypeOK, PageState
  <2>2. page'[d] = [page[d] EXCEPT !.answer = MetadataAnswer] /\ \A x \in Page \ {d} : page'[x] = page[x]
    BY <1>8, <2>1 DEF ServePage
  <2>3. page[d].since <= now
    BY <1>8 DEF ServePage, IInv, PagesBacked, FetchBacked
  <2>4. Backed(MetadataAnswer, page[d].since, seen, missing)
    BY <1>0, <2>1, <2>3, ProviderBacked, BackedOlder
  <2>5. FetchBacked(page'[d], now, seen, missing) /\ page'[d].pc # "idle"
    BY <1>8, <2>1, <2>2, <2>4 DEF ServePage, IInv, PagesBacked, FetchBacked, PageState
  <2>6. PagesBacked'
    BY <1>8, <2>2, <2>5 DEF ServePage, IInv, PagesBacked, world
  <2> QED
    BY <1>8, <2>6, StillThere DEF ServePage, ResponseJustified
<1>9. ASSUME NEW d \in Page, BuildSchema(d) PROVE Backing'
  <2>1. page \in [Page -> PageState] /\ page[d] \in PageState
    BY <1>0 DEF TypeOK, PageState
  <2>2. page'[d] = Closed /\ \A x \in Page \ {d} : page'[x] = page[x]
    BY <1>9, <2>1 DEF BuildSchema, Show
  <2>3. PagesBacked'
    BY <1>9, <2>2 DEF BuildSchema, PagesBacked, FetchBacked, Closed, IInv, world
  <2>4. page[d].pc # "idle" /\ FetchBacked(page[d], now, seen, missing)
    BY <1>9 DEF BuildSchema, IInv, PagesBacked
  <2>5. Backed(Entry(page[d].answer).document, Entry(page[d].answer).expires - Grace, seen, missing)
    BY <2>1, <2>4, EntryBacked
  <2>6. EntriesBacked'
    BY <1>9, <2>5 DEF BuildSchema, EntriesBacked, IInv, world
  <2>7. ResponseJustified'
    <3>1. schema' = "unavailable" \/ schema' = Login(page[d].answer)
      BY <1>9 DEF BuildSchema
    <3>2. schema' # "accepted"
      BY <3>1 DEF Login
    <3> QED
      BY <1>9, <3>2, SchemaIsNoOutcome DEF BuildSchema, Show
  <2> QED
    BY <1>9, <2>3, <2>6, <2>7, StillThere DEF BuildSchema
<1>10. CASE ChangeProvider
  <2>1. /\ now \in Int /\ seen \in [Kid -> Int] /\ missing \in [Kid -> Int]
        /\ \A k \in Kid : seen[k] <= now /\ missing[k] <= now
    BY <1>0 DEF TypeOK, IInv, HistoryNow
  <2>2. /\ \A k \in Kid : seen'[k] >= seen[k] /\ missing'[k] >= missing[k]
        /\ HistoryNow'
    BY <1>10, <2>1 DEF ChangeProvider, HistoryNow
  <2>3. /\ \A r \in Request : Waiting(r) => now <= request[r].since + Latency
        /\ \A d \in Page : page[d].pc = "fetching" => now <= page[d].since + Latency
    BY DEF IInv, FetchesBacked, PagesBacked, FetchBacked, Waiting
  <2> QED
    BY <1>0, <1>10, <2>1, <2>2, <2>3, WorldStep DEF ChangeProvider
<1>11. CASE Tick
  <2>1. /\ now \in Int /\ seen \in [Kid -> Int] /\ missing \in [Kid -> Int]
        /\ \A k \in Kid : seen[k] <= now /\ missing[k] <= now
    BY <1>0 DEF TypeOK, IInv, HistoryNow
  <2>2. /\ \A k \in Kid : seen'[k] >= seen[k] /\ missing'[k] >= missing[k]
        /\ HistoryNow' /\ now' >= now
    BY <1>11, <2>1 DEF Tick, HistoryNow
  <2>3. /\ \A r \in Request : request[r].since \in Int
        /\ \A d \in Page : page[d].since \in Int
    BY <1>0 DEF TypeOK
  <2>4. /\ \A r \in Request : Waiting(r) => now + 1 <= request[r].since + Latency
        /\ \A d \in Page : page[d].pc = "fetching" => now + 1 <= page[d].since + Latency
    BY <1>11, <2>1, <2>3, OidcAssumption DEF Tick
  <2> QED
    BY <1>0, <1>11, <2>2, <2>4, WorldStep DEF Tick
<1>12. CASE Restart
  <2>1. EntriesBacked'
    BY <1>12, NothingBacked DEF Restart, EntriesBacked, Cold
  <2>2. FetchesBacked' /\ PagesBacked'
    BY <1>12 DEF Restart, FetchesBacked, PagesBacked, FetchBacked, Idle, Closed
  <2> QED
    BY <1>12, <2>1, <2>2, StillThere DEF Restart, ResponseJustified
<1>13. CASE UNCHANGED vars
  <2>1. ResponseJustified'
    BY <1>13 DEF vars, IInv, ResponseJustified
  <2> QED
    BY <1>13, <2>1, StillThere DEF vars, world, caches
<1> QED
  BY <1>1, <1>2, <1>3, <1>4, <1>5, <1>6, <1>7, <1>8, <1>9, <1>10, <1>11, <1>12, <1>13 DEF Next

(* However fetches overlap, answer late and overwrite one another: a token is *)
(* accepted only by a key that the provider published within the lifetime of  *)
(* an entry and one fetch before.                                             *)
THEOREM RecentAcceptance == Spec => []AcceptanceIsRecent
<1>1. IInv => AcceptanceIsRecent
  BY DEF IInv, Backing, ResponseJustified, Justified, AcceptanceIsRecent
<1> QED
  BY <1>1, IInvInit, IInvNext, PTL DEF Spec

(* A sound token with the role that is required is turned away only if its key *)
(* was not to be had from the provider at some time as recent as that.         *)
THEOREM CausedRejection == Spec => []RejectionHasCause
<1>1. IInv => RejectionHasCause
  BY DEF IInv, Backing, ResponseJustified, Justified, RejectionHasCause
<1> QED
  BY <1>1, IInvInit, IInvNext, PTL DEF Spec
=============================================================================
