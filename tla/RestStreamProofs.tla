-------------------------- MODULE RestStreamProofs --------------------------
(***************************************************************************)
(* One stream of records, proved for every feed, every limit and every set *)
(* of URLs and values: what HttpClient promises of each call, what the     *)
(* temporary file of Dedup holds, what Profile counts, and what the stream *)
(* makes of the three.                                                     *)
(***************************************************************************)
EXTENDS RestStream, FiniteSetTheorems, TLAPS

(* The sends of a call that has been redirected n times, its retries used. *)
Allowance(n) == n * (MaxRetries + 1) + MaxRetries

(* HttpClient: the state of one call.  A POST that was not retried has not *)
(* taken effect while it may be sent again, and every target has its own   *)
(* retries.                                                                *)
CallInOrder ==
    /\ Client!TypeOK
    /\ phase \in {"checked", "sending"} => target \in Urls
    /\ phase \in {"idle", "checked"} =>
           redirects = 0 /\ retries = 0 /\ sends = 0 /\ acted = 0
    /\ since <= secret
    /\ phase = "sending" /\ method = "POST" /\ ~RetryPost => acted = 0
    /\ phase = "sending" => sends + retries <= Allowance(redirects)
    /\ PostActsOnce
    /\ SendsAreBounded
    /\ RotationTakesEffect

(* The target of every send is of the origin of the first page, and no     *)
(* call is under way unless the stream waits for it, or waited and died.   *)
Home == OriginOf[feed.urls[1]]
TargetIsHome == phase \in {"checked", "sending"} => OriginOf[target] = Home
CallsAreAwaited == stage \notin {"requesting", "crashed"} => phase = "idle"

(* Stages at which the stream goes on or has ended well, and those at      *)
(* which the loop over its records runs.                                   *)
Well == {"drawing", "yielded", "requesting", "finishing", "closing", "exhausted"}
Looping == {"drawing", "yielded", "requesting"}

(* Dedup: the file is there while the stream lives.  What is not committed *)
(* counts in pending, so that what closing commits fits the limit too.     *)
FileInOrder ==
    /\ Tracker!TypeOK
    /\ IsFiniteSet(seen)
    /\ stage = "new" => store = "none" /\ ~file /\ pending = 0
    /\ stage \in (Well \ {"exhausted"}) \union {"raising"} => store = "open"
    /\ NoFileLeftBehind
    /\ SpillIsBounded
    /\ Cardinality(seen) <= MaxTempKeys + CommitInterval
    /\ stage \in Looping \union {"new"} =>
          /\ Cardinality(seen) <= onDisk + pending
          /\ Cardinality(seen) <= MaxUniqueKeys
          /\ onDisk <= MaxTempKeys

(* Profile: every register that is used has a highest rank.                *)
IsHighest(vs, m) ==
    m \in vs /\ \A v \in vs : RegisterOf[v] = RegisterOf[m] => RankOf[v] <= RankOf[m]
HasHighest(vs) ==
    \A v \in vs : \E m \in vs : RegisterOf[m] = RegisterOf[v] /\ IsHighest(vs, m)
FieldInOrder ==
    /\ Field!TypeOK
    /\ IsFiniteSet(profiled) /\ IsFiniteSet(types)
    /\ HasHighest(profiled)
    /\ CardinalityCoversAll

(* The stream: where it stands among its pages and records.                *)
PlaceInOrder ==
    /\ feed \in Feeds
    /\ stage \in {"new", "raising"} \union Well \union Over
    /\ pages \in 0 .. Len(feed.urls)
    /\ drawn \in 0 .. Len(feed.records)
    /\ aborted \in BOOLEAN
    /\ stage = "requesting" => pages < Len(feed.urls)
    /\ stage = "new" => drawn = 0
    /\ stage \in {"finishing", "exhausted"} /\ ~aborted /\ ~Sampled =>
          drawn = Len(feed.records)

(* The keys among the first n records, and the positions that have one.    *)
Keyed(n) == {i \in 1 .. n : Key(feed.kind, i) # Invalid}
Keys(n) == {Key(feed.kind, i) : i \in Keyed(n)}

(* What was added tells what was seen: the keys, the records without one,  *)
(* the repetitions, the values and their types.                            *)
KeysInOrder ==
    /\ emitted \subseteq Firsts("extract", drawn)
    /\ feed.kind = "profile" => ~aborted /\ emitted = {}
    /\ feed.kind = "extract" => analyzed = 0
    /\ stage \in Well \union {"new"} =>
          /\ seen = Keys(drawn)
          /\ feed.kind = "extract" =>
                Keyed(drawn) = 1 .. drawn /\ emitted = Firsts("extract", drawn)
          /\ feed.kind = "profile" =>
                /\ analyzed = drawn
                /\ invalid = drawn - Cardinality(Keyed(drawn))
                /\ duplicates = drawn - invalid - Cardinality(Firsts("profile", drawn))
                /\ types = {feed.records[i].type : i \in Keyed(drawn)}

IInv ==
    /\ CallInOrder /\ TargetIsHome /\ CredentialsStayHome /\ CallsAreAwaited
    /\ FileInOrder /\ FieldInOrder /\ PlaceInOrder /\ KeysInOrder
-----------------------------------------------------------------------------
(* What HttpClient and its instances are given.                          *)
LEMMA ClientConstants ==
  /\ MaxRedirects \in Nat /\ MaxRetries \in Nat /\ MaxChunks \in Nat /\ Rotations \in Nat
  /\ RetryPost \in BOOLEAN /\ SafeUrls \subseteq Urls /\ NoUrl \notin Urls
  BY ClientAssumption DEF Client!ConstantsFit

(* One more target has retries of its own, and the last one fits as well.  *)
LEMMA RetryBudget ==
  ASSUME NEW n \in 0 .. MaxRedirects
  PROVE  /\ Allowance(n) \in Nat
         /\ Allowance(n + 1) = Allowance(n) + MaxRetries + 1
         /\ Allowance(n) + 1 <= Client!SendLimit
         /\ Client!SendLimit \in Nat
<1>1. \A a, b, c \in Nat : a <= b => a * c <= b * c
  OBVIOUS
<1>2. (n + 1) * (MaxRetries + 1) <= (MaxRedirects + 1) * (MaxRetries + 1)
  BY <1>1, ClientConstants
<1> QED
  BY <1>2, ClientConstants DEF Client!SendLimit, Allowance

(* No call is under way at first.                                        *)
LEMMA CallInit == Client!Init => CallInOrder
  BY ClientConstants, RetryBudget
  DEF Allowance, Client!Init, CallInOrder, Client!TypeOK, Client!Ended, Client!Methods,
      PostActsOnce, Client!PostActsOnce, SendsAreBounded, Client!SendsAreBounded,
      RotationTakesEffect, Client!RotationTakesEffect

(* A request that is sent counts.                                          *)
LEMMA SendCounts ==
  ASSUME CallInOrder, phase = "sending", Client!CountSend
  PROVE  /\ sends' = sends + 1 /\ sends \in Nat
         /\ sends' + retries <= Allowance(redirects) + 1
         /\ sends' <= Client!SendLimit
         /\ Allowance(redirects) \in Nat
<1>1. /\ redirects \in 0 .. MaxRedirects /\ retries \in 0 .. MaxRetries /\ sends \in Nat
      /\ sends <= Client!SendLimit
  BY DEF CallInOrder, Client!TypeOK, SendsAreBounded, Client!SendsAreBounded
<1>2. /\ Allowance(redirects) + 1 <= Client!SendLimit
      /\ Allowance(redirects) \in Nat /\ Client!SendLimit \in Nat
  BY <1>1, RetryBudget
<1>3. sends' = sends + 1
  BY <1>1, <1>2 DEF Client!CountSend
<1>4. sends + retries <= Allowance(redirects)
  BY DEF CallInOrder
<1> QED
  BY <1>1, <1>2, <1>3, <1>4, ClientConstants

(* Every step of a call, and every rotation, keeps its state in order.     *)
LEMMA CallBegins ==
  ASSUME CallInOrder, NEW m \in Client!Methods, NEW u \in Urls, Client!Call(m, u)
  PROVE  CallInOrder'
<1> USE DEF Client!Call, Client!callVars, Client!secretVars
<1>1. Client!TypeOK'
  BY ClientConstants DEF CallInOrder, Client!TypeOK, Client!Ended
<1>2. SendsAreBounded' /\ PostActsOnce'
  BY DEF CallInOrder, SendsAreBounded, Client!SendsAreBounded, Client!SendLimit,
         PostActsOnce, Client!PostActsOnce
<1>3. RotationTakesEffect' /\ (since <= secret)'
  BY DEF CallInOrder, Client!TypeOK, RotationTakesEffect,
     Client!RotationTakesEffect
<1> QED
  BY <1>1, <1>2, <1>3, ClientConstants DEF CallInOrder

(* Whoever called has the answer, and the locals of the call are gone.   *)
LEMMA CallReturns ==
  ASSUME CallInOrder, Client!Return
  PROVE  CallInOrder'
<1> USE DEF Client!Return, Client!secretVars
<1>1. Client!TypeOK'
  BY ClientConstants DEF CallInOrder, Client!TypeOK, Client!Ended,
     Client!Methods
<1>2. SendsAreBounded' /\ PostActsOnce'
  BY RetryBudget, ClientConstants
  DEF SendsAreBounded, Client!SendsAreBounded, PostActsOnce, Client!PostActsOnce, Client!SendLimit
<1>3. RotationTakesEffect' /\ (since <= secret)'
  BY ClientConstants DEF CallInOrder, Client!TypeOK, RotationTakesEffect,
     Client!RotationTakesEffect
<1> QED
  BY <1>1, <1>2, <1>3, ClientConstants DEF CallInOrder

(* A call is signed once, with the secret of the moment.                   *)
LEMMA CallIsSigned ==
  ASSUME CallInOrder, Client!ApplyAuth
  PROVE  CallInOrder'
<1> USE DEF Client!ApplyAuth, Client!secretVars, Client!ReadSecret
<1>1. Client!TypeOK'
  BY ClientConstants DEF CallInOrder, Client!TypeOK, Client!Ended
<1>2. SendsAreBounded' /\ PostActsOnce'
  BY DEF CallInOrder, SendsAreBounded, Client!SendsAreBounded, Client!SendLimit,
         PostActsOnce, Client!PostActsOnce
<1>3. RotationTakesEffect' /\ (since <= secret)'
  BY DEF CallInOrder, Client!TypeOK, RotationTakesEffect,
     Client!RotationTakesEffect
<1>4. sends' = 0 /\ redirects' = 0 /\ acted' = 0 /\ target' \in Urls
  BY DEF CallInOrder
<1>5. phase' \in {"sending", "raised"} /\ (phase' = "sending" => retries' = MaxRetries)
  OBVIOUS
<1>6. Allowance(0) = MaxRetries
  BY ClientConstants DEF Allowance
<1> QED
  BY <1>1, <1>2, <1>3, <1>4, <1>5, <1>6, ClientConstants DEF CallInOrder

(* The secret gets newer or goes away, never older.                      *)
LEMMA SecretRotates ==
  ASSUME CallInOrder, Client!Rotates
  PROVE  CallInOrder'
<1> USE DEF Client!callVars
<1>1. /\ UNCHANGED <<phase, method, target, redirects, retries, signed, held,
                     since, sends, acted, origins>>
      /\ readable' \in BOOLEAN
      /\ secret' = secret \/ (secret < Rotations /\ secret' = secret + 1)
  BY DEF Client!Rotates, Client!Rotate, Client!RemoveSecret
<1>2. {signed, secret, since} \subseteq 0 .. Rotations /\ Client!TypeOK
  BY DEF CallInOrder, Client!TypeOK
<1>3. secret \in 0 .. Rotations /\ since \in 0 .. Rotations /\ signed \in 0 .. Rotations
  BY <1>2
<1>4. secret' \in 0 .. Rotations /\ secret <= secret'
  BY <1>1, <1>3, ClientConstants
<1>5. Client!TypeOK'
  BY <1>1, <1>2, <1>3, <1>4 DEF Client!TypeOK
<1>6. (SendsAreBounded /\ PostActsOnce /\ RotationTakesEffect)'
  BY <1>1
  DEF CallInOrder, SendsAreBounded, Client!SendsAreBounded, Client!SendLimit, PostActsOnce,
      Client!PostActsOnce, RotationTakesEffect, Client!RotationTakesEffect
<1>7. since' <= secret'
  BY <1>1, <1>3, <1>4 DEF CallInOrder
<1> QED
  BY <1>1, <1>5, <1>6, <1>7 DEF CallInOrder

(* No request arrived, and one retry less is left.                       *)
LEMMA ConnectionFails ==
  ASSUME CallInOrder, Client!ConnectFails
  PROVE  CallInOrder'
<1> USE DEF Client!ConnectFails, Client!RetryIf, Client!OneLess, Client!secretVars
<1>1. /\ sends' = sends + 1 /\ sends \in Nat /\ sends' <= Client!SendLimit
      /\ sends' + retries <= Allowance(redirects) + 1
      /\ Allowance(redirects) \in Nat
  BY SendCounts
<1>2. Client!TypeOK'
  BY <1>1, ClientConstants DEF CallInOrder, Client!TypeOK, Client!Ended
<1>3. SendsAreBounded' /\ PostActsOnce'
  BY <1>1 DEF CallInOrder, SendsAreBounded, Client!SendsAreBounded,
     Client!SendLimit,
              PostActsOnce, Client!PostActsOnce
<1>4. RotationTakesEffect' /\ (since <= secret)'
  BY DEF CallInOrder, Client!TypeOK, RotationTakesEffect,
     Client!RotationTakesEffect
<1>5. phase' = "sending" => sends' + retries' <= Allowance(redirects')
  BY <1>1, ClientConstants DEF CallInOrder, Client!TypeOK
<1> QED
  BY <1>2, <1>3, <1>4, <1>5 DEF CallInOrder

(* A request that was sent may be sent again only if that does no harm.    *)
LEMMA AnswerIsLost ==
  ASSUME CallInOrder, Client!AnswerFails
  PROVE  CallInOrder'
<1> USE DEF Client!AnswerFails, Client!Sent, Client!RetryIf, Client!OneLess, Client!secretVars
<1>1. /\ sends' = sends + 1 /\ sends \in Nat /\ sends' <= Client!SendLimit
      /\ sends' + retries <= Allowance(redirects) + 1
      /\ Allowance(redirects) \in Nat
  BY SendCounts
<1>2. acted' \in Nat /\ (method # "POST" => acted' = acted) /\ acted' <= acted + 1
  BY DEF CallInOrder, Client!TypeOK
<1>3. Client!TypeOK'
  BY <1>1, <1>2, ClientConstants DEF CallInOrder, Client!TypeOK, Client!Ended
<1>4. SendsAreBounded' /\ PostActsOnce'
  BY <1>1, <1>2 DEF CallInOrder, Client!TypeOK, SendsAreBounded,
     Client!SendsAreBounded,
      Client!SendLimit, PostActsOnce, Client!PostActsOnce
<1>5. RotationTakesEffect' /\ (since <= secret)'
  BY DEF CallInOrder, Client!TypeOK, RotationTakesEffect,
     Client!RotationTakesEffect
<1>6. phase' = "sending" => sends' + retries' <= Allowance(redirects')
  BY <1>1, ClientConstants DEF CallInOrder, Client!TypeOK
<1>7. ~(phase' = "sending" /\ method' = "POST" /\ ~RetryPost)
  BY DEF Client!AllowedMethod
<1>8. phase' \in {"sending", "raised"} /\ (phase' = "sending" => target' \in Urls)
  BY DEF CallInOrder
<1> QED
  BY <1>3, <1>4, <1>5, <1>6, <1>7, <1>8 DEF CallInOrder

(* An answer with a status that ends the sends of the call.              *)
LEMMA AnswerEnds ==
  ASSUME CallInOrder, Client!ErrorStatus \/ Client!Success
  PROVE  CallInOrder'
<1> USE DEF Client!ErrorStatus, Client!Success, Client!Sent, Client!secretVars
<1>1. sends' = sends + 1 /\ sends \in Nat /\ sends' <= Client!SendLimit
  BY SendCounts
<1>2. acted' \in Nat /\ (method # "POST" => acted' = acted) /\ acted' <= acted + 1
  BY DEF CallInOrder, Client!TypeOK
<1>3. Client!TypeOK'
  BY <1>1, <1>2, ClientConstants DEF CallInOrder, Client!TypeOK, Client!Ended
<1>4. SendsAreBounded' /\ PostActsOnce'
  BY <1>1, <1>2 DEF CallInOrder, Client!TypeOK, SendsAreBounded,
     Client!SendsAreBounded,
      Client!SendLimit, PostActsOnce, Client!PostActsOnce
<1>5. RotationTakesEffect' /\ (since <= secret)'
  BY DEF CallInOrder, Client!TypeOK, RotationTakesEffect,
     Client!RotationTakesEffect
<1>6. phase' \in {"reading", "raised"}
  OBVIOUS
<1> QED
  BY <1>3, <1>4, <1>5, <1>6 DEF CallInOrder

(* A redirect goes on with a GET, or with a POST that was sent away.       *)
LEMMA CallIsRedirected ==
  ASSUME CallInOrder, NEW status, NEW u \in Urls \union {NoUrl}, Client!Redirect(status, u)
  PROVE  CallInOrder'
<1>1. /\ phase = "sending" /\ Client!CountSend
      /\ origins' = origins \union {OriginOf[target]}
      /\ acted' = acted \/ (method = "POST" /\ acted' = acted + 1 /\ method' # "POST")
                       \/ (method = "POST" /\ acted' = acted + 1 /\ phase' = "raised")
      /\ UNCHANGED <<signed, held, since, secret, readable>>
  BY DEF Client!Redirect, Client!Sent, Client!secretVars, Client!NextMethod
<1>2. \/ /\ u \in Urls /\ redirects < MaxRedirects
         /\ redirects' = redirects + 1 /\ method' \in {"GET", method}
         /\ target' = u /\ retries' = MaxRetries /\ phase' = "sending"
      \/ phase' = "raised" /\ UNCHANGED <<redirects, method, target, retries>>
  BY <1>1 DEF Client!Redirect, Client!MayFollow, Client!OneMore,
     Client!NextMethod
<1>3. /\ sends' = sends + 1 /\ sends \in Nat /\ sends' <= Client!SendLimit
      /\ sends' + retries <= Allowance(redirects) + 1
      /\ Allowance(redirects) \in Nat
  BY <1>1, SendCounts
<1>4. /\ method \in Client!Methods /\ target \in Urls
      /\ redirects \in 0 .. MaxRedirects /\ retries \in 0 .. MaxRetries
      /\ acted \in Nat /\ {signed, secret, since} \subseteq 0 .. Rotations
      /\ held \in 0 .. MaxChunks /\ readable \in BOOLEAN
      /\ origins \subseteq {OriginOf[v] : v \in Urls}
  BY <1>1 DEF CallInOrder, Client!TypeOK
<1>5. method' \in Client!Methods
  BY <1>2, <1>4 DEF Client!Methods
<1>6. target' \in Urls /\ phase' \in {"sending", "raised"}
  BY <1>2, <1>4
<1>7. redirects' \in 0 .. MaxRedirects /\ retries' \in 0 .. MaxRetries /\ acted' \in Nat
  BY <1>1, <1>2, <1>4, ClientConstants
<1>8. Client!TypeOK'
  <2>1. origins' \subseteq {OriginOf[v] : v \in Urls}
    BY <1>1, <1>4
  <2>2. sends' \in Nat
    BY <1>3
  <2>3. {signed, secret, since}' \subseteq 0 .. Rotations /\ held' \in 0 .. MaxChunks
    BY <1>1, <1>4
  <2> QED
    BY <1>1, <1>4, <1>5, <1>6, <1>7, <2>1, <2>2, <2>3
    DEF Client!TypeOK, Client!Ended
<1>9. phase' = "sending" => sends' + retries' <= Allowance(redirects')
  <2>1. Allowance(redirects + 1) = Allowance(redirects) + MaxRetries + 1
    BY <1>4, RetryBudget
  <2> QED
    BY <1>2, <1>3, <1>4, <2>1, ClientConstants
<1>10. ~RetryPost => acted' <= 1 /\ (phase' = "sending" /\ method' = "POST" => acted' = 0)
  <2>1. ~RetryPost /\ method = "POST" => acted = 0
    BY <1>1 DEF CallInOrder
  <2>2. ~RetryPost => acted <= 1
    BY DEF CallInOrder, PostActsOnce, Client!PostActsOnce
  <2>3. method' = "POST" /\ phase' = "sending" => method = "POST"
    BY <1>2
  <2> QED
    BY <1>1, <1>4, <2>1, <2>2, <2>3
<1>11. SendsAreBounded' /\ PostActsOnce'
  BY <1>3, <1>10
  DEF SendsAreBounded, Client!SendsAreBounded, Client!SendLimit, PostActsOnce, Client!PostActsOnce
<1>12. RotationTakesEffect' /\ (since <= secret)'
  BY <1>1 DEF CallInOrder, RotationTakesEffect, Client!RotationTakesEffect
<1> QED
  BY <1>6, <1>8, <1>9, <1>10, <1>11, <1>12 DEF CallInOrder

(* The body changes nothing but what is held of it.                      *)
LEMMA BodyIsRead ==
  ASSUME CallInOrder, Client!ReadChunk \/ Client!EndOfBody
  PROVE  CallInOrder'
<1> USE DEF Client!ReadChunk, Client!EndOfBody, Client!TooLarge, Client!secretVars
<1>1. Client!TypeOK'
  BY ClientConstants DEF CallInOrder, Client!TypeOK, Client!Ended
<1>2. SendsAreBounded' /\ PostActsOnce'
  BY DEF CallInOrder, SendsAreBounded, Client!SendsAreBounded, Client!SendLimit,
         PostActsOnce, Client!PostActsOnce
<1>3. RotationTakesEffect' /\ (since <= secret)'
  BY DEF CallInOrder, Client!TypeOK, RotationTakesEffect,
     Client!RotationTakesEffect
<1>4. phase' \in {"reading", "returned", "raised"}
  OBVIOUS
<1> QED
  BY <1>1, <1>2, <1>3, <1>4 DEF CallInOrder

(* All steps of a call together.                                         *)
LEMMA CallProceeds ==
  ASSUME CallInOrder, Client!Proceeds
  PROVE  CallInOrder'
  BY CallIsSigned, ConnectionFails, AnswerIsLost, AnswerEnds, CallIsRedirected,
     BodyIsRead
  DEF Client!Proceeds
-----------------------------------------------------------------------------
(* The stream that is considered is one of Feeds.                          *)
LEMMA FeedFacts ==
  ASSUME PlaceInOrder
  PROVE  /\ feed.kind \in {"extract", "profile"} /\ feed.method \in Client!Methods
         /\ feed.limit \in Nat
         /\ Len(feed.records) \in Nat /\ Len(feed.urls) \in Nat /\ Len(feed.urls) > 0
         /\ \A i \in 1 .. Len(feed.records) : feed.records[i] \in Values \union {Missing}
         /\ \A p \in 1 .. Len(feed.urls) : feed.urls[p] \in Urls
         /\ Available \in 0 .. Len(feed.records)
         /\ pages = Len(feed.urls) => Available = Len(feed.records)
<1>1. /\ feed.kind \in {"extract", "profile"} /\ feed.method \in {"GET", "POST"}
      /\ feed.limit \in Nat
      /\ feed.records \in Seq(Values \union {Missing})
      /\ feed.urls \in Seq(Urls) /\ Len(feed.urls) = Len(feed.ends)
      /\ feed.ends \in Seq(0 .. Len(feed.records))
      /\ feed.ends # <<>> /\ feed.ends[Len(feed.ends)] = Len(feed.records)
      /\ pages \in 0 .. Len(feed.urls)
  BY FeedAssumption DEF PlaceInOrder
<1>2. Len(feed.ends) \in Nat /\ Len(feed.ends) > 0
  BY <1>1
<1>3. Available \in 0 .. Len(feed.records)
  BY <1>1, <1>2 DEF Available
<1> QED
  BY <1>1, <1>2, <1>3 DEF Available, Client!Methods

(* What is added is a value or no usable key.                              *)
LEMMA KeysAreValues ==
  ASSUME NEW kind, NEW v \in Values \union {Missing}
  PROVE  /\ KeyOf(kind, v) \in Values \union {Invalid}
         /\ KeyOf(kind, v) = Invalid <=> v \in {Missing, Null}
<1>1. Invalid \notin Values /\ Null \in Values /\ Missing \notin Values
  BY TrackerAssumption, FieldAssumption DEF Tracker!ConstantsFit,
     Field!ConstantsFit
<1> QED
  BY <1>1, ValuesAssumption DEF KeyOf
-----------------------------------------------------------------------------
(* The instances count as this module does.                                *)
LEMMA SameCardinality ==
  ASSUME NEW S
  PROVE  Tracker!Cardinality(S) = Cardinality(S) /\ Field!Cardinality(S) = Cardinality(S)
<1>1. Tracker!Cardinality(S) = Cardinality(S)
  BY DEF Tracker!Cardinality, Cardinality
<1>2. Field!Cardinality(S) = Cardinality(S)
  BY DEF Field!Cardinality, Cardinality
<1> QED
  BY <1>1, <1>2

(* What ExactKeyDeduplicator is given.                                   *)
LEMMA TrackerConstants ==
  /\ MaxUniqueKeys \in Nat \ {0} /\ MaxTempKeys \in Nat \ {0} /\ CommitInterval \in Nat \ {0}
  /\ Invalid \notin Values
  BY TrackerAssumption DEF Tracker!ConstantsFit

(* ExactKeyDeduplicator.add on a table within its limits: what it returns  *)
(* tells whether the fingerprint was new, and the limits hold again unless *)
(* it raises.                                                              *)
LEMMA AddIsBounded ==
  ASSUME FileInOrder, stage \in Looping, NEW fp \in Values \union {Invalid},
         NEW strict \in BOOLEAN, Tracker!Add(fp, strict) \/ Tracker!AddFails
  PROVE  /\ Tracker!TypeOK' /\ IsFiniteSet(seen') /\ UNCHANGED <<store, file>>
         /\ SpillIsBounded'
         /\ Cardinality(seen') <= MaxTempKeys + CommitInterval
         /\ verdict' # "raised" =>
               /\ Cardinality(seen') <= onDisk' + pending'
               /\ Cardinality(seen') <= MaxUniqueKeys
               /\ onDisk' <= MaxTempKeys
<1>1. /\ store \in {"none", "open", "closed"} /\ file \in BOOLEAN
      /\ seen \subseteq Values /\ onDisk \in Nat /\ duplicates \in Nat /\ invalid \in Nat
      /\ pending \in 0 .. CommitInterval - 1
      /\ verdict \in {"none", "new", "duplicate", "invalid", "raised"}
      /\ IsFiniteSet(seen)
  BY DEF FileInOrder, Tracker!TypeOK
<1>2. /\ Cardinality(seen) <= MaxTempKeys + CommitInterval
      /\ Cardinality(seen) <= onDisk + pending
      /\ Cardinality(seen) <= MaxUniqueKeys
      /\ onDisk <= MaxTempKeys
      /\ Cardinality(seen) \in Nat
  BY <1>1, FS_CardinalityType DEF FileInOrder
<1>3. CASE Tracker!AddFails
  BY <1>1, <1>2, <1>3, TrackerConstants
  DEF Tracker!AddFails, Tracker!TypeOK, FileInOrder, SpillIsBounded, Tracker!SpillIsBounded,
      Tracker!uniqueCount
<1>4. CASE Tracker!AddInvalid(strict)
  BY <1>1, <1>2, <1>4, TrackerConstants
  DEF Tracker!AddInvalid, Tracker!Counted, Tracker!RefuseInvalid, Tracker!TypeOK, FileInOrder,
      SpillIsBounded, Tracker!SpillIsBounded, Tracker!uniqueCount
<1>5. CASE fp # Invalid /\ Tracker!AddFingerprint(fp)
  <2>1. /\ UNCHANGED <<store, file, invalid>>
        /\ seen' = seen \union {fp}
        /\ duplicates' \in {duplicates, duplicates + 1}
    BY <1>5 DEF Tracker!AddFingerprint
  <2>2. /\ IsFiniteSet(seen') /\ seen' \subseteq Values
        /\ Cardinality(seen') = IF fp \in seen THEN Cardinality(seen) ELSE Cardinality(seen) + 1
    BY <1>1, <1>5, <2>1, FS_AddElement
  <2>3. /\ pending' = IF pending + 1 >= CommitInterval THEN 0 ELSE pending + 1
        /\ onDisk' = IF pending + 1 >= CommitInterval THEN Cardinality(seen') ELSE onDisk
        /\ verdict' \in {"new", "duplicate", "raised"}
    <3>1. pending' = IF pending + 1 >= CommitInterval THEN 0 ELSE pending + 1
      BY <1>5 DEF Tracker!AddFingerprint
    <3>2. onDisk' = IF pending + 1 >= CommitInterval THEN Cardinality(seen') ELSE onDisk
      BY <1>5, SameCardinality DEF Tracker!AddFingerprint
    <3>3. verdict' \in {"new", "duplicate", "raised"}
      BY <1>5, Zenon DEF Tracker!AddFingerprint
    <3> QED
      BY <3>1, <3>2, <3>3
  <2>4. verdict' # "raised" =>
           /\ fp \notin seen => Cardinality(seen') <= MaxUniqueKeys
           /\ pending + 1 >= CommitInterval => onDisk' <= MaxTempKeys
    <3>1. verdict' = IF \/ pending + 1 >= CommitInterval
                           /\ (Tracker!TooManyKeys(seen') \/ Tracker!TooLarge(onDisk'))
                        \/ fp \notin seen /\ Tracker!TooManyKeys(seen')
                     THEN "raised" ELSE IF fp \in seen THEN "duplicate" ELSE "new"
      BY <1>5, Zenon DEF Tracker!AddFingerprint
    <3>2. fp \notin seen /\ Tracker!TooManyKeys(seen') => verdict' = "raised"
      BY <3>1
    <3>3. pending + 1 >= CommitInterval /\ Tracker!TooLarge(onDisk') => verdict' = "raised"
      BY <3>1
    <3>4. Cardinality(seen') \in Nat /\ onDisk' \in Nat
      BY <1>1, <1>2, <2>2, <2>3
    <3> QED
      BY <3>2, <3>3, <3>4, TrackerConstants, SameCardinality
      DEF Tracker!TooManyKeys, Tracker!TooLarge
  <2>5. Cardinality(seen') \in Nat /\ Cardinality(seen') <= Cardinality(seen) + 1
    BY <1>2, <2>2
  <2>6. onDisk' \in Nat /\ pending' \in 0 .. CommitInterval - 1
    BY <1>1, <2>3, <2>5, TrackerConstants
  <2>7. Cardinality(seen') <= onDisk' + pending'
    BY <1>1, <1>2, <2>2, <2>3, <2>5, TrackerConstants
  <2>8. Cardinality(seen') <= MaxTempKeys + CommitInterval /\ onDisk' <= MaxTempKeys + CommitInterval
    BY <1>1, <1>2, <2>3, <2>5, TrackerConstants
  <2>9. Tracker!TypeOK'
    BY <1>1, <2>1, <2>2, <2>3, <2>6 DEF Tracker!TypeOK
  <2>10. SpillIsBounded'
    BY <1>2, <2>5, <2>8, TrackerConstants, SameCardinality
    DEF SpillIsBounded, Tracker!SpillIsBounded, Tracker!uniqueCount
  <2> QED
    BY <1>2, <2>1, <2>2, <2>3, <2>4, <2>5, <2>7, <2>8, <2>9, <2>10,
       TrackerConstants
<1> QED
  BY <1>3, <1>4, <1>5 DEF Tracker!Add

(* close commits what is pending, and the file is gone.                    *)
LEMMA CloseIsBounded ==
  ASSUME FileInOrder, Tracker!Close
  PROVE  /\ Tracker!TypeOK' /\ store' = "closed" /\ ~file' /\ UNCHANGED seen
         /\ SpillIsBounded'
<1>1. /\ seen' = seen
      /\ onDisk' \in {onDisk, Cardinality(seen)} /\ pending' = 0
      /\ store' = "closed" /\ file' = FALSE
      /\ UNCHANGED <<duplicates, invalid, verdict>>
  BY SameCardinality DEF Tracker!Close, Tracker!RemoveFile
<1>2. Cardinality(seen) \in Nat /\ Cardinality(seen) <= MaxTempKeys + CommitInterval
  BY FS_CardinalityType DEF FileInOrder
<1>3. /\ seen \subseteq Values /\ onDisk \in Nat /\ duplicates \in Nat /\ invalid \in Nat
      /\ verdict \in {"none", "new", "duplicate", "invalid", "raised"}
  BY DEF FileInOrder, Tracker!TypeOK
<1>4. Tracker!TypeOK'
  <2>1. onDisk' = onDisk \/ onDisk' = Cardinality(seen)
    BY <1>1
  <2>2. onDisk' \in Nat
    BY <1>2, <1>3, <2>1
  <2>3. pending' \in 0 .. CommitInterval - 1
    BY <1>1, TrackerConstants
  <2> QED
    BY <1>1, <1>3, <2>2, <2>3 DEF Tracker!TypeOK
<1>5. SpillIsBounded'
  BY <1>1, <1>2 DEF FileInOrder, SpillIsBounded, Tracker!SpillIsBounded,
     Tracker!uniqueCount
<1> QED
  BY <1>1, <1>4, <1>5
-----------------------------------------------------------------------------
(* What the profile of a field is given.                                 *)
LEMMA FieldConstants ==
  /\ Null \in Values /\ Missing \notin Values /\ Threshold \in Nat
  /\ \A v \in Values : RegisterOf[v] \in Registers /\ RankOf[v] \in Nat \ {0}
  BY FieldAssumption DEF Field!ConstantsFit

(* One value more leaves every used register with a highest rank.          *)
LEMMA HighestStays ==
  ASSUME NEW vs \in SUBSET Values, HasHighest(vs), NEW v \in Values
  PROVE  HasHighest(vs \union {v})
<1> DEFINE all == vs \union {v}
<1> SUFFICES ASSUME NEW w \in all
             PROVE  \E m \in all : RegisterOf[m] = RegisterOf[w] /\ IsHighest(all, m)
  BY DEF HasHighest
<1>1. \A x \in all : RankOf[x] \in Nat
  BY FieldConstants
<1>2. CASE RegisterOf[w] # RegisterOf[v]
  <2>1. PICK m \in vs : RegisterOf[m] = RegisterOf[w] /\ IsHighest(vs, m)
    BY <1>2 DEF HasHighest
  <2>2. IsHighest(all, m)
    BY <1>2, <2>1 DEF IsHighest
  <2> QED
    BY <2>1, <2>2
<1>3. CASE /\ RegisterOf[w] = RegisterOf[v]
           /\ \E x \in vs : RegisterOf[x] = RegisterOf[v]
  <2>1. PICK m \in vs : RegisterOf[m] = RegisterOf[v] /\ IsHighest(vs, m)
    BY <1>3 DEF HasHighest
  <2>2. CASE RankOf[v] <= RankOf[m]
    BY <1>3, <2>1, <2>2 DEF IsHighest
  <2>3. CASE ~(RankOf[v] <= RankOf[m])
    <3>1. \A x \in vs : RegisterOf[x] = RegisterOf[v] => RankOf[x] <= RankOf[v]
      BY <1>1, <2>1, <2>3 DEF IsHighest
    <3>2. IsHighest(all, v)
      BY <1>1, <3>1 DEF IsHighest
    <3> QED
      BY <1>3, <3>2
  <2> QED
    BY <2>2, <2>3
<1>4. CASE /\ RegisterOf[w] = RegisterOf[v]
           /\ ~ \E x \in vs : RegisterOf[x] = RegisterOf[v]
  <2>1. IsHighest(all, v)
    BY <1>1, <1>4 DEF IsHighest
  <2> QED
    BY <1>4, <2>1
<1> QED
  BY <1>2, <1>3, <1>4

(* A register of the sketch of a set has the highest rank of its values.   *)
LEMMA SketchIsHighest ==
  ASSUME NEW vs \in SUBSET Values, HasHighest(vs), NEW i \in Registers
  PROVE  /\ (\A v \in vs : RegisterOf[v] # i) => Field!Sketch(vs)[i] = 0
         /\ \A m \in vs : RegisterOf[m] = i /\ IsHighest(vs, m) =>
               Field!Sketch(vs)[i] = RankOf[m]
<1>1. (\A v \in vs : RegisterOf[v] # i) => Field!Sketch(vs)[i] = 0
  BY DEF Field!Sketch
<1>2. ASSUME NEW m \in vs, RegisterOf[m] = i, IsHighest(vs, m)
      PROVE  Field!Sketch(vs)[i] = RankOf[m]
  <2> DEFINE ranks == {RankOf[v] : v \in {w \in vs : RegisterOf[w] = i}}
             Above(r) == \A v \in vs : RegisterOf[v] = i => RankOf[v] <= r
  <2>1. Field!Sketch(vs)[i] = CHOOSE r \in ranks : Above(r)
    BY <1>2 DEF Field!Sketch
  <2>2. RankOf[m] \in ranks /\ Above(RankOf[m])
    BY <1>2 DEF IsHighest
  <2>3. ASSUME NEW r \in ranks, Above(r)
        PROVE  r = RankOf[m]
    <3>1. PICK w \in vs : RegisterOf[w] = i /\ r = RankOf[w]
      OBVIOUS
    <3>2. RankOf[w] <= RankOf[m] /\ RankOf[m] <= RankOf[w]
      BY <1>2, <2>2, <2>3, <3>1
    <3> QED
      BY <3>1, <3>2, FieldConstants
  <2> HIDE DEF ranks, Above
  <2> QED
    BY <2>1, <2>2, <2>3
<1> QED
  BY <1>1, <1>2

(* The sketch of a set is a register file.                               *)
LEMMA SketchHasRanks ==
  ASSUME NEW vs \in SUBSET Values, HasHighest(vs)
  PROVE  Field!Sketch(vs) \in [Registers -> Nat]
<1>1. ASSUME NEW i \in Registers
      PROVE  Field!Sketch(vs)[i] \in Nat
  <2>1. CASE \A v \in vs : RegisterOf[v] # i
    BY <2>1, SketchIsHighest
  <2>2. CASE \E v \in vs : RegisterOf[v] = i
    <3>1. PICK m \in vs : RegisterOf[m] = i /\ IsHighest(vs, m)
      BY <2>2 DEF HasHighest
    <3> QED
      BY <3>1, SketchIsHighest, FieldConstants
  <2> QED
    BY <2>1, <2>2
<1>2. Field!Sketch(vs) = [i \in Registers |-> Field!Sketch(vs)[i]]
  BY DEF Field!Sketch
<1> QED
  BY <1>1, <1>2

(* Adding a digest to the sketch of a set gives that of the larger set.    *)
LEMMA SketchGrows ==
  ASSUME NEW vs \in SUBSET Values, HasHighest(vs), NEW v \in Values
  PROVE  Field!AddHash(Field!Sketch(vs), v) = Field!Sketch(vs \union {v})
<1> DEFINE all == vs \union {v}
           old == Field!Sketch(vs)
<1>1. HasHighest(all) /\ all \in SUBSET Values
  BY HighestStays
<1>2. old \in [Registers -> Nat] /\ Field!Sketch(all) \in [Registers -> Nat]
  BY <1>1, SketchHasRanks
<1>3. /\ Field!AddHash(old, v) =
            [old EXCEPT ![RegisterOf[v]] = IF RankOf[v] > @ THEN RankOf[v] ELSE @]
      /\ RegisterOf[v] \in Registers /\ RankOf[v] \in Nat \ {0}
  BY FieldConstants DEF Field!AddHash
<1>4. Field!AddHash(old, v) \in [Registers -> Nat]
  BY <1>2, <1>3
<1>5. ASSUME NEW i \in Registers
      PROVE  Field!AddHash(old, v)[i] = Field!Sketch(all)[i]
  <2>1. CASE i # RegisterOf[v]
    <3>1. Field!AddHash(old, v)[i] = old[i]
      BY <1>2, <1>3, <2>1
    <3>2. CASE \A w \in vs : RegisterOf[w] # i
      BY <1>1, <2>1, <3>1, <3>2, SketchIsHighest
    <3>3. CASE \E w \in vs : RegisterOf[w] = i
      <4>1. PICK m \in vs : RegisterOf[m] = i /\ IsHighest(vs, m)
        BY <3>3 DEF HasHighest
      <4>2. IsHighest(all, m)
        BY <2>1, <4>1 DEF IsHighest
      <4>3. old[i] = RankOf[m]
        BY <4>1, SketchIsHighest
      <4>4. Field!Sketch(all)[i] = RankOf[m]
        BY <1>1, <4>1, <4>2, SketchIsHighest
      <4> QED
        BY <3>1, <4>3, <4>4
    <3> QED
      BY <3>2, <3>3
  <2>2. CASE i = RegisterOf[v]
    <3>1. Field!AddHash(old, v)[i] = IF RankOf[v] > old[i] THEN RankOf[v] ELSE old[i]
      BY <1>2, <1>3, <2>2
    <3>2. CASE \A w \in vs : RegisterOf[w] # i
      <4>1. old[i] = 0
        BY <3>2, SketchIsHighest
      <4>2. IsHighest(all, v)
        BY <1>3, <2>2, <3>2 DEF IsHighest
      <4>3. Field!Sketch(all)[i] = RankOf[v]
        BY <1>1, <2>2, <4>2, SketchIsHighest
      <4> QED
        BY <1>3, <3>1, <4>1, <4>3
    <3>3. CASE \E w \in vs : RegisterOf[w] = i
      <4>1. PICK m \in vs : RegisterOf[m] = i /\ IsHighest(vs, m)
        BY <3>3 DEF HasHighest
      <4>2. old[i] = RankOf[m] /\ RankOf[m] \in Nat
        BY <4>1, SketchIsHighest, FieldConstants
      <4>3. CASE RankOf[v] > RankOf[m]
        <5>1. \A w \in vs : RegisterOf[w] = i => RankOf[w] <= RankOf[v]
          BY <1>3, <4>1, <4>2, <4>3, FieldConstants DEF IsHighest
        <5>2. IsHighest(all, v)
          BY <1>3, <2>2, <5>1 DEF IsHighest
        <5>3. Field!Sketch(all)[i] = RankOf[v]
          BY <1>1, <2>2, <5>2, SketchIsHighest
        <5> QED
          BY <3>1, <4>2, <4>3, <5>3
      <4>4. CASE ~(RankOf[v] > RankOf[m])
        <5>1. IsHighest(all, m)
          BY <1>3, <2>2, <4>1, <4>2, <4>4 DEF IsHighest
        <5>2. Field!Sketch(all)[i] = RankOf[m]
          BY <1>1, <4>1, <5>1, SketchIsHighest
        <5> QED
          BY <3>1, <4>2, <4>4, <5>2
      <4> QED
        BY <4>3, <4>4
    <3> QED
      BY <3>2, <3>3
  <2> QED
    BY <2>1, <2>2
<1> HIDE DEF all, old
<1>6. Field!AddHash(old, v) = Field!Sketch(all)
  BY <1>2, <1>4, <1>5
<1> QED
  BY <1>6 DEF all, old

(* Profile!Analyze, one record at a time: what is counted, and that the    *)
(* cardinality rests on all values on both sides of the threshold.         *)
LEMMA AnalyzeCounts ==
  ASSUME FieldInOrder, NEW v \in Values \union {Missing}, Field!Analyze(v)
  PROVE  /\ FieldInOrder'
         /\ analyzed' = analyzed + 1
         /\ types' = IF v \in {Missing, Null} THEN types ELSE types \union {v.type}
<1>1. /\ analyzed \in Nat /\ present \in Nat /\ nulls \in Nat
      /\ present <= analyzed /\ nulls <= present
      /\ exact \subseteq Values /\ profiled \subseteq Values /\ sketching \in BOOLEAN
      /\ registers \in [Registers -> Nat]
      /\ IsFiniteSet(profiled) /\ IsFiniteSet(types) /\ HasHighest(profiled)
  BY DEF FieldInOrder, Field!TypeOK
<1>2. IF sketching
      THEN Cardinality(profiled) > Threshold /\ registers = Field!Sketch(profiled)
      ELSE exact = profiled /\ Cardinality(profiled) <= Threshold
  BY SameCardinality DEF FieldInOrder, CardinalityCoversAll,
     Field!CardinalityCoversAll
<1>3. CASE v = Missing
  <2>1. /\ analyzed' = analyzed + 1
        /\ UNCHANGED <<present, nulls, types, exact, sketching, registers, profiled>>
    BY <1>3 DEF Field!Analyze
  <2>2. Field!TypeOK'
    BY <1>1, <2>1 DEF Field!TypeOK
  <2>3. CardinalityCoversAll'
    BY <1>2, <2>1, SameCardinality DEF CardinalityCoversAll,
       Field!CardinalityCoversAll
  <2> QED
    BY <1>1, <1>3, <2>1, <2>2, <2>3 DEF FieldInOrder
<1>4. CASE v # Missing
  <2>1. /\ analyzed' = analyzed + 1 /\ present' = present + 1
        /\ nulls' = IF v = Null THEN nulls + 1 ELSE nulls
        /\ types' = IF v = Null THEN types ELSE types \union {v.type}
        /\ profiled' = profiled \union {v}
        /\ v \in Values
    BY <1>4 DEF Field!Analyze
  <2>2. Field!AddValue(v)
    BY <1>4 DEF Field!Analyze
  <2>3. IsFiniteSet(types') /\ (types' = types \/ types' = types \union {v.type})
    BY <1>1, <2>1, FS_AddElement
  <2>4. /\ IsFiniteSet(profiled') /\ profiled' \subseteq Values
        /\ HasHighest(profiled')
        /\ Cardinality(profiled) \in Nat /\ Cardinality(profiled') \in Nat
        /\ Cardinality(profiled) <= Cardinality(profiled')
    <3>1. profiled' \subseteq Values /\ HasHighest(profiled')
      BY <1>1, <2>1, HighestStays
    <3>2. /\ IsFiniteSet(profiled') /\ Cardinality(profiled) \in Nat
          /\ Cardinality(profiled') \in {Cardinality(profiled), Cardinality(profiled) + 1}
      BY <1>1, <2>1, FS_AddElement, FS_CardinalityType
    <3> QED
      BY <3>1, <3>2
  <2>5. Field!Sketch(profiled') \in [Registers -> Nat]
    BY <2>4, SketchHasRanks
  <2>6. /\ sketching' \in BOOLEAN /\ exact' \subseteq Values
        /\ registers' \in [Registers -> Nat]
        /\ IF sketching'
           THEN Cardinality(profiled') > Threshold /\ registers' = Field!Sketch(profiled')
           ELSE exact' = profiled' /\ Cardinality(profiled') <= Threshold
    <3>1. CASE sketching
      <4>1. registers' = Field!AddHash(registers, v) /\ UNCHANGED <<exact, sketching>>
        BY <2>2, <3>1 DEF Field!AddValue
      <4>2. registers' = Field!Sketch(profiled')
        BY <1>1, <1>2, <2>1, <3>1, <4>1, SketchGrows
      <4> QED
        BY <1>1, <1>2, <2>4, <2>5, <3>1, <4>1, <4>2, FieldConstants
    <3>2. CASE ~sketching /\ Cardinality(profiled') <= Threshold
      <4>1. exact' = profiled' /\ UNCHANGED <<sketching, registers>>
        BY <1>2, <2>1, <2>2, <3>2, SameCardinality DEF Field!AddValue,
           Field!ExactWith
      <4> QED
        BY <1>1, <2>4, <3>2, <4>1
    <3>3. CASE ~sketching /\ ~(Cardinality(profiled') <= Threshold)
      <4>1. registers' = Field!Sketch(profiled') /\ sketching' = TRUE /\ exact' = {}
        BY <1>2, <2>1, <2>2, <3>3, SameCardinality DEF Field!AddValue,
           Field!ExactWith
      <4> QED
        BY <2>4, <2>5, <3>3, <4>1, FieldConstants
    <3> QED
      BY <1>1, <3>1, <3>2, <3>3
  <2>7. Field!TypeOK'
    BY <1>1, <2>1, <2>4, <2>6 DEF Field!TypeOK
  <2>8. CardinalityCoversAll'
    BY <2>6, SameCardinality DEF CardinalityCoversAll,
       Field!CardinalityCoversAll
  <2> QED
    BY <1>4, <2>1, <2>3, <2>4, <2>7, <2>8 DEF FieldInOrder
<1> QED
  BY <1>3, <1>4
-----------------------------------------------------------------------------
(* A step of the call sends to the origin of its target only, and follows  *)
(* no redirect to another one.                                             *)
LEMMA ProceedsAtHome ==
  ASSUME TargetIsHome, CredentialsStayHome, Client!Proceeds, feed' = feed
  PROVE  TargetIsHome' /\ CredentialsStayHome'
<1> USE DEF TargetIsHome, CredentialsStayHome, Home
<1>1. CASE Client!ApplyAuth
  BY <1>1 DEF Client!ApplyAuth
<1>2. CASE Client!ConnectFails
  BY <1>2 DEF Client!ConnectFails, Client!RetryIf
<1>3. CASE Client!AnswerFails
  BY <1>3 DEF Client!AnswerFails, Client!Sent, Client!RetryIf
<1>4. CASE Client!ErrorStatus \/ Client!Success
  BY <1>4 DEF Client!ErrorStatus, Client!Success, Client!Sent
<1>5. ASSUME NEW u \in Urls \union {NoUrl}, NEW status \in {"moved", "see other", "temporary"},
             Client!Redirect(status, u)
      PROVE  TargetIsHome' /\ CredentialsStayHome'
  BY <1>5 DEF Client!Redirect, Client!Sent, Client!MayFollow
<1>6. CASE Client!ReadChunk \/ Client!EndOfBody
  BY <1>6 DEF Client!ReadChunk, Client!EndOfBody
<1> QED
  BY <1>1, <1>2, <1>3, <1>4, <1>5, <1>6 DEF Client!Proceeds

(* Steps that leave the client alone leave its promises alone.           *)
LEMMA CallIsKept ==
  ASSUME CallInOrder, TargetIsHome, CredentialsStayHome, UNCHANGED clientVars, feed' = feed
  PROVE  CallInOrder' /\ TargetIsHome' /\ CredentialsStayHome'
<1> USE DEF clientVars
<1>1. Client!TypeOK'
  BY DEF CallInOrder, Client!TypeOK
<1>2. (PostActsOnce /\ SendsAreBounded /\ RotationTakesEffect)'
  BY DEF CallInOrder, PostActsOnce, Client!PostActsOnce, SendsAreBounded,
         Client!SendsAreBounded, Client!SendLimit, RotationTakesEffect,
         Client!RotationTakesEffect
<1> QED
  BY <1>1, <1>2 DEF CallInOrder, TargetIsHome, CredentialsStayHome, Home

(* The client, through every step of the stream.                         *)
LEMMA CallsPreserved ==
  ASSUME IInv, Next
  PROVE  (CallInOrder /\ TargetIsHome /\ CredentialsStayHome /\ CallsAreAwaited)'
<1> USE DEF IInv
<1>1. CASE Open \/ ExtractRecord \/ ProfileRecord \/ Finish \/ CloseGenerator \/ Abort
           \/ Leave \/ Crash
  <2>1. UNCHANGED clientVars /\ feed' = feed
    BY <1>1 DEF Open, ExtractRecord, ProfileRecord, Finish, CloseGenerator,
       Abort, Leave, Crash
  <2>2. stage' = "crashed" \/ stage \notin {"requesting", "crashed"}
    BY <1>1 DEF Open, ExtractRecord, ProfileRecord, Finish, CloseGenerator,
       Abort, Leave,
                Crash, Drawing
  <2>3. CallsAreAwaited'
    BY <2>1, <2>2 DEF CallsAreAwaited, clientVars
  <2> QED
    BY <2>1, <2>3, CallIsKept
<1>2. CASE RequestPage
  <2>1. feed' = feed /\ pages + 1 \in 1 .. Len(feed.urls)
    BY <1>2, FeedFacts DEF RequestPage, WantsPage, PlaceInOrder
  <2> DEFINE u == feed.urls[pages + 1]
  <2>2. u \in Urls /\ feed.method \in Client!Methods
    BY <2>1, FeedFacts
  <2>3. CASE SameOrigin(u)
    <3>1. Client!Call(feed.method, u) /\ stage' = "requesting"
      BY <1>2, <2>3 DEF RequestPage
    <3>2. CallInOrder'
      BY <2>2, <3>1, CallBegins
    <3>3. target' = u /\ origins' = origins
      BY <3>1 DEF Client!Call
    <3> QED
      BY <2>1, <2>3, <3>1, <3>2, <3>3
      DEF TargetIsHome, CredentialsStayHome, Home, CallsAreAwaited, SameOrigin
  <2>4. CASE ~SameOrigin(u)
    <3>1. UNCHANGED clientVars /\ stage \in {"drawing", "yielded"}
      BY <1>2, <2>4 DEF RequestPage, WantsPage, Drawing
    <3>2. CallsAreAwaited'
      BY <3>1 DEF CallsAreAwaited, clientVars
    <3> QED
      BY <2>1, <3>1, <3>2, CallIsKept
  <2> QED
    BY <2>3, <2>4
<1>3. CASE Transfer
  <2>1. feed' = feed /\ stage = "requesting" /\ stage' = stage /\ Client!Proceeds
    BY <1>3 DEF Transfer, streamVars
  <2> QED
    BY <2>1, CallProceeds, ProceedsAtHome DEF CallsAreAwaited
<1>4. CASE ReceivePage
  <2>1. feed' = feed /\ Client!Return /\ phase' = "idle" /\ origins' = origins
    BY <1>4 DEF ReceivePage, Client!Return
  <2> QED
    BY <2>1, CallReturns DEF TargetIsHome, CredentialsStayHome, Home,
       CallsAreAwaited
<1>5. CASE RotateSecret
  <2>1. /\ Client!Rotates
        /\ UNCHANGED <<feed, stage, phase, target, origins>>
    BY <1>5 DEF RotateSecret, streamVars, Client!Rotates, Client!Rotate,
       Client!RemoveSecret,
                Client!callVars
  <2> QED
    BY <2>1, SecretRotates DEF TargetIsHome, CredentialsStayHome, Home,
       CallsAreAwaited
<1> QED
  BY <1>1, <1>2, <1>3, <1>4, <1>5 DEF Next, Works
-----------------------------------------------------------------------------
(* Steps that leave the file alone leave its limits alone.               *)
LEMMA FileIsKept ==
  ASSUME FileInOrder, UNCHANGED trackerVars
  PROVE  /\ Tracker!TypeOK' /\ IsFiniteSet(seen') /\ SpillIsBounded'
         /\ Cardinality(seen') <= MaxTempKeys + CommitInterval
         /\ UNCHANGED <<store, file, seen, onDisk, pending>>
<1> USE DEF trackerVars
<1>1. Tracker!TypeOK'
  BY DEF FileInOrder, Tracker!TypeOK
<1>2. SpillIsBounded'
  BY DEF FileInOrder, SpillIsBounded, Tracker!SpillIsBounded,
     Tracker!uniqueCount
<1> QED
  BY <1>1, <1>2 DEF FileInOrder

(* The temporary file, through every step of the stream.                 *)
LEMMA FilePreserved ==
  ASSUME IInv, Next
  PROVE  FileInOrder'
<1> USE DEF IInv, Well, Looping, Over
<1>1. CASE Open
  <2>1. stage = "new" /\ stage' \in {"drawing", "raised"} /\ store = "none" /\ pending = 0
    BY <1>1 DEF Open, FileInOrder
  <2>2. /\ UNCHANGED <<seen, onDisk, duplicates, invalid, pending>>
        /\ \/ store' = "open" /\ file' = TRUE /\ verdict' = verdict
           \/ store' = "closed" /\ file' = FALSE /\ verdict' = "raised" /\ stage' = "raised"
    BY <1>1 DEF Open, Tracker!Create, Tracker!CreateFails
  <2>3. (stage' = "drawing" => store' = "open") /\ (stage' = "raised" => file' = FALSE)
    BY <1>1 DEF Open, Tracker!Create, Tracker!CreateFails
  <2>4. Tracker!TypeOK'
    BY <2>2 DEF FileInOrder, Tracker!TypeOK
  <2>5. SpillIsBounded'
    BY <2>2 DEF FileInOrder, SpillIsBounded, Tracker!SpillIsBounded,
       Tracker!uniqueCount
  <2> QED
    BY <2>1, <2>2, <2>3, <2>4, <2>5 DEF FileInOrder, NoFileLeftBehind
<1>2. CASE RequestPage \/ Transfer \/ ReceivePage \/ Finish \/ CloseGenerator \/ Abort
           \/ Crash \/ RotateSecret
  <2>1. UNCHANGED trackerVars
    BY <1>2 DEF RequestPage, Transfer, ReceivePage, Finish, CloseGenerator,
       Abort, Crash,
                RotateSecret
  <2>2. \/ stage' = stage \/ stage' = "crashed"
        \/ stage = "new" /\ stage' = "closed"
        \/ /\ stage \in {"drawing", "yielded", "requesting"}
           /\ stage' \in {"drawing", "requesting", "raising", "finishing", "closing"}
    BY <1>2 DEF RequestPage, Transfer, ReceivePage, Finish, CloseGenerator,
       Abort, Crash,
                RotateSecret, WantsPage, Drawing, streamVars
  <2>3. NoFileLeftBehind'
    BY <2>1, <2>2, FileIsKept DEF FileInOrder, NoFileLeftBehind
  <2>4. /\ stage' = "new" => store' = "none" /\ ~file' /\ pending' = 0
        /\ stage' \in (Well \ {"exhausted"}) \union {"raising"} => store' = "open"
        /\ stage' \in Looping \union {"new"} =>
              /\ Cardinality(seen') <= onDisk' + pending'
              /\ Cardinality(seen') <= MaxUniqueKeys
              /\ onDisk' <= MaxTempKeys
    BY <2>1, <2>2, FileIsKept DEF FileInOrder
  <2> QED
    BY <2>1, <2>3, <2>4, FileIsKept DEF FileInOrder
<1>3. CASE ExtractRecord \/ ProfileRecord
  <2>1. /\ stage \in Looping /\ Adds(feed.records[drawn + 1])
        /\ stage' \in {"raising", "yielded", "drawing"}
        /\ stage' # "raising" <=> verdict' # "raised"
    BY <1>3 DEF ExtractRecord, ProfileRecord, Drawing, Kept
  <2>2. drawn + 1 \in 1 .. Len(feed.records)
    BY <1>3, FeedFacts DEF ExtractRecord, ProfileRecord, More, PlaceInOrder
  <2> DEFINE fp == KeyOf(feed.kind, feed.records[drawn + 1])
  <2>3. fp \in Values \union {Invalid}
    BY <2>2, FeedFacts, KeysAreValues
  <2>4. (Tracker!Add(fp, Strict) \/ Tracker!AddFails) /\ Strict \in BOOLEAN
    BY <2>1 DEF Adds, Strict
  <2> HIDE DEF fp
  <2>5. /\ Tracker!TypeOK' /\ IsFiniteSet(seen') /\ UNCHANGED <<store, file>>
        /\ SpillIsBounded'
        /\ Cardinality(seen') <= MaxTempKeys + CommitInterval
        /\ verdict' # "raised" =>
              /\ Cardinality(seen') <= onDisk' + pending'
              /\ Cardinality(seen') <= MaxUniqueKeys
              /\ onDisk' <= MaxTempKeys
    BY <2>1, <2>3, <2>4, AddIsBounded
  <2>6. store' = "open"
    BY <2>1, <2>5 DEF FileInOrder
  <2> QED
    BY <2>1, <2>5, <2>6 DEF FileInOrder, NoFileLeftBehind
<1>4. CASE Leave
  <2>1. Tracker!Close /\ stage' \in {"exhausted", "raised", "closed"}
    BY <1>4 DEF Leave
  <2>2. /\ Tracker!TypeOK' /\ store' = "closed" /\ ~file' /\ UNCHANGED seen
        /\ SpillIsBounded'
    BY <2>1, CloseIsBounded
  <2> QED
    BY <2>1, <2>2 DEF FileInOrder, NoFileLeftBehind
<1> QED
  BY <1>1, <1>2, <1>3, <1>4 DEF Next, Works
-----------------------------------------------------------------------------
(* Steps that analyze nothing leave the profile alone.                   *)
LEMMA FieldIsKept ==
  ASSUME FieldInOrder, UNCHANGED fieldVars
  PROVE  FieldInOrder'
<1> USE DEF fieldVars
<1>1. Field!TypeOK'
  BY DEF FieldInOrder, Field!TypeOK
<1>2. CardinalityCoversAll'
  BY SameCardinality DEF FieldInOrder, CardinalityCoversAll,
     Field!CardinalityCoversAll
<1> QED
  BY <1>1, <1>2 DEF FieldInOrder, HasHighest, IsHighest

(* The profile, through every step of the stream.                        *)
LEMMA FieldPreserved ==
  ASSUME IInv, Next
  PROVE  FieldInOrder'
<1> USE DEF IInv
<1>1. CASE UNCHANGED fieldVars
  BY <1>1, FieldIsKept
<1>2. CASE ProfileRecord /\ ~ UNCHANGED fieldVars
  <2>1. drawn' = drawn + 1 /\ Field!Analyze(feed.records[drawn'])
    BY <1>2 DEF ProfileRecord
  <2>2. drawn + 1 \in 1 .. Len(feed.records)
    BY <1>2, FeedFacts DEF ProfileRecord, More, PlaceInOrder
  <2> QED
    BY <2>1, <2>2, FeedFacts, AnalyzeCounts
<1>3. ProfileRecord \/ UNCHANGED fieldVars
  BY DEF Next, Works, Open, RequestPage, Transfer, ReceivePage, ExtractRecord,
     Finish, Leave,
         CloseGenerator, Abort, Crash, RotateSecret
<1> QED
  BY <1>1, <1>2, <1>3

(* The place among pages and records, through every step of the stream.  *)
LEMMA PlacePreserved ==
  ASSUME IInv, Next
  PROVE  PlaceInOrder'
<1> USE DEF IInv
<1>1. feed' = feed /\ aborted' \in BOOLEAN
  BY DEF Next, Works, Open, RequestPage, Transfer, ReceivePage, ExtractRecord,
     ProfileRecord,
         Finish, Leave, CloseGenerator, Abort, Crash, RotateSecret, streamVars, PlaceInOrder
<1>2. /\ feed \in Feeds /\ Len(feed.urls) \in Nat /\ Len(feed.records) \in Nat
      /\ pages \in 0 .. Len(feed.urls) /\ drawn \in 0 .. Len(feed.records)
      /\ Available \in 0 .. Len(feed.records)
      /\ pages = Len(feed.urls) => Available = Len(feed.records)
  BY FeedFacts DEF PlaceInOrder
<1>3. CASE Open \/ CloseGenerator \/ Crash
  BY <1>1, <1>2, <1>3 DEF Open, CloseGenerator, Crash, PlaceInOrder, Well, Over
<1>4. CASE Transfer \/ RotateSecret
  BY <1>4 DEF Transfer, RotateSecret, streamVars, fieldVars, PlaceInOrder,
     Sampled
<1>5. CASE RequestPage
  <2>1. /\ UNCHANGED <<pages, drawn, aborted>> /\ pages < Len(feed.urls)
        /\ stage' \in {"requesting", "raising"}
    BY <1>5 DEF RequestPage, WantsPage
  <2> QED
    BY <1>1, <1>2, <2>1 DEF PlaceInOrder, Well, Over
<1>6. CASE ReceivePage
  <2>1. /\ UNCHANGED <<drawn, aborted>> /\ stage = "requesting"
        /\ pages' \in {pages, pages + 1} /\ stage' \in {"drawing", "raising"}
    BY <1>6 DEF ReceivePage
  <2>2. pages < Len(feed.urls)
    BY <2>1 DEF PlaceInOrder
  <2> QED
    BY <1>1, <1>2, <2>1, <2>2 DEF PlaceInOrder, Well, Over
<1>7. CASE ExtractRecord \/ ProfileRecord
  <2>1. /\ pages' = pages /\ aborted' = aborted /\ drawn' = drawn + 1 /\ drawn < Available
        /\ stage' \in {"raising", "yielded", "drawing"}
    BY <1>7 DEF ExtractRecord, ProfileRecord, More
  <2> QED
    BY <1>1, <1>2, <2>1 DEF PlaceInOrder, Well, Over
<1>8. CASE Finish
  <2>1. /\ UNCHANGED <<pages, drawn, aborted, analyzed>> /\ stage' = "finishing"
        /\ aborted \/ Sampled \/ (~(drawn < Available) /\ pages = Len(feed.urls))
    BY <1>8 DEF Finish, fieldVars, More
  <2>2. ~aborted /\ ~Sampled => drawn = Len(feed.records)
    BY <1>2, <2>1
  <2>3. Sampled' = Sampled
    BY <1>1, <2>1 DEF Sampled
  <2> QED
    BY <1>1, <1>2, <2>1, <2>2, <2>3 DEF PlaceInOrder, Well, Over
<1>9. CASE Abort
  BY <1>1, <1>2, <1>9 DEF Abort, PlaceInOrder, Well, Over
<1>10. CASE Leave
  <2>1. /\ UNCHANGED <<pages, drawn, aborted, analyzed>>
        /\ stage' \in {"exhausted", "raised", "closed"}
        /\ stage' = "exhausted" => stage = "finishing"
    BY <1>10 DEF Leave, fieldVars
  <2>2. Sampled' = Sampled
    BY <1>1, <2>1 DEF Sampled
  <2> QED
    BY <1>1, <1>2, <2>1, <2>2 DEF PlaceInOrder, Well, Over
<1> QED
  BY <1>3, <1>4, <1>5, <1>6, <1>7, <1>8, <1>9, <1>10 DEF Next, Works
-----------------------------------------------------------------------------
(* One record more among those whose keys are compared.                    *)
LEMMA FirstsGrow ==
  ASSUME NEW kind, NEW n \in Nat
  PROVE  Firsts(kind, n + 1) =
           IF /\ Key(kind, n + 1) # Invalid
              /\ \A j \in 1 .. n : Key(kind, j) # Key(kind, n + 1)
           THEN Firsts(kind, n) \union {n + 1} ELSE Firsts(kind, n)
<1>1. 1 .. n + 1 = (1 .. n) \union {n + 1} /\ (n + 1) - 1 = n
  OBVIOUS
<1> QED
  BY <1>1 DEF Firsts

(* The same for the records with a key, and for the keys.                *)
LEMMA KeyedGrows ==
  ASSUME NEW n \in Nat
  PROVE  /\ Keyed(n + 1) = IF Key(feed.kind, n + 1) # Invalid
                           THEN Keyed(n) \union {n + 1} ELSE Keyed(n)
         /\ Keys(n + 1) = IF Key(feed.kind, n + 1) # Invalid
                          THEN Keys(n) \union {Key(feed.kind, n + 1)} ELSE Keys(n)
<1>1. 1 .. n + 1 = (1 .. n) \union {n + 1}
  OBVIOUS
<1>2. Keyed(n + 1) = IF Key(feed.kind, n + 1) # Invalid
                     THEN Keyed(n) \union {n + 1} ELSE Keyed(n)
  BY <1>1 DEF Keyed
<1> QED
  BY <1>2 DEF Keys

(* Sets of positions are finite, and the next one is in none of them.    *)
LEMMA PositionsAreCounted ==
  ASSUME NEW kind, NEW n \in Nat
  PROVE  /\ IsFiniteSet(Keyed(n)) /\ IsFiniteSet(Firsts(kind, n))
         /\ Cardinality(Keyed(n)) \in Nat /\ Cardinality(Firsts(kind, n)) \in Nat
         /\ Keyed(n) \subseteq 1 .. n /\ Firsts(kind, n) \subseteq 1 .. n
         /\ n + 1 \notin Keyed(n) /\ n + 1 \notin Firsts(kind, n)
<1>1. Keyed(n) \subseteq 1 .. n /\ Firsts(kind, n) \subseteq 1 .. n
  BY DEF Keyed, Firsts
<1>2. IsFiniteSet(1 .. n)
  BY FS_Interval
<1>3. IsFiniteSet(Keyed(n)) /\ IsFiniteSet(Firsts(kind, n))
  BY <1>1, <1>2, FS_Subset
<1> QED
  BY <1>1, <1>3, FS_CardinalityType

(* The two kinds of streams agree on which records have a usable key.      *)
LEMMA KeyedIsValid ==
  ASSUME PlaceInOrder, NEW n \in 0 .. Len(feed.records)
  PROVE  Valid(n) = Keyed(n)
<1>1. ASSUME NEW i \in 1 .. n
      PROVE  Key("extract", i) = Invalid <=> Key(feed.kind, i) = Invalid
  <2>1. feed.records[i] \in Values \union {Missing}
    BY FeedFacts
  <2> QED
    BY <2>1, KeysAreValues DEF Key
<1> QED
  BY <1>1 DEF Valid, Keyed

(* The feed is fixed, so what is said of its records stays as it is.     *)
LEMMA SameFeed ==
  ASSUME feed' = feed
  PROVE  /\ Firsts("extract", drawn)' = Firsts("extract", drawn')
         /\ Firsts("profile", drawn)' = Firsts("profile", drawn')
         /\ Keyed(drawn)' = Keyed(drawn') /\ Keys(drawn)' = Keys(drawn')
  BY DEF Firsts, Key, Keyed, Keys

(* What add returns tells what it did.                                     *)
LEMMA AddTells ==
  ASSUME NEW fp, NEW strict \in BOOLEAN, Tracker!Add(fp, strict) \/ Tracker!AddFails,
         verdict' # "raised"
  PROVE  \/ /\ fp # Invalid /\ seen' = seen \union {fp} /\ invalid' = invalid
            /\ duplicates' = IF fp \in seen THEN duplicates + 1 ELSE duplicates
            /\ verdict' = IF fp \in seen THEN "duplicate" ELSE "new"
         \/ /\ fp = Invalid /\ ~strict /\ UNCHANGED <<seen, duplicates>>
            /\ invalid' = invalid + 1 /\ verdict' = "invalid"
<1>1. CASE fp # Invalid /\ Tracker!AddFingerprint(fp)
  <2>1. seen' = seen \union {fp} /\ invalid' = invalid
    BY <1>1 DEF Tracker!AddFingerprint
  <2>2. duplicates' = IF fp \in seen THEN duplicates + 1 ELSE duplicates
    BY <1>1 DEF Tracker!AddFingerprint
  <2>3. verdict' = IF fp \in seen THEN "duplicate" ELSE "new"
    <3>1. verdict' = "raised" \/ verdict' = IF fp \in seen THEN "duplicate" ELSE "new"
      BY <1>1, Zenon DEF Tracker!AddFingerprint
    <3> QED
      BY <3>1
  <2> QED
    BY <1>1, <2>1, <2>2, <2>3
<1>2. CASE fp = Invalid /\ Tracker!AddInvalid(strict)
  BY <1>2 DEF Tracker!AddInvalid, Tracker!Counted, Tracker!RefuseInvalid
<1>3. CASE Tracker!AddFails
  BY <1>3 DEF Tracker!AddFails
<1> QED
  BY <1>1, <1>2, <1>3 DEF Tracker!Add

(* A record is drawn: how it relates to those before it.                   *)
LEMMA RecordIsDrawn ==
  ASSUME IInv, ExtractRecord \/ ProfileRecord
  PROVE  /\ feed' = feed /\ drawn' = drawn + 1 /\ drawn \in Nat /\ aborted' = aborted
         /\ drawn + 1 \in 1 .. Len(feed.records)
         /\ stage \in Looping /\ stage' \in {"raising", "yielded", "drawing"}
         /\ stage' = "raising" <=> verdict' = "raised"
         /\ verdict' # "raised" =>
               LET key == Key(feed.kind, drawn + 1)
                   known == key \in Keys(drawn)
               IN  \/ /\ key # Invalid /\ seen' = seen \union {key} /\ invalid' = invalid
                      /\ duplicates' = IF known THEN duplicates + 1 ELSE duplicates
                      /\ verdict' = IF known THEN "duplicate" ELSE "new"
                   \/ /\ key = Invalid /\ feed.kind # "extract"
                      /\ UNCHANGED <<seen, duplicates>>
                      /\ invalid' = invalid + 1 /\ verdict' = "invalid"
<1> USE DEF IInv
<1>1. /\ feed' = feed /\ drawn' = drawn + 1 /\ aborted' = aborted
      /\ stage \in {"drawing", "yielded"}
      /\ stage' \in {"raising", "yielded", "drawing"}
      /\ stage' = "raising" <=> verdict' = "raised"
      /\ Adds(feed.records[drawn + 1])
  BY DEF ExtractRecord, ProfileRecord, Drawing, Kept
<1>2. drawn \in Nat /\ drawn + 1 \in 1 .. Len(feed.records)
  BY FeedFacts DEF ExtractRecord, ProfileRecord, More, PlaceInOrder
<1>3. seen = Keys(drawn)
  BY <1>1 DEF KeysInOrder, Well
<1>4. ASSUME verdict' # "raised"
      PROVE  LET key == Key(feed.kind, drawn + 1)
                 known == key \in Keys(drawn)
             IN  \/ /\ key # Invalid /\ seen' = seen \union {key} /\ invalid' = invalid
                    /\ duplicates' = IF known THEN duplicates + 1 ELSE duplicates
                    /\ verdict' = IF known THEN "duplicate" ELSE "new"
                 \/ /\ key = Invalid /\ feed.kind # "extract"
                    /\ UNCHANGED <<seen, duplicates>>
                    /\ invalid' = invalid + 1 /\ verdict' = "invalid"
  <2> DEFINE key == Key(feed.kind, drawn + 1)
  <2>1. Tracker!Add(key, Strict) \/ Tracker!AddFails
    BY <1>1 DEF Adds, Key
  <2>2. Strict \in BOOLEAN /\ (Strict <=> feed.kind = "extract")
    BY DEF Strict
  <2> HIDE DEF key
  <2>3. \/ /\ key # Invalid /\ seen' = seen \union {key} /\ invalid' = invalid
           /\ duplicates' = IF key \in seen THEN duplicates + 1 ELSE duplicates
           /\ verdict' = IF key \in seen THEN "duplicate" ELSE "new"
        \/ /\ key = Invalid /\ ~Strict /\ UNCHANGED <<seen, duplicates>>
           /\ invalid' = invalid + 1 /\ verdict' = "invalid"
    BY <1>4, <2>1, <2>2, AddTells
  <2> QED
    BY <1>3, <2>2, <2>3 DEF key
<1> QED
  BY <1>1, <1>2, <1>4 DEF Looping

(* The first with its key is the one whose key was not there before.       *)
LEMMA FirstIsNew ==
  ASSUME NEW n \in Nat, Key(feed.kind, n + 1) # Invalid
  PROVE  Firsts(feed.kind, n + 1) =
           IF Key(feed.kind, n + 1) \in Keys(n)
           THEN Firsts(feed.kind, n) ELSE Firsts(feed.kind, n) \union {n + 1}
<1>1. Key(feed.kind, n + 1) \in Keys(n) <=>
         \E j \in 1 .. n : Key(feed.kind, j) = Key(feed.kind, n + 1)
  BY DEF Keys, Keyed
<1> QED
  BY <1>1, FirstsGrow

(* iter_records draws a record: what was seen and emitted agree again.   *)
LEMMA ExtractKeys ==
  ASSUME IInv, ExtractRecord
  PROVE  KeysInOrder'
<1> USE DEF IInv
<1>1. /\ feed' = feed /\ drawn' = drawn + 1 /\ drawn \in Nat
      /\ stage \in Looping /\ stage' \in {"raising", "yielded", "drawing"}
      /\ stage' = "raising" <=> verdict' = "raised"
  BY RecordIsDrawn
<1>2. /\ feed.kind = "extract" /\ analyzed' = analyzed
      /\ emitted' = IF verdict' = "new" THEN emitted \union {drawn + 1} ELSE emitted
  BY <1>1 DEF ExtractRecord, fieldVars, Kept
<1>3. /\ seen = Keys(drawn) /\ Keyed(drawn) = 1 .. drawn
      /\ emitted = Firsts("extract", drawn) /\ analyzed = 0
  BY <1>1, <1>2 DEF KeysInOrder, Looping, Well
<1>4. CASE verdict' = "raised"
  <2>1. emitted' \subseteq Firsts("extract", drawn + 1)
    BY <1>1, <1>2, <1>3, <1>4, FirstsGrow
  <2>2. stage' = "raising" /\ Firsts("extract", drawn)' = Firsts("extract", drawn + 1)
    BY <1>1, <1>4, SameFeed
  <2> QED
    BY <1>1, <1>2, <1>3, <2>1, <2>2 DEF KeysInOrder, Well
<1>5. CASE verdict' # "raised"
  <2> DEFINE key == Key("extract", drawn + 1)
  <2>1. /\ key # Invalid /\ seen' = seen \union {key}
        /\ verdict' = IF key \in Keys(drawn) THEN "duplicate" ELSE "new"
    BY <1>2, <1>5, RecordIsDrawn
  <2>2. Keyed(drawn + 1) = 1 .. drawn + 1 /\ Keys(drawn + 1) = seen'
    <3>1. /\ Keyed(drawn + 1) = Keyed(drawn) \union {drawn + 1}
          /\ Keys(drawn + 1) = Keys(drawn) \union {key}
      BY <1>1, <1>2, <2>1, KeyedGrows
    <3>2. 1 .. drawn + 1 = (1 .. drawn) \union {drawn + 1}
      BY <1>1
    <3> QED
      BY <1>3, <2>1, <3>1, <3>2
  <2>3. emitted' = Firsts("extract", drawn + 1)
    BY <1>1, <1>2, <1>3, <2>1, FirstIsNew
  <2>4. /\ Firsts("extract", drawn)' = Firsts("extract", drawn + 1)
        /\ Keyed(drawn)' = Keyed(drawn + 1) /\ Keys(drawn)' = Keys(drawn + 1)
    BY <1>1, SameFeed
  <2> QED
    BY <1>1, <1>2, <1>3, <2>2, <2>3, <2>4 DEF KeysInOrder
<1> QED
  BY <1>4, <1>5

(* The types of the values, one record more.                               *)
TypesOf(n) == {feed.records[i].type : i \in Keyed(n)}

(* profile_records draws a record: the counters agree again.             *)
LEMMA ProfileKeys ==
  ASSUME IInv, ProfileRecord
  PROVE  KeysInOrder'
<1> USE DEF IInv
<1>1. /\ feed' = feed /\ drawn' = drawn + 1 /\ drawn \in Nat /\ aborted' = aborted
      /\ drawn + 1 \in 1 .. Len(feed.records)
      /\ stage \in Looping /\ stage' \in {"raising", "yielded", "drawing"}
      /\ stage' = "raising" <=> verdict' = "raised"
  BY RecordIsDrawn
<1>2. /\ feed.kind = "profile" /\ emitted' = emitted
      /\ verdict' # "raised" => Field!Analyze(feed.records[drawn + 1])
  BY <1>1 DEF ProfileRecord
<1>3. /\ seen = Keys(drawn) /\ ~aborted /\ emitted = {} /\ analyzed = drawn
      /\ invalid = drawn - Cardinality(Keyed(drawn))
      /\ duplicates = drawn - invalid - Cardinality(Firsts("profile", drawn))
      /\ types = TypesOf(drawn)
  BY <1>1, <1>2 DEF KeysInOrder, Looping, Well, TypesOf
<1>4. CASE verdict' = "raised"
  BY <1>1, <1>2, <1>3, <1>4 DEF KeysInOrder, Well
<1>5. CASE verdict' # "raised"
  <2> DEFINE key == Key("profile", drawn + 1)
             record == feed.records[drawn + 1]
  <2>1. \/ /\ key # Invalid /\ seen' = seen \union {key} /\ invalid' = invalid
           /\ duplicates' = IF key \in Keys(drawn) THEN duplicates + 1 ELSE duplicates
        \/ /\ key = Invalid /\ UNCHANGED <<seen, duplicates>>
           /\ invalid' = invalid + 1
    BY <1>2, <1>5, RecordIsDrawn
  <2>2. /\ record \in Values \union {Missing}
        /\ key = Invalid <=> record \in {Missing, Null}
    BY <1>1, <1>2, FeedFacts, KeysAreValues DEF Key
  <2>3. /\ analyzed' = drawn + 1
        /\ types' = IF key = Invalid THEN types ELSE types \union {record.type}
    BY <1>2, <1>3, <1>5, <2>2, AnalyzeCounts
  <2>4. /\ Cardinality(Keyed(drawn)) \in Nat /\ IsFiniteSet(Keyed(drawn))
        /\ drawn + 1 \notin Keyed(drawn)
        /\ Cardinality(Firsts("profile", drawn)) \in Nat /\ IsFiniteSet(Firsts("profile", drawn))
        /\ drawn + 1 \notin Firsts("profile", drawn)
    BY <1>1, PositionsAreCounted
  <2>5. /\ Cardinality(Keyed(drawn) \union {drawn + 1}) = Cardinality(Keyed(drawn)) + 1
        /\ Cardinality(Firsts("profile", drawn) \union {drawn + 1}) =
              Cardinality(Firsts("profile", drawn)) + 1
    BY <2>4, FS_AddElement
  <2>6. /\ Firsts("profile", drawn)' = Firsts("profile", drawn + 1)
        /\ Keyed(drawn)' = Keyed(drawn + 1) /\ Keys(drawn)' = Keys(drawn + 1)
        /\ Firsts("extract", drawn)' = Firsts("extract", drawn + 1)
    BY <1>1, SameFeed
  <2>7. {feed.records[i].type : i \in Keyed(drawn)}' = TypesOf(drawn + 1)
    BY <1>1 DEF TypesOf, Keyed, Key
  <2>8. CASE key # Invalid
    <3>1. /\ Keyed(drawn + 1) = Keyed(drawn) \union {drawn + 1}
          /\ Keys(drawn + 1) = Keys(drawn) \union {key}
      BY <1>1, <1>2, <2>8, KeyedGrows
    <3>2. Firsts("profile", drawn + 1) = IF key \in Keys(drawn) THEN Firsts("profile", drawn)
                                         ELSE Firsts("profile", drawn) \union {drawn + 1}
      BY <1>1, <1>2, <2>8, FirstIsNew
    <3>3. TypesOf(drawn + 1) = TypesOf(drawn) \union {record.type}
      BY <3>1 DEF TypesOf
    <3>4. invalid' = invalid /\ seen' = Keys(drawn + 1) /\ types' = TypesOf(drawn + 1)
      BY <1>3, <2>1, <2>3, <2>8, <3>1, <3>3
    <3>5. invalid' = (drawn + 1) - Cardinality(Keyed(drawn + 1))
      <4>1. invalid' = drawn - Cardinality(Keyed(drawn))
        BY <1>3, <3>4
      <4>2. Cardinality(Keyed(drawn + 1)) = Cardinality(Keyed(drawn)) + 1
        BY <2>5, <3>1
      <4> QED
        BY <1>1, <2>4, <4>1, <4>2
    <3>6. duplicates' = (drawn + 1) - invalid' - Cardinality(Firsts("profile", drawn + 1))
      <4> DEFINE firsts == Cardinality(Firsts("profile", drawn))
      <4>1. CASE key \in Keys(drawn)
        <5>1. duplicates' = (drawn - invalid - firsts) + 1
          BY <1>3, <2>1, <2>8, <4>1
        <5>2. Cardinality(Firsts("profile", drawn + 1)) = firsts
          BY <3>2, <4>1
        <5> QED
          BY <1>1, <1>3, <2>4, <3>4, <5>1, <5>2
      <4>2. CASE key \notin Keys(drawn)
        <5>1. duplicates' = drawn - invalid - firsts
          BY <1>3, <2>1, <2>8, <4>2
        <5>2. Cardinality(Firsts("profile", drawn + 1)) = firsts + 1
          BY <2>5, <3>2, <4>2
        <5> QED
          BY <1>1, <1>3, <2>4, <3>4, <5>1, <5>2
      <4> QED
        BY <4>1, <4>2
    <3> QED
      BY <1>1, <1>2, <1>3, <2>3, <2>6, <2>7, <3>4, <3>5, <3>6 DEF KeysInOrder
  <2>9. CASE key = Invalid
    <3>1. Keyed(drawn + 1) = Keyed(drawn) /\ Keys(drawn + 1) = Keys(drawn)
      BY <1>1, <1>2, <2>9, KeyedGrows
    <3>2. Firsts("profile", drawn + 1) = Firsts("profile", drawn)
      BY <1>1, <2>9, FirstsGrow
    <3>3. TypesOf(drawn + 1) = TypesOf(drawn)
      BY <3>1 DEF TypesOf
    <3>4. /\ invalid' = invalid + 1 /\ duplicates' = duplicates
          /\ seen' = Keys(drawn + 1) /\ types' = TypesOf(drawn + 1)
      BY <1>3, <2>1, <2>3, <2>9, <3>1, <3>3
    <3>5. invalid' = (drawn + 1) - Cardinality(Keyed(drawn + 1))
      <4>1. invalid' = (drawn - Cardinality(Keyed(drawn))) + 1
        BY <1>3, <3>4
      <4>2. Cardinality(Keyed(drawn + 1)) = Cardinality(Keyed(drawn))
        BY <3>1
      <4> QED
        BY <1>1, <2>4, <4>1, <4>2
    <3>6. duplicates' = (drawn + 1) - invalid' - Cardinality(Firsts("profile", drawn + 1))
      BY <1>1, <1>3, <2>4, <3>2, <3>4
    <3> QED
      BY <1>1, <1>2, <1>3, <2>3, <2>6, <2>7, <3>4, <3>5, <3>6 DEF KeysInOrder
  <2> QED
    BY <2>8, <2>9
<1> QED
  BY <1>4, <1>5

(* Keys and counters, through every step of the stream.                  *)
LEMMA KeysPreserved ==
  ASSUME IInv, Next
  PROVE  KeysInOrder'
<1> USE DEF IInv
<1>1. CASE ExtractRecord
  BY <1>1, ExtractKeys
<1>2. CASE ProfileRecord
  BY <1>2, ProfileKeys
<1>3. CASE ~ExtractRecord /\ ~ProfileRecord
  <2>1. /\ UNCHANGED <<feed, drawn, emitted>>
        /\ aborted' = aborted \/ feed.kind = "extract"
    BY <1>3 DEF Next, Works, Open, RequestPage, Transfer, ReceivePage, Finish,
       Leave,
                CloseGenerator, Abort, Crash, RotateSecret, streamVars
  <2>2. UNCHANGED <<seen, duplicates, invalid, analyzed, types>>
    BY <1>3 DEF Next, Works, Open, RequestPage, Transfer, ReceivePage, Finish,
       Leave,
                CloseGenerator, Abort, Crash, RotateSecret, trackerVars, fieldVars,
                Tracker!Create, Tracker!CreateFails, Tracker!Close
  <2>3. stage' \in Well \union {"new"} => stage \in Well \union {"new"}
    BY <1>3 DEF Next, Works, Open, RequestPage, Transfer, ReceivePage, Finish,
       Leave,
                CloseGenerator, Abort, Crash, RotateSecret, streamVars, Well, WantsPage, Drawing
  <2>4. /\ Firsts("extract", drawn)' = Firsts("extract", drawn)
        /\ Firsts("profile", drawn)' = Firsts("profile", drawn)
        /\ Keyed(drawn)' = Keyed(drawn) /\ Keys(drawn)' = Keys(drawn)
    BY <2>1, SameFeed
  <2> QED
    BY <2>1, <2>2, <2>3, <2>4 DEF KeysInOrder
<1> QED
  BY <1>1, <1>2, <1>3
-----------------------------------------------------------------------------
(* The invariant holds before the first next().                          *)
LEMMA InitEstablishes == Init => IInv
<1> SUFFICES ASSUME Init PROVE IInv
  OBVIOUS
<1> USE DEF Init
<1>1. CallInOrder /\ TargetIsHome /\ CredentialsStayHome /\ CallsAreAwaited
  BY CallInit DEF Client!Init, TargetIsHome, CredentialsStayHome,
     CallsAreAwaited
<1>2. FileInOrder
  <2>1. /\ store = "none" /\ file = FALSE /\ seen = {} /\ onDisk = 0
        /\ duplicates = 0 /\ invalid = 0 /\ pending = 0 /\ verdict = "none" /\ stage = "new"
    BY DEF Tracker!Init
  <2>2. IsFiniteSet({}) /\ Cardinality({}) = 0
    BY FS_EmptySet
  <2>3. Tracker!TypeOK
    <3>1. 0 \in 0 .. CommitInterval - 1
      BY TrackerConstants
    <3>2. seen \subseteq Values /\ onDisk \in Nat /\ duplicates \in Nat /\ invalid \in Nat
      BY <2>1
    <3> QED
      BY <2>1, <3>1, <3>2 DEF Tracker!TypeOK
  <2>4. SpillIsBounded
    BY <2>1, <2>2, TrackerConstants, SameCardinality
    DEF SpillIsBounded, Tracker!SpillIsBounded, Tracker!uniqueCount
  <2> QED
    BY <2>1, <2>2, <2>3, <2>4, TrackerConstants
    DEF FileInOrder, NoFileLeftBehind, Well, Over
<1>3. FieldInOrder
  <2>1. /\ analyzed = 0 /\ present = 0 /\ nulls = 0 /\ types = {} /\ exact = {}
        /\ sketching = FALSE /\ registers = [i \in Registers |-> 0] /\ profiled = {}
    BY DEF Field!Init, Field!NoRanks
  <2>2. IsFiniteSet({}) /\ Cardinality({}) = 0
    BY FS_EmptySet
  <2>3. Field!TypeOK
    <3>1. registers \in [Registers -> Nat]
      BY <2>1
    <3>2. analyzed \in Nat /\ present \in Nat /\ nulls \in Nat
      BY <2>1
    <3>3. present <= analyzed /\ nulls <= present
      BY <2>1
    <3>4. exact \subseteq Values /\ profiled \subseteq Values /\ sketching \in BOOLEAN
      BY <2>1
    <3> HIDE DEF Init
    <3> QED
      BY <3>1, <3>2, <3>3, <3>4 DEF Field!TypeOK
  <2>4. CardinalityCoversAll
    BY <2>1, <2>2, FieldConstants, SameCardinality
    DEF CardinalityCoversAll, Field!CardinalityCoversAll
  <2> QED
    BY <2>1, <2>2, <2>3, <2>4 DEF FieldInOrder, HasHighest
<1>4. PlaceInOrder
  <2>1. /\ feed.records \in Seq(Values \union {Missing}) /\ feed.urls \in Seq(Urls)
    BY FeedAssumption
  <2>2. Len(feed.records) \in Nat /\ Len(feed.urls) \in Nat
    BY <2>1
  <2>3. 0 \in 0 .. Len(feed.records) /\ 0 \in 0 .. Len(feed.urls)
    BY <2>2
  <2> QED
    BY <2>3 DEF PlaceInOrder
<1>5. KeysInOrder
  <2>1. Keyed(0) = {} /\ Keys(0) = {} /\ Firsts("extract", 0) = {} /\ Firsts("profile", 0) = {}
    BY DEF Keyed, Keys, Firsts
  <2>2. /\ drawn = 0 /\ emitted = {} /\ aborted = FALSE /\ stage = "new"
        /\ seen = {} /\ duplicates = 0 /\ invalid = 0 /\ analyzed = 0 /\ types = {}
    BY DEF Tracker!Init, Field!Init
  <2>3. Cardinality({}) = 0
    BY FS_EmptySet
  <2>4. {feed.records[i].type : i \in Keyed(drawn)} = {} /\ 1 .. drawn = {}
    BY <2>1, <2>2
  <2> QED
    BY <2>1, <2>2, <2>3, <2>4 DEF KeysInOrder
<1> QED
  BY <1>1, <1>2, <1>3, <1>4, <1>5 DEF IInv

(* Every step of the stream preserves the invariant.                     *)
LEMMA StepPreserves == IInv /\ [Next]_vars => IInv'
<1> SUFFICES ASSUME IInv, [Next]_vars PROVE IInv'
  OBVIOUS
<1>1. CASE Next
  BY <1>1, CallsPreserved, FilePreserved, FieldPreserved, PlacePreserved,
     KeysPreserved
  DEF IInv
<1>2. CASE UNCHANGED vars
  <2>1. UNCHANGED <<clientVars, trackerVars, fieldVars, streamVars>>
    BY <1>2 DEF vars
  <2>2. /\ UNCHANGED <<feed, stage, pages, drawn, emitted, aborted>>
        /\ UNCHANGED <<seen, duplicates, invalid, analyzed, types, phase>>
    BY <2>1 DEF streamVars, trackerVars, fieldVars, clientVars
  <2>3. (CallInOrder /\ TargetIsHome /\ CredentialsStayHome /\ CallsAreAwaited)'
    BY <2>1, <2>2, CallIsKept DEF IInv, CallsAreAwaited
  <2>4. FileInOrder'
    BY <2>1, <2>2, FileIsKept DEF IInv, FileInOrder, NoFileLeftBehind
  <2>5. FieldInOrder'
    BY <2>1, FieldIsKept DEF IInv
  <2>6. PlaceInOrder'
    BY <2>2 DEF IInv, PlaceInOrder, Sampled
  <2>7. KeysInOrder'
    BY <2>2, SameFeed DEF IInv, KeysInOrder
  <2> QED
    BY <2>3, <2>4, <2>5, <2>6, <2>7 DEF IInv
<1> QED
  BY <1>1, <1>2

(* The invariant of the stream: the client, the file, the field, the place *)
(* in the pages and the keys seen agree with one another at every step.    *)
THEOREM Invariance == Spec => []IInv
  BY InitEstablishes, StepPreserves, PTL DEF Spec

(* Every variable of the stream and its three parts stays in its type.     *)
THEOREM TypeCorrect == Spec => []TypeOK
<1>1. IInv => TypeOK
  <2> SUFFICES ASSUME IInv PROVE TypeOK
    OBVIOUS
  <2>1. emitted \subseteq 1 .. drawn
    BY DEF IInv, KeysInOrder, Firsts
  <2> QED
    BY <2>1
    DEF IInv, CallInOrder, FileInOrder, FieldInOrder, PlaceInOrder, TypeOK, Well, Over
<1> QED
  BY <1>1, Invariance, PTL

(* http/client.py: without retry_post, a POST takes effect at most once    *)
(* per call, whatever is lost, overloaded or redirected.                   *)
THEOREM PostsActOnce == Spec => []PostActsOnce
<1>1. IInv => PostActsOnce
  BY DEF IInv, CallInOrder
<1> QED
  BY <1>1, Invariance, PTL

(* http/client.py: the retries of a redirect's target are its own, and     *)
(* still a call is a bounded number of requests.                           *)
THEOREM RetriesAreBounded == Spec => []SendsAreBounded
<1>1. IInv => SendsAreBounded
  BY DEF IInv, CallInOrder
<1> QED
  BY <1>1, Invariance, PTL

(* security/secrets.py: each call reads the secret anew, so that none is   *)
(* signed with an older one than that of its beginning.                    *)
THEOREM RotationsAreSeen == Spec => []RotationTakesEffect
<1>1. IInv => RotationTakesEffect
  BY DEF IInv, CallInOrder
<1> QED
  BY <1>1, Invariance, PTL

(* No link and no redirect, however chosen, takes the credentials to       *)
(* another origin than that of the first page.                             *)
THEOREM CredentialsAreKept == Spec => []CredentialsStayHome
<1>1. IInv => CredentialsStayHome
  BY DEF IInv
<1> QED
  BY <1>1, Invariance, PTL

(* connectors/dedup.py: the temporary file is gone at every end of a       *)
(* stream but a crash of the process.                                      *)
THEOREM TemporaryFileIsRemoved == Spec => []NoFileLeftBehind
<1>1. IInv => NoFileLeftBehind
  BY DEF IInv, FileInOrder
<1> QED
  BY <1>1, Invariance, PTL

(* connectors/dedup.py: while it is there, it holds at most one key too    *)
(* many and outgrows its size by at most one commit interval.              *)
THEOREM TemporaryFileIsBounded == Spec => []SpillIsBounded
<1>1. IInv => SpillIsBounded
  BY DEF IInv, FileInOrder
<1> QED
  BY <1>1, Invariance, PTL

(* connectors/extraction.py: exactly the first record with each key gets   *)
(* to the consumer, whatever the pages and wherever the stream ends.       *)
THEOREM OnlyFirstsAreEmitted == Spec => []FirstOccurrenceWins
<1>1. IInv => FirstOccurrenceWins
  <2> SUFFICES ASSUME IInv, feed.kind = "extract"
               PROVE  /\ emitted \subseteq Firsts("extract", drawn)
                      /\ stage = "exhausted" /\ ~aborted =>
                            /\ Valid(drawn) = 1 .. Len(feed.records)
                            /\ emitted = Firsts("extract", drawn)
    BY DEF FirstOccurrenceWins
  <2>1. emitted \subseteq Firsts("extract", drawn) /\ analyzed = 0 /\ PlaceInOrder
    BY DEF IInv, KeysInOrder
  <2>2. ASSUME stage = "exhausted", ~aborted
        PROVE  Valid(drawn) = 1 .. Len(feed.records) /\ emitted = Firsts("extract", drawn)
    <3>1. Keyed(drawn) = 1 .. drawn /\ emitted = Firsts("extract", drawn)
      BY <2>2 DEF IInv, KeysInOrder, Well
    <3>2. ~Sampled
      BY <2>1, FeedFacts DEF Sampled
    <3>3. drawn = Len(feed.records)
      BY <2>1, <2>2, <3>2 DEF PlaceInOrder
    <3>4. Valid(drawn) = Keyed(drawn)
      BY <2>1, KeyedIsValid DEF PlaceInOrder
    <3> QED
      BY <3>1, <3>3, <3>4
  <2> QED
    BY <2>1, <2>2
<1> QED
  BY <1>1, Invariance, PTL

(* profiling/engine.py: exact or estimated, a cardinality rests on all the *)
(* values analyzed and on nothing else.                                    *)
THEOREM CardinalitiesCoverAll == Spec => []CardinalityCoversAll
<1>1. IInv => CardinalityCoversAll
  BY DEF IInv, FieldInOrder
<1> QED
  BY <1>1, Invariance, PTL

(* Values of one type that have one text are one value.                    *)
LEMMA OneTypeSameFirsts ==
  ASSUME PlaceInOrder, IsFiniteSet(TypesOf(drawn)), ~(Cardinality(TypesOf(drawn)) > 1)
  PROVE  Firsts("extract", drawn) = Firsts("profile", drawn)
<1>1. drawn \in 0 .. Len(feed.records) /\ Len(feed.records) \in Nat
  BY FeedFacts DEF PlaceInOrder
<1>2. \A i \in 1 .. drawn : feed.records[i] \in Values \union {Missing}
  BY <1>1, FeedFacts
<1>3. \A i \in 1 .. drawn : /\ Key("extract", i) = Invalid <=> feed.records[i] \in {Missing, Null}
                            /\ Key("profile", i) = Invalid <=> feed.records[i] \in {Missing, Null}
                            /\ i \in Keyed(drawn) <=> feed.records[i] \notin {Missing, Null}
  BY <1>2, KeysAreValues DEF Key, Keyed
<1>4. ASSUME NEW a \in TypesOf(drawn), NEW b \in TypesOf(drawn)
      PROVE  a = b
  <2> SUFFICES ASSUME a # b PROVE FALSE
    OBVIOUS
  <2>1. IsFiniteSet({a, b}) /\ Cardinality({a, b}) = 2
    <3>1. IsFiniteSet({a}) /\ Cardinality({a}) = 1
      BY FS_Singleton
    <3>2. {a, b} = {a} \union {b} /\ b \notin {a}
      OBVIOUS
    <3> QED
      BY <3>1, <3>2, FS_AddElement
  <2>2. Cardinality({a, b}) <= Cardinality(TypesOf(drawn))
    BY FS_Subset
  <2>3. Cardinality(TypesOf(drawn)) \in Nat
    BY FS_CardinalityType
  <2> QED
    BY <2>1, <2>2, <2>3
<1>5. ASSUME NEW i \in Keyed(drawn), NEW j \in Keyed(drawn)
      PROVE  Key("extract", i) = Key("extract", j) <=> Key("profile", i) = Key("profile", j)
  <2> DEFINE v == feed.records[i]
             w == feed.records[j]
  <2>1. /\ v \in Values \ {Missing, Null} /\ w \in Values \ {Missing, Null}
        /\ v.type \in TypesOf(drawn) /\ w.type \in TypesOf(drawn)
    BY <1>2, <1>3 DEF TypesOf, Keyed
  <2>2. v.type = w.type
    BY <1>4, <2>1
  <2>3. v = [type |-> v.type, text |-> v.text] /\ w = [type |-> w.type, text |-> w.text]
    BY <2>1, ValuesAssumption
  <2>4. /\ Key("extract", i) = Stringify(v) /\ Key("extract", j) = Stringify(w)
        /\ Key("profile", i) = v /\ Key("profile", j) = w
    BY <2>1 DEF Key, KeyOf
  <2> HIDE DEF v, w
  <2>5. Stringify(v) = [type |-> "string", text |-> v.text]
    BY <2>3 DEF Stringify
  <2>6. Stringify(w) = [type |-> "string", text |-> w.text]
    BY <2>3 DEF Stringify
  <2>7. Stringify(v) = Stringify(w) => v.text = w.text
    BY <2>5, <2>6
  <2> QED
    BY <2>2, <2>3, <2>4, <2>7
<1>6. ASSUME NEW i \in 1 .. drawn
      PROVE  i \in Firsts("extract", drawn) <=> i \in Firsts("profile", drawn)
  <2>1. CASE i \notin Keyed(drawn)
    BY <1>3, <2>1 DEF Firsts
  <2>2. CASE i \in Keyed(drawn)
    <3>1. \A j \in 1 .. i - 1 : Key("extract", j) = Key("extract", i) <=>
                                Key("profile", j) = Key("profile", i)
      <4> SUFFICES ASSUME NEW j \in 1 .. i - 1
                   PROVE  Key("extract", j) = Key("extract", i) <=>
                          Key("profile", j) = Key("profile", i)
        OBVIOUS
      <4>1. j \in 1 .. drawn
        BY <1>1
      <4>2. CASE j \in Keyed(drawn)
        BY <1>5, <2>2, <4>2
      <4>3. CASE j \notin Keyed(drawn)
        BY <1>3, <2>2, <4>1, <4>3
      <4> QED
        BY <4>2, <4>3
    <3>2. Key("extract", i) # Invalid /\ Key("profile", i) # Invalid
      BY <1>3, <2>2
    <3> QED
      BY <3>1, <3>2 DEF Firsts
  <2> QED
    BY <2>1, <2>2
<1> QED
  BY <1>6 DEF Firsts

(* docs/en/reference/python-api.md: a profile of the candidate key adds up *)
(* and tells how many records deduplication on that key would keep.        *)
THEOREM ProfilesForetellDedup == Spec => []ProfileForetellsDedup
<1>1. IInv => ProfileForetellsDedup
  <2> SUFFICES ASSUME IInv, feed.kind = "profile", stage = "exhausted"
               PROVE  /\ analyzed = IF feed.limit = 0 THEN Len(feed.records) ELSE drawn
                      /\ uniqueRows = Cardinality(Firsts("profile", drawn))
                      /\ invalid = drawn - Cardinality(Valid(drawn))
                      /\ \/ Cardinality(types) > 1
                         \/ uniqueRows = Cardinality(Firsts("extract", drawn))
    BY DEF ProfileForetellsDedup
  <2>1. /\ ~aborted /\ analyzed = drawn /\ invalid = drawn - Cardinality(Keyed(drawn))
        /\ duplicates = drawn - invalid - Cardinality(Firsts("profile", drawn))
        /\ types = TypesOf(drawn) /\ IsFiniteSet(types)
    BY DEF IInv, KeysInOrder, FieldInOrder, TypesOf, Well
  <2>2. PlaceInOrder /\ drawn \in 0 .. Len(feed.records) /\ Len(feed.records) \in Nat
    BY FeedFacts DEF IInv, PlaceInOrder
  <2>3. Cardinality(Keyed(drawn)) \in Nat /\ Cardinality(Firsts("profile", drawn)) \in Nat
    BY <2>2, PositionsAreCounted
  <2>4. uniqueRows = Cardinality(Firsts("profile", drawn))
    BY <2>1, <2>2, <2>3 DEF uniqueRows
  <2>5. feed.limit = 0 => drawn = Len(feed.records)
    BY <2>1, <2>2 DEF PlaceInOrder, Sampled
  <2>6. Valid(drawn) = Keyed(drawn)
    BY <2>2, KeyedIsValid
  <2>7. ~(Cardinality(types) > 1) => Firsts("extract", drawn) = Firsts("profile", drawn)
    BY <2>1, <2>2, OneTypeSameFirsts
  <2> QED
    BY <2>1, <2>4, <2>5, <2>6, <2>7
<1> QED
  BY <1>1, Invariance, PTL
=============================================================================
