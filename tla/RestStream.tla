----------------------------- MODULE RestStream -----------------------------
(***************************************************************************)
(* One stream of records of a connector, from the socket to its consumer:  *)
(*   extract  ExtractionSession.iter_records (connectors/extraction.py)    *)
(*            with deduplication                                           *)
(*   profile  APIConnector.profile, that is profile_records                *)
(*            (profiling/engine.py) with its tracker of duplicates         *)
(* Both draw pages through the loop of APIConnector._iter_pages, each page *)
(* by one call of HttpClient, and both own a temporary deduplication file. *)
(* What ends the page loop is the subject of Extraction; here a stream has *)
(* a fixed number of pages.                                                *)
(*                                                                         *)
(* A record is the value of its key field, which is also the field that is *)
(* profiled.  Extraction turns values into strings first                   *)
(* (connectors/normalize.py), profiling does not.                          *)
(***************************************************************************)
EXTENDS Integers, FiniteSets, Sequences

CONSTANTS
    Urls, SafeUrls, OriginOf, MaxRedirects, MaxRetries, RetryPost, MaxChunks,
    Rotations, NoUrl,
    MaxUniqueKeys, MaxTempKeys, CommitInterval, Invalid,
    Values, Null, Missing, Registers, RegisterOf, RankOf, Threshold,
    Feeds   \* the streams to consider

(* kind; the HTTP method; limit: records a sample may have, 0 for all;     *)
(* records: of all pages; ends: the last record of each page; urls: where  *)
(* each page is requested.                                                 *)
ASSUME FeedAssumption ==
    \A f \in Feeds :
        /\ f.kind \in {"extract", "profile"} /\ f.method \in {"GET", "POST"}
        /\ f.limit \in Nat
        /\ f.records \in Seq(Values \union {Missing})
        /\ f.urls \in Seq(Urls) /\ Len(f.urls) = Len(f.ends)
        /\ f.ends \in Seq(0 .. Len(f.records))
        /\ f.ends # <<>> /\ f.ends[Len(f.ends)] = Len(f.records)

VARIABLES
    phase, method, target, redirects, retries, signed, held,
    secret, readable, since, sends, acted, origins,
    store, file, seen, onDisk, duplicates, invalid, pending, verdict,
    analyzed, present, nulls, types, exact, sketching, registers, profiled,
    feed,     \* the stream of this behaviour, fixed at the start
    stage,    \* where the generator stands, or how it ended
    pages,    \* pages_requested
    drawn,    \* records taken out of pages
    emitted,  \* positions of the records handed to the consumer
    aborted   \* ExtractionSession._aborted

Client == INSTANCE HttpClient
Tracker == INSTANCE Dedup WITH Fingerprints <- Values
Field == INSTANCE Profile

ASSUME ClientAssumption == Client!ConstantsFit
ASSUME TrackerAssumption == Tracker!ConstantsFit
ASSUME FieldAssumption == Field!ConstantsFit

clientVars == <<phase, method, target, redirects, retries, signed, held,
                secret, readable, since, sends, acted, origins>>
trackerVars == <<store, file, seen, onDisk, duplicates, invalid, pending, verdict>>
fieldVars == <<analyzed, present, nulls, types, exact, sketching, registers, profiled>>
streamVars == <<feed, stage, pages, drawn, emitted, aborted>>
vars == <<clientVars, trackerVars, fieldVars, streamVars>>

Init ==
    /\ Client!Init /\ Tracker!Init /\ Field!Init
    /\ feed \in Feeds
    /\ stage = "new" /\ pages = 0 /\ drawn = 0 /\ emitted = {}
    /\ aborted = FALSE

(* connectors/normalize.py: every value but null becomes its text.         *)
Stringify(v) == [v EXCEPT !.type = "string"]

(* A value has a type and a text, and its text is a value as well.         *)
ASSUME ValuesAssumption ==
    \A v \in Values : /\ v = [type |-> v.type, text |-> v.text]
                      /\ v # Null => Stringify(v) \in Values

(* key_fingerprint of record i, as the stream sees it.                     *)
KeyOf(kind, v) ==
    IF v = Missing \/ v = Null THEN Invalid
    ELSE IF kind = "extract" THEN Stringify(v) ELSE v

Strict == feed.kind = "extract"
-----------------------------------------------------------------------------
(* The first next(): the deduplicator is made before the first request.    *)
Open ==
    /\ stage = "new"
    /\ \/ Tracker!Create /\ stage' = "drawing"
       \/ Tracker!CreateFails /\ stage' = "raised"
    /\ UNCHANGED <<clientVars, fieldVars, feed, pages, drawn, emitted, aborted>>

Available == IF pages = 0 THEN 0 ELSE feed.ends[pages]
Sampled == feed.limit > 0 /\ analyzed = feed.limit
Drawing == stage \in {"drawing", "yielded"}
More == drawn < Available
WantsPage == Drawing /\ ~aborted /\ ~Sampled /\ ~More /\ pages < Len(feed.urls)

(* The next page is requested, if it is of the origin of the first one.    *)
EveryOrigin(u) == TRUE
SameOrigin(u) == OriginOf[u] = OriginOf[feed.urls[1]]

RequestPage ==
    /\ WantsPage
    /\ IF SameOrigin(feed.urls[pages + 1])
       THEN /\ Client!Call(feed.method, feed.urls[pages + 1])
            /\ stage' = "requesting"
       ELSE stage' = "raising" /\ UNCHANGED clientVars
    /\ UNCHANGED <<trackerVars, fieldVars, feed, pages, drawn, emitted, aborted>>

Transfer ==
    /\ stage = "requesting"
    /\ Client!Proceeds
    /\ UNCHANGED <<trackerVars, fieldVars, streamVars>>

(* The answer is a page, or it cannot be parsed, or request raised.        *)
ReceivePage ==
    /\ stage = "requesting"
    /\ Client!Return
    /\ \/ /\ phase = "returned"
          /\ pages' = pages + 1
          /\ stage' = "drawing"
       \/ /\ stage' = "raising"
          /\ UNCHANGED pages
    /\ UNCHANGED <<trackerVars, fieldVars, feed, drawn, emitted, aborted>>
-----------------------------------------------------------------------------
(* add returns True, False or None, or raises.                             *)
Adds(v) ==
    \/ Tracker!Add(KeyOf(feed.kind, v), Strict)
    \/ Tracker!AddFails

(* iter_records: duplicates are dropped, what remains is yielded.          *)
KeepDuplicate == {"new", "duplicate"}
Kept == {"new"}

ExtractRecord ==
    /\ feed.kind = "extract" /\ Drawing /\ ~aborted /\ More
    /\ Adds(feed.records[drawn + 1])
    /\ drawn' = drawn + 1
    /\ emitted' = IF verdict' \in Kept THEN emitted \union {drawn'} ELSE emitted
    /\ stage' = CASE verdict' = "raised" -> "raising"
                  [] verdict' \in Kept -> "yielded"
                  [] OTHER -> "drawing"
    /\ UNCHANGED <<clientVars, fieldVars, feed, pages, aborted>>

(* profile_records: every record counts, whatever the tracker says of it.  *)
ProfileRecord ==
    /\ feed.kind = "profile" /\ Drawing /\ More /\ ~Sampled
    /\ Adds(feed.records[drawn + 1])
    /\ drawn' = drawn + 1
    /\ IF verdict' = "raised"
       THEN stage' = "raising" /\ UNCHANGED fieldVars
       ELSE stage' = "drawing" /\ Field!Analyze(feed.records[drawn'])
    /\ UNCHANGED <<clientVars, feed, pages, emitted, aborted>>

(* The loop over the records ends: they are used up, a sample is complete, *)
(* or abort() has closed the page loop under the generator.                *)
Finish ==
    /\ Drawing
    /\ aborted \/ Sampled \/ (~More /\ pages = Len(feed.urls))
    /\ stage' = "finishing"
    /\ UNCHANGED <<clientVars, trackerVars, fieldVars,
                   feed, pages, drawn, emitted, aborted>>

(* The consumer of an extraction may close the generator or abort the      *)
(* session while it is suspended, or never draw from it.                   *)
CloseGenerator ==
    /\ stage = "yielded"
    /\ stage' = "closing"
    /\ UNCHANGED <<clientVars, trackerVars, fieldVars,
                   feed, pages, drawn, emitted, aborted>>

Abort ==
    /\ feed.kind = "extract" /\ stage \in {"new", "yielded"} /\ ~aborted
    /\ aborted' = TRUE
    /\ stage' = IF stage = "new" THEN "closed" ELSE stage
    /\ UNCHANGED <<clientVars, trackerVars, fieldVars,
                   feed, pages, drawn, emitted>>

(* finally: the deduplicator is closed however the generator ends; closing *)
(* may raise.                                                              *)
Leave ==
    /\ Tracker!Close
    /\ \/ stage = "finishing" /\ stage' \in {"exhausted", "raised"}
       \/ stage = "raising" /\ stage' = "raised"
       \/ stage = "closing" /\ stage' \in {"closed", "raised"}
    /\ UNCHANGED <<clientVars, fieldVars, feed, pages, drawn, emitted, aborted>>

Over == {"exhausted", "raised", "closed", "crashed"}

Crash ==
    /\ stage \notin Over
    /\ stage' = "crashed"
    /\ UNCHANGED <<clientVars, trackerVars, fieldVars,
                   feed, pages, drawn, emitted, aborted>>

RotateSecret ==
    /\ stage \notin Over
    /\ Client!Rotates
    /\ UNCHANGED <<trackerVars, fieldVars, streamVars>>

(* What a call of next() goes through until it is back at its consumer.    *)
Works ==
    \/ RequestPage \/ Transfer \/ ReceivePage
    \/ ExtractRecord \/ ProfileRecord \/ Finish \/ Leave

Next ==
    \/ Open \/ Works \/ CloseGenerator \/ Abort \/ Crash \/ RotateSecret

Spec == Init /\ [][Next]_vars

(* A thread that was called runs on; sockets have timeouts.                *)
FairSpec == Spec /\ WF_vars(stage # "yielded" /\ Works)
-----------------------------------------------------------------------------
TypeOK ==
    /\ Client!TypeOK /\ Tracker!TypeOK /\ Field!TypeOK
    /\ feed \in Feeds
    /\ stage \in {"new", "drawing", "requesting", "yielded",
                  "finishing", "raising", "closing"} \union Over
    /\ pages \in 0 .. Len(feed.urls)
    /\ drawn \in 0 .. Len(feed.records)
    /\ emitted \subseteq 1 .. drawn
    /\ aborted \in BOOLEAN

(* The records among the first n that are the first with their key.        *)
Key(kind, i) == KeyOf(kind, feed.records[i])
Valid(n) == {i \in 1 .. n : Key("extract", i) # Invalid}
Firsts(kind, n) ==
    {i \in 1 .. n : /\ Key(kind, i) # Invalid
                    /\ \A j \in 1 .. i - 1 : Key(kind, j) # Key(kind, i)}

(* README.md:98: the first occurrence of a key wins, later ones never      *)
(* reach the consumer, and a stream that ends regularly has been through   *)
(* every record of every page, all of them with a valid key.               *)
FirstOccurrenceWins ==
    feed.kind = "extract" =>
        /\ emitted \subseteq Firsts("extract", drawn)
        /\ stage = "exhausted" /\ ~aborted =>
              /\ Valid(drawn) = 1 .. Len(feed.records)
              /\ emitted = Firsts("extract", drawn)

(* connectors/extraction.py:125-127, profiling/engine.py:285-287: however  *)
(* a stream ends, its temporary file is gone, unless the process died.     *)
NoFileLeftBehind == stage \in Over \ {"crashed"} => ~file

(* connectors/dedup.py:166-208, for the two users of the file.             *)
SpillIsBounded == Tracker!SpillIsBounded

(* http/client.py:297-304 with connectors/api_connector.py:329-340: no     *)
(* page link and no redirect of any page takes a request of the stream,    *)
(* and the credentials in it, to another origin than the first request's.  *)
CredentialsStayHome == origins \subseteq {OriginOf[feed.urls[1]]}

(* The client's promises, for every call the stream makes.                 *)
PostActsOnce == Client!PostActsOnce
SendsAreBounded == Client!SendsAreBounded
RotationTakesEffect == Client!RotationTakesEffect

(* profiling/engine.py:136-165, for the field of the stream.               *)
CardinalityCoversAll == Field!CardinalityCoversAll

(* docs/en/reference/python-api.md:125-149: a profile of the candidate key *)
(* tells what deduplication would do: it adds up, and it reports as many   *)
(* duplicates as would be dropped unless it has seen values of different   *)
(* types in the key, which extraction turns into equal strings.            *)
uniqueRows == analyzed - duplicates - invalid
ProfileForetellsDedup ==
    feed.kind = "profile" /\ stage = "exhausted" =>
        /\ analyzed = IF feed.limit = 0 THEN Len(feed.records) ELSE drawn
        /\ uniqueRows = Cardinality(Firsts("profile", drawn))
        /\ invalid = drawn - Cardinality(Valid(drawn))
        /\ Cardinality(types) > 1 \/ uniqueRows = Cardinality(Firsts("extract", drawn))

(* A call of next() comes back: with a record, at the end, or by raising.  *)
Running == stage \notin Over \union {"new", "yielded"}
DrawsEnd == Running ~> ~Running
=============================================================================
