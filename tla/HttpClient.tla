----------------------------- MODULE HttpClient -----------------------------
(***************************************************************************)
(* HttpClient.request (http/client.py), one call after the other on one    *)
(* client, with its authentication (http/auth.py) and the secret a         *)
(* FileSecretProvider reads for it (security/secrets.py).  The API is      *)
(* free in what it answers; the secret is rotated at any moment.           *)
(*                                                                         *)
(* A URL is a name with an origin.  The body of an answer is a number of   *)
(* chunks; MaxChunks of them is max_response_bytes.                        *)
(***************************************************************************)
EXTENDS Integers

CONSTANTS
    Urls,          \* the URLs a caller or a Location header may name
    SafeUrls,      \* those HttpClient._check_url accepts
    OriginOf,      \* URL -> scheme, host and port
    MaxRedirects,  \* max_redirects
    MaxRetries,    \* max_retries of the transport
    RetryPost,     \* retry_post
    MaxChunks,     \* max_response_bytes
    Rotations,     \* bound: how often the secret is replaced
    NoUrl          \* no request yet, or a redirect without a Location

(* What the constants must satisfy; assumed where they are given.          *)
ConstantsFit ==
    /\ {MaxRedirects, MaxRetries, MaxChunks, Rotations} \subseteq Nat
    /\ SafeUrls \subseteq Urls /\ NoUrl \notin Urls
    /\ RetryPost \in BOOLEAN

VARIABLES
    phase,      \* where the call stands, or how it ended
    method,     \* GET or POST, as of the next send
    target,     \* the URL of the next send
    redirects,  \* redirects followed or refused in this call
    retries,    \* sends the transport may still add for this target
    signed,     \* the version of the secret in request_kwargs
    held,       \* chunks of the body in memory
    secret,     \* the version of the secret in the file
    readable,   \* whether the file is there
    since,      \* history: the version of the secret when the call began
    sends,      \* history: sends of this call, at most one above SendLimit
    acted,      \* history: POSTs of this call the API acted upon
    origins     \* history: the origins that were sent a request

callVars == <<phase, method, target, redirects, retries, signed, held,
              since, sends, acted>>
secretVars == <<secret, readable>>
vars == <<callVars, secretVars, origins>>

Methods == {"GET", "POST"}
Ended == {"idle", "returned", "raised"}

Init ==
    /\ phase = "idle" /\ method = "GET" /\ target = NoUrl
    /\ redirects = 0 /\ retries = 0 /\ signed = 0 /\ held = 0
    /\ since = 0 /\ sends = 0 /\ acted = 0
    /\ secret = 0 /\ readable = TRUE
    /\ origins = {}
-----------------------------------------------------------------------------
(* _check_url comes before anything else of a call.                        *)
CheckUrl(u) == u \in SafeUrls

Call(m, u) ==
    /\ phase = "idle"
    /\ phase' = IF CheckUrl(u) THEN "checked" ELSE "raised"
    /\ method' = m /\ target' = u
    /\ since' = secret
    /\ UNCHANGED <<redirects, retries, signed, held, sends, acted,
                   secretVars, origins>>

(* The caller has the answer or the exception, and the locals are gone.    *)
Return ==
    /\ phase \in {"returned", "raised"}
    /\ phase' = "idle" /\ method' = "GET" /\ target' = NoUrl
    /\ redirects' = 0 /\ retries' = 0 /\ signed' = 0 /\ held' = 0
    /\ since' = 0 /\ sends' = 0 /\ acted' = 0
    /\ UNCHANGED <<secretVars, origins>>

(* AuthStrategy.apply, once per call: the provider reads the file as it is *)
(* now; a file that is not there raises SecretNotFoundError.               *)
ReadAtTheStart == 0
ReadSecret == secret

ApplyAuth ==
    /\ phase = "checked"
    /\ IF readable
       THEN /\ phase' = "sending"
            /\ signed' = ReadSecret
            /\ retries' = MaxRetries
       ELSE phase' = "raised" /\ UNCHANGED <<signed, retries>>
    /\ UNCHANGED <<method, target, redirects, held, since, sends, acted,
                   secretVars, origins>>

(* Whoever rotates the secret replaces the file, or removes it and puts    *)
(* the new one in its place later.                                         *)
Rotate ==
    /\ secret < Rotations
    /\ secret' = secret + 1
    /\ readable' = TRUE
    /\ UNCHANGED <<callVars, origins>>

RemoveSecret ==
    /\ readable /\ secret < Rotations
    /\ readable' = FALSE
    /\ UNCHANGED <<callVars, secret, origins>>
-----------------------------------------------------------------------------
(* The transport: Retry(total, allowed_methods, status_forcelist).         *)
AnyMethod(m) == TRUE
AllowedMethod(m) == m = "GET" \/ RetryPost

SendLimit == (MaxRedirects + 1) * (MaxRetries + 1)
CountSend == sends' = IF sends > SendLimit THEN sends ELSE sends + 1
Sent == CountSend /\ origins' = origins \union {OriginOf[target]}

(* One retry less, or the failure becomes HttpRequestError.                *)
NotCounted == retries
OneLess == retries - 1
RetryIf(allowed) ==
    IF allowed /\ retries > 0
    THEN retries' = OneLess /\ UNCHANGED phase
    ELSE phase' = "raised" /\ UNCHANGED retries

(* No connection: nothing was sent, so every method is retried.            *)
ConnectFails ==
    /\ phase = "sending"
    /\ CountSend
    /\ RetryIf(TRUE)
    /\ UNCHANGED <<method, target, redirects, signed, held, since, acted,
                   secretVars, origins>>

(* The API got the request and acted upon it or not; its answer is lost,   *)
(* late, or one of the statuses worth a retry.                             *)
AnswerFails ==
    /\ phase = "sending"
    /\ Sent
    /\ acted' \in IF method = "POST" THEN {acted, acted + 1} ELSE {acted}
    /\ RetryIf(AllowedMethod(method))
    /\ UNCHANGED <<method, target, redirects, signed, held, since, secretVars>>

(* Any other status of 4xx and 5xx: raise_for_status.                      *)
ErrorStatus ==
    /\ phase = "sending"
    /\ Sent
    /\ phase' = "raised"
    /\ UNCHANGED <<method, target, redirects, retries, signed, held, since,
                   acted, secretVars>>

(* 303, and 301 or 302 after a POST, go on with a GET without the payload. *)
(* A 303 answers a POST the API has acted upon; the others send it away.   *)
NextMethod(status) ==
    IF status = "see other" \/ status = "moved" THEN "GET" ELSE method

AnyOrigin(u) == u # NoUrl /\ redirects < MaxRedirects /\ CheckUrl(u)
MayFollow(u) ==
    /\ u # NoUrl /\ redirects < MaxRedirects
    /\ CheckUrl(u)
    /\ OriginOf[u] = OriginOf[target]

NoneMore == redirects
OneMore == redirects + 1

(* status: 301 or 302, 303, 307 or 308.                                    *)
Redirect(status, u) ==
    /\ phase = "sending"
    /\ Sent
    /\ acted' = IF status = "see other" /\ method = "POST" THEN acted + 1 ELSE acted
    /\ IF MayFollow(u)
       THEN /\ redirects' = OneMore
            /\ method' = NextMethod(status)
            /\ target' = u
            /\ retries' = MaxRetries
            /\ UNCHANGED phase
       ELSE /\ phase' = "raised"
            /\ UNCHANGED <<redirects, method, target, retries>>
    /\ UNCHANGED <<signed, held, since, secretVars>>

(* 2xx: a Content-Length above the limit is refused before the body.       *)
Success ==
    /\ phase = "sending"
    /\ Sent
    /\ acted' = IF method = "POST" THEN acted + 1 ELSE acted
    /\ phase' \in {"reading", "raised"}
    /\ UNCHANGED <<method, target, redirects, retries, signed, held, since, secretVars>>

(* _consume_bounded_body.  The length was not given or was not true.       *)
CheckedAfterwards(total) == total > MaxChunks + 1
TooLarge(total) == total > MaxChunks

ReadChunk ==
    /\ phase = "reading"
    /\ IF TooLarge(held + 1)
       THEN phase' = "raised" /\ UNCHANGED held
       ELSE held' = held + 1 /\ UNCHANGED phase
    /\ UNCHANGED <<method, target, redirects, retries, signed, since, sends,
                   acted, secretVars, origins>>

(* The body ends, or the connection breaks; nothing is retried any more.   *)
EndOfBody ==
    /\ phase = "reading"
    /\ phase' \in {"returned", "raised"}
    /\ UNCHANGED <<method, target, redirects, retries, signed, held, since,
                   sends, acted, secretVars, origins>>

Proceeds ==
    \/ ApplyAuth \/ ConnectFails \/ AnswerFails \/ ErrorStatus \/ Success
    \/ \E u \in Urls \union {NoUrl}, status \in {"moved", "see other", "temporary"} :
          Redirect(status, u)
    \/ ReadChunk \/ EndOfBody

Rotates == Rotate \/ RemoveSecret

Next ==
    \/ \E m \in Methods, u \in Urls : Call(m, u)
    \/ Proceeds \/ Return \/ Rotates

Spec == Init /\ [][Next]_vars

(* Every connection and every read of a socket has a timeout.              *)
FairSpec == Spec /\ WF_vars(Proceeds)
-----------------------------------------------------------------------------
TypeOK ==
    /\ phase \in {"checked", "sending", "reading"} \union Ended
    /\ method \in Methods
    /\ target \in Urls \union {NoUrl}
    /\ redirects \in 0 .. MaxRedirects
    /\ retries \in 0 .. MaxRetries
    /\ {signed, secret, since} \subseteq 0 .. Rotations
    /\ held \in 0 .. MaxChunks
    /\ readable \in BOOLEAN
    /\ sends \in Nat /\ acted \in Nat
    /\ origins \subseteq {OriginOf[u] : u \in Urls}

(* http/client.py:153-165: a POST takes effect at most once per call,      *)
(* whatever is lost, overloaded or redirected, unless retry_post.          *)
PostActsOnce == ~RetryPost => acted <= 1

(* http/client.py:158-168, 290-295: the retries of a redirect's target are *)
(* its own, and still a call is a bounded number of requests.              *)
SendsAreBounded == sends <= SendLimit

(* security/secrets.py:66-73: what a call sends is signed with the secret  *)
(* of its beginning or a later one, all along its retries and redirects.   *)
RotationTakesEffect == phase \in {"sending", "reading", "returned"} => since <= signed

(* Every call ends, against an API that loops, stalls or streams for ever. *)
CallsEnd == phase \notin Ended ~> phase \in Ended
=============================================================================
