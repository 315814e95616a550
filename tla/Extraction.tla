----------------------------- MODULE Extraction -----------------------------
(***************************************************************************)
(* The extractions of one connector: ExtractionSession                     *)
(* (connectors/extraction.py) over the page loop of ApiConnector           *)
(* (connectors/api_connector.py) and the pagination strategies             *)
(* (connectors/pagination.py).  A session is a chain of generators: it     *)
(* runs only while its consumer draws from it, and between two pages other *)
(* sessions, a probe or a profile of the same connector may run.           *)
(*                                                                         *)
(* One record stands for all the records of a page, and the page's number  *)
(* for both.  Deduplication and the HTTP retries are not modelled here.    *)
(***************************************************************************)
EXTENDS Integers, FiniteSets

CONSTANTS
    Sessions,   \* extract_incremental and profile calls
    LastPage,   \* bound: a source has the pages 1 .. n, n <= LastPage
    MaxPages,   \* max_pages of the connector
    Sources,    \* what the API may answer to a session
    Scenarios   \* the connector configurations and usages to consider

Pages == 1 .. LastPage

(* Where the last page of a window leads when it is not to a page again.   *)
End == 0
Foreign == -1

(* The pages of a session's window; where the last one leads: nowhere, or  *)
(* (a faulty API) to a page again, to another origin; which pages hold a   *)
(* record without a valid date.                                            *)
Source == [last : Pages, tail : {End, Foreign} \union Pages, undated : SUBSET Pages]

(* pagination: AutoPagination, a strategy that follows links or cursors,   *)
(*             or page numbers drawn until a page is empty                 *)
(* dates:      no date_field, dates tracked, or the client-side filter     *)
(* interleave: whether extractions of the connector may interleave         *)
Scenario == [pagination : {"auto", "link", "number"},
             dates : {"ignored", "tracked", "filtered"},
             interleave : BOOLEAN]

ASSUME BoundsAssumption == LastPage \in Nat \ {0} /\ MaxPages \in Nat \ {0}
ASSUME SourcesAssumption == Sources \subseteq Source
ASSUME ScenarioAssumption == Scenarios \subseteq Scenario

VARIABLES
    scenario,   \* the scenario of this behaviour, fixed at the start
    source,     \* session -> its source
    resolved,   \* AutoPagination._resolved, one for the connector
    phase,      \* session -> where it stands
    page,       \* session -> the page it holds, 0 before the first
    requests,   \* session -> the requests made: 0 is the first one, and n
                \*            the one for page n by link, cursor or number
    delivered,  \* session -> the pages handed to the consumer
    repeated    \* history: session -> the pages it was handed twice

vars == <<scenario, source, resolved, phase, page, requests, delivered, repeated>>

Init ==
    /\ scenario \in Scenarios
    /\ source \in [Sessions -> Sources]
    /\ resolved = "unknown"
    /\ phase = [s \in Sessions |-> "none"]
    /\ page = [s \in Sessions |-> 0]
    /\ requests = [s \in Sessions |-> {}]
    /\ delivered = [s \in Sessions |-> {}]
    /\ repeated = [s \in Sessions |-> {}]

(* Between two pages the generators of s are suspended.                    *)
Suspended(s) == phase[s] = "drawing"
MayRun(s) == scenario.interleave \/ \A q \in Sessions \ {s} : ~Suspended(q)

Open(s) ==
    /\ phase[s] = "none"
    /\ phase' = [phase EXCEPT ![s] = "open"]
    /\ UNCHANGED <<scenario, source, resolved, page, requests, delivered, repeated>>
-----------------------------------------------------------------------------
(* What the answer to a request holds: request 0 is for the first page; a  *)
(* page number past the end has an empty page, unless the API ignores the  *)
(* number and gives a page again.                                          *)
PageOf(s, r) ==
    IF r = 0 THEN 1
    ELSE IF r <= source[s].last THEN r
    ELSE IF source[s].tail \in Pages THEN source[s].tail ELSE 0

HasLink(s) == page[s] < source[s].last \/ source[s].tail # End
LinkOf(s) == IF page[s] < source[s].last THEN page[s] + 1 ELSE source[s].tail

(* AutoPagination detects the strategy on the first page it is asked about *)
(* after a reset.                                                          *)
DetectedFresh(s) == IF HasLink(s) THEN "link" ELSE "none"
Detected(s) == IF resolved = "unknown" THEN DetectedFresh(s) ELSE resolved

Follows(s) ==
    CASE scenario.pagination = "auto" -> HasLink(s) /\ Detected(s) = "link"
      [] scenario.pagination = "link" -> HasLink(s)
      [] scenario.pagination = "number" -> page[s] # 0

(* The request next_params leads to; page numbers count from the first.    *)
NextRequest(s) ==
    IF scenario.pagination = "number" THEN Cardinality(requests[s]) + 1 ELSE LinkOf(s)

(* The checks of the loop before a request goes out; each one raises.      *)
OverLimit(s) == Cardinality(requests[s]) >= MaxPages
NeverRepeats(s, r) == FALSE
Repeats(s, r) == r \in requests[s]
BlockedByCount(s, r) == OverLimit(s) \/ Repeats(s, r)
Blocked(s, r) == OverLimit(s) \/ Repeats(s, r) \/ r = Foreign

(* Request r succeeds and its page reaches the consumer, unless the client *)
(* filter meets a record without a date.                                   *)
Receive(s, r) ==
    LET p == PageOf(s, r)
    IN  /\ requests' = [requests EXCEPT ![s] = @ \union {r}]
        /\ page' = [page EXCEPT ![s] = p]
        /\ IF scenario.dates = "filtered" /\ p \in source[s].undated
           THEN /\ phase' = [phase EXCEPT ![s] = "failed"]
                /\ UNCHANGED <<delivered, repeated>>
           ELSE /\ phase' = [phase EXCEPT ![s] = "drawing"]
                /\ delivered' = [delivered EXCEPT ![s] = @ \union ({p} \ {0})]
                /\ repeated' = [repeated EXCEPT ![s] = @ \union ({p} \intersect delivered[s])]

(* The HTTP client gives up, or the answer cannot be parsed.               *)
RequestFails(s) ==
    /\ phase' = [phase EXCEPT ![s] = "failed"]
    /\ UNCHANGED <<page, requests, delivered, repeated>>

(* The first next(): pagination.reset() and the first request.             *)
KeepResolved == resolved
ResetPagination == "unknown"

FirstPage(s) ==
    /\ phase[s] = "open" /\ MayRun(s)
    /\ resolved' = ResetPagination
    /\ Receive(s, 0) \/ RequestFails(s)
    /\ UNCHANGED <<scenario, source>>

(* A later next(): next_params on the page held, then the next request.    *)
NextPage(s) ==
    /\ phase[s] = "drawing" /\ MayRun(s)
    /\ resolved' = IF scenario.pagination = "auto" THEN Detected(s) ELSE resolved
    /\ \/ /\ ~Follows(s)
          /\ phase' = [phase EXCEPT ![s] = "exhausted"]
          /\ UNCHANGED <<page, requests, delivered, repeated>>
       \/ /\ Follows(s) /\ Blocked(s, NextRequest(s))
          /\ phase' = [phase EXCEPT ![s] = "failed"]
          /\ UNCHANGED <<page, requests, delivered, repeated>>
       \/ /\ Follows(s) /\ ~Blocked(s, NextRequest(s))
          /\ Receive(s, NextRequest(s)) \/ RequestFails(s)
    /\ UNCHANGED <<scenario, source>>

(* RestConnector.probe: a reset, one request, which may fail, a detection.  *)
Probe ==
    /\ scenario.interleave \/ \A s \in Sessions : ~Suspended(s)
    /\ resolved' \in {"unknown"} \union
          IF scenario.pagination = "auto" THEN {"link", "none"} ELSE {}
    /\ UNCHANGED <<scenario, source, phase, page, requests, delivered, repeated>>
-----------------------------------------------------------------------------
(* commit: only an exhausted session whose records all had a date; the     *)
(* StateStore may still refuse, and the session then stays as it is.       *)
AllDated(s) ==
    scenario.dates = "ignored" \/ delivered[s] \intersect source[s].undated = {}

MayCommit(s) == phase[s] = "exhausted" /\ AllDated(s)

Commit(s) ==
    /\ MayCommit(s)
    /\ phase' = [phase EXCEPT ![s] = "committed"]
    /\ UNCHANGED <<scenario, source, resolved, page, requests, delivered, repeated>>

Abort(s) ==
    /\ phase[s] \in {"open", "drawing", "exhausted", "failed"}
    /\ phase' = [phase EXCEPT ![s] = "aborted"]
    /\ UNCHANGED <<scenario, source, resolved, page, requests, delivered, repeated>>

Next ==
    \/ \E s \in Sessions :
          Open(s) \/ FirstPage(s) \/ NextPage(s) \/ Commit(s) \/ Abort(s)
    \/ Probe

Spec == Init /\ [][Next]_vars
-----------------------------------------------------------------------------
(* No page of another origin is requested or held (api_connector.py:       *)
(* 329-340), and AutoPagination knows one strategy at a time.              *)
TypeOK ==
    /\ scenario \in Scenarios
    /\ source \in [Sessions -> Sources]
    /\ resolved \in {"unknown", "link", "none"}
    /\ phase \in [Sessions -> {"none", "open", "drawing", "exhausted",
                               "failed", "committed", "aborted"}]
    /\ page \in [Sessions -> 0 .. LastPage]
    /\ \A s \in Sessions : requests[s] \subseteq 0 .. LastPage + MaxPages
    /\ delivered \in [Sessions -> SUBSET Pages]
    /\ repeated \in [Sessions -> SUBSET Pages]

(* connectors/extraction.py:149-159: a checkpoint that advances covers     *)
(* every page of the session's window, each record with a valid date if    *)
(* dates are looked at.                                                    *)
CommitCoversWindow ==
    \A s \in Sessions : phase[s] = "committed" =>
        /\ delivered[s] = 1 .. source[s].last
        /\ scenario.dates # "ignored" => delivered[s] \intersect source[s].undated = {}

(* connectors/api_connector.py:306-327: whatever the API answers, a        *)
(* session makes at most max_pages requests and, when it follows links or  *)
(* cursors, sees at most its first page twice: the loop check does not     *)
(* know the first page by its link.                                        *)
RequestsAreBounded ==
    \A s \in Sessions :
        /\ Cardinality(requests[s]) <= MaxPages
        /\ scenario.pagination # "number" => repeated[s] \subseteq {1}
=============================================================================
