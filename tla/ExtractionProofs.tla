-------------------------- MODULE ExtractionProofs --------------------------
(***************************************************************************)
(* Extraction's invariants proved for every set of sessions, every source  *)
(* and limit.  That a commit covers its window needs AutoPagination's      *)
(* extractions to run one after the other, as InterleavedAuto shows.       *)
(***************************************************************************)
EXTENDS Extraction, FiniteSetTheorems, TLAPS

(* AutoPagination is not shared by interleaved extractions.                *)
AutoIsNotShared == \A sc \in Scenarios : sc.pagination = "auto" => ~sc.interleave

Phases == {"none", "open", "drawing", "exhausted", "failed", "committed", "aborted"}
Types ==
    /\ scenario \in Scenarios
    /\ source \in [Sessions -> Sources]
    /\ resolved \in {"unknown", "link", "none"}
    /\ phase \in [Sessions -> Phases]
    /\ page \in [Sessions -> 0 .. LastPage]
    /\ requests \in [Sessions -> SUBSET (0 .. LastPage + MaxPages)]
    /\ delivered \in [Sessions -> SUBSET Pages]
    /\ repeated \in [Sessions -> SUBSET Pages]

(* The requests of a session are counted, and none is made before it draws. *)
RequestsCounted ==
    \A s \in Sessions :
        /\ IsFiniteSet(requests[s]) /\ Cardinality(requests[s]) <= MaxPages
        /\ phase[s] \in {"none", "open"} => requests[s] = {} /\ delivered[s] = {}

(* A session that follows links holds the last page it was handed, every   *)
(* page but the first by a request of its own.                             *)
LinkStep(s) ==
    /\ delivered[s] \subseteq requests[s] \union {1}
    /\ repeated[s] \subseteq {1}
    /\ phase[s] = "drawing" =>
           /\ page[s] # 0
           /\ source[s].tail = End => /\ page[s] <= source[s].last
                                      /\ delivered[s] = 1 .. page[s]
LinksFollowed == scenario.pagination # "number" => \A s \in Sessions : LinkStep(s)

(* A session that draws page numbers has as many pages as requests, until  *)
(* a page is empty.                                                        *)
NumberStep(s) ==
    phase[s] = "drawing" =>
        IF source[s].tail \in Pages THEN page[s] # 0
        ELSE LET n == Cardinality(requests[s])
             IN  IF n <= source[s].last
                 THEN n # 0 /\ page[s] = n /\ delivered[s] = 1 .. n
                 ELSE page[s] = 0 /\ delivered[s] = 1 .. source[s].last
NumbersFollowed == scenario.pagination = "number" => \A s \in Sessions : NumberStep(s)

(* The session that draws from AutoPagination has not been told that its   *)
(* pages do not continue.                                                  *)
AutoUndeceived ==
    scenario.pagination = "auto" /\ ~scenario.interleave =>
        /\ \A q, s \in Sessions : Suspended(q) /\ Suspended(s) => q = s
        /\ \A s \in Sessions : Suspended(s) => resolved # "none"

(* An exhausted session was handed the whole window.                       *)
ExhaustedCovers ==
    ~(scenario.pagination = "auto" /\ scenario.interleave) =>
        \A s \in Sessions : phase[s] \in {"exhausted", "committed"} =>
            delivered[s] = 1 .. source[s].last

(* A commit that looks at dates found one in every record.                 *)
CommittedIsDated ==
    \A s \in Sessions : phase[s] = "committed" => AllDated(s)

IInv ==
    /\ Types
    /\ RequestsCounted
    /\ LinksFollowed
    /\ NumbersFollowed
    /\ AutoUndeceived
    /\ ExhaustedCovers
    /\ CommittedIsDated
-----------------------------------------------------------------------------
(* No session was opened.                                                  *)
LEMMA InitEstablishes == Init => IInv
<1> SUFFICES ASSUME Init PROVE IInv
  OBVIOUS
<1>1. Types
  BY BoundsAssumption DEF Init, Types, Phases
<1>2. RequestsCounted
  BY FS_EmptySet, BoundsAssumption DEF Init, RequestsCounted
<1> QED
  BY <1>1, <1>2 DEF Init, IInv, LinksFollowed, LinkStep, NumbersFollowed, NumberStep, AutoUndeceived, Suspended,
     ExhaustedCovers, CommittedIsDated

(* The fields of a session's source.                                       *)
LEMMA SourceFields ==
  ASSUME Types, NEW s \in Sessions
  PROVE  /\ source[s].last \in Nat \ {0} /\ source[s].last <= LastPage
         /\ source[s].tail \in {End, Foreign} \union Pages
         /\ source[s].undated \subseteq Pages
         /\ End = 0 /\ Foreign = -1 /\ Pages = 1 .. LastPage /\ LastPage \in Nat
         /\ scenario \in Scenario
  BY SourcesAssumption, ScenarioAssumption, BoundsAssumption
  DEF Types, Source, Pages, End, Foreign

(* The page an answer holds.                                               *)
LEMMA PageOfType ==
  ASSUME Types, NEW s \in Sessions, NEW r \in Nat
  PROVE  PageOf(s, r) \in 0 .. LastPage
  BY SourceFields DEF PageOf

(* What next_params leads to, when the loop does not raise.                *)
LEMMA NextRequestType ==
  ASSUME IInv, NEW s \in Sessions, phase[s] = "drawing", Follows(s),
         ~Blocked(s, NextRequest(s))
  PROVE  /\ NextRequest(s) \in 0 .. LastPage + MaxPages
         /\ NextRequest(s) \notin requests[s]
         /\ Cardinality(requests[s]) < MaxPages
         /\ scenario.pagination # "number" =>
                /\ NextRequest(s) = LinkOf(s) /\ HasLink(s)
                /\ LinkOf(s) \in Pages
                /\ PageOf(s, LinkOf(s)) = LinkOf(s)
<1>1. /\ Cardinality(requests[s]) \in Nat /\ MaxPages \in Nat
      /\ page[s] \in Int
  BY FS_CardinalityType, BoundsAssumption DEF IInv, RequestsCounted, Types
<1>2. /\ NextRequest(s) \notin requests[s] /\ NextRequest(s) # Foreign
      /\ Cardinality(requests[s]) < MaxPages
  BY <1>1 DEF Blocked, OverLimit, Repeats
<1>3. CASE scenario.pagination = "number"
  BY <1>1, <1>2, <1>3, SourceFields DEF IInv, NextRequest
<1>4. CASE scenario.pagination # "number"
  <2>1. HasLink(s) /\ NextRequest(s) = LinkOf(s)
    BY <1>4, SourceFields DEF IInv, Scenario, Follows, NextRequest
  <2>2. page[s] \in Pages
    BY <1>4, SourceFields DEF IInv, LinksFollowed, LinkStep, Types
  <2>3. LinkOf(s) \in Pages
    BY <1>2, <2>1, <2>2, SourceFields DEF IInv, HasLink, LinkOf
  <2>4. PageOf(s, LinkOf(s)) = LinkOf(s)
    BY <2>2, <2>3, SourceFields DEF IInv, PageOf, LinkOf
  <2> QED
    BY <1>1, <1>2, <2>1, <2>3, <2>4, SourceFields DEF IInv
<1> QED
  BY <1>3, <1>4

(* What drawing does to the other sessions: nothing.                       *)
OthersKeep(s) ==
    \A q \in Sessions \ {s} :
        /\ phase'[q] = phase[q] /\ page'[q] = page[q] /\ requests'[q] = requests[q]
        /\ delivered'[q] = delivered[q] /\ repeated'[q] = repeated[q]

(* The answer to request r, in the fields of s.                            *)
LEMMA ReceiveEffect ==
  ASSUME Types, NEW s \in Sessions, NEW r \in 0 .. LastPage + MaxPages,
         Receive(s, r), UNCHANGED <<scenario, source>>,
         resolved' \in {"unknown", "link", "none"}
  PROVE  /\ Types' /\ OthersKeep(s)
         /\ requests'[s] = requests[s] \union {r}
         /\ page'[s] = PageOf(s, r)
         /\ phase'[s] \in {"drawing", "failed"}
         /\ phase'[s] = "failed" => /\ delivered'[s] = delivered[s]
                                    /\ repeated'[s] = repeated[s]
         /\ phase'[s] = "drawing" =>
                /\ delivered'[s] = delivered[s] \union ({PageOf(s, r)} \ {0})
                /\ repeated'[s] = repeated[s] \union ({PageOf(s, r)} \intersect delivered[s])
<1>1. PageOf(s, r) \in 0 .. LastPage /\ {PageOf(s, r)} \ {0} \subseteq Pages
  BY PageOfType, BoundsAssumption DEF Pages
<1>2. CASE scenario.dates = "filtered" /\ PageOf(s, r) \in source[s].undated
  BY <1>1, <1>2 DEF Receive, Types, Phases, OthersKeep
<1>3. CASE ~(scenario.dates = "filtered" /\ PageOf(s, r) \in source[s].undated)
  <2>1. /\ requests' = [requests EXCEPT ![s] = @ \union {r}]
        /\ page' = [page EXCEPT ![s] = PageOf(s, r)]
        /\ phase' = [phase EXCEPT ![s] = "drawing"]
        /\ delivered' = [delivered EXCEPT ![s] = @ \union ({PageOf(s, r)} \ {0})]
        /\ repeated' = [repeated EXCEPT ![s] =
                            @ \union ({PageOf(s, r)} \intersect delivered[s])]
    BY <1>3 DEF Receive
  <2> QED
    BY <1>1, <2>1 DEF Types, Phases, OthersKeep
<1> QED
  BY <1>2, <1>3

(* A step that hands no page to a session.                                 *)
LEMMA NothingReceived ==
  ASSUME IInv, NEW s \in Sessions, NEW to \in Phases \ {"drawing"},
         phase' = [phase EXCEPT ![s] = to], phase[s] = "none" \/ to \notin {"none", "open"},
         UNCHANGED <<scenario, source, page, requests, delivered, repeated>>,
         resolved' \in {"unknown", "link", "none"},
         MayRun(s) \/ UNCHANGED resolved,
         to = "exhausted" /\ ~(scenario.pagination = "auto" /\ scenario.interleave) =>
             delivered[s] = 1 .. source[s].last,
         to = "committed" => phase[s] = "exhausted" /\ AllDated(s)
  PROVE  IInv'
<1> USE DEF IInv
<1>1. Types' /\ RequestsCounted'
  BY DEF Types, RequestsCounted, Phases
<1>2. LinksFollowed' /\ NumbersFollowed'
  BY DEF Types, LinksFollowed, LinkStep, NumbersFollowed, NumberStep
<1>3. AutoUndeceived'
  BY DEF Types, AutoUndeceived, Suspended, MayRun
<1>4. ExhaustedCovers' /\ CommittedIsDated'
  BY DEF Types, ExhaustedCovers, CommittedIsDated, AllDated
<1> QED
  BY <1>1, <1>2, <1>3, <1>4

(* The session that runs is the only one that draws from AutoPagination.   *)
LEMMA AutoKept ==
  ASSUME IInv, NEW s \in Sessions, MayRun(s), OthersKeep(s), UNCHANGED scenario,
         scenario.pagination = "auto" => resolved' # "none"
  PROVE  AutoUndeceived'
  BY DEF IInv, AutoUndeceived, Suspended, MayRun, OthersKeep, Types

(* The first request, after a reset of the pagination.                     *)
LEMMA FirstPageKeeps == ASSUME IInv, NEW s \in Sessions, FirstPage(s) PROVE IInv'
<1> USE DEF IInv
<1>1. /\ phase[s] = "open" /\ MayRun(s) /\ resolved' = "unknown"
      /\ UNCHANGED <<scenario, source>>
      /\ requests[s] = {} /\ delivered[s] = {}
  BY DEF FirstPage, ResetPagination, RequestsCounted
<1>2. CASE RequestFails(s)
  BY <1>1, <1>2, NothingReceived DEF RequestFails, Phases
<1>3. CASE Receive(s, 0)
  <2>1. PageOf(s, 0) = 1 /\ 0 \in 0 .. LastPage + MaxPages
    BY BoundsAssumption DEF PageOf
  <2>0. /\ Types' /\ OthersKeep(s)
        /\ requests'[s] = requests[s] \union {0}
        /\ page'[s] = 1
        /\ phase'[s] \in {"drawing", "failed"}
        /\ phase'[s] = "failed" => /\ delivered'[s] = delivered[s]
                                   /\ repeated'[s] = repeated[s]
        /\ phase'[s] = "drawing" =>
               /\ delivered'[s] = delivered[s] \union ({1} \ {0})
               /\ repeated'[s] = repeated[s] \union ({1} \intersect delivered[s])
    BY <1>1, <1>3, <2>1, ReceiveEffect
  <2>2. /\ Types' /\ OthersKeep(s)
        /\ requests'[s] = {0} /\ page'[s] = 1
        /\ phase'[s] \in {"drawing", "failed"}
        /\ delivered'[s] \in {{}, {1}}
        /\ phase'[s] = "drawing" => delivered'[s] = {1}
        /\ repeated'[s] = repeated[s]
    BY <1>1, <2>0
  <2>3. IsFiniteSet({0}) /\ Cardinality({0}) = 1
    BY FS_Singleton
  <2>4. RequestsCounted'
    <3>1. 1 <= MaxPages
      BY BoundsAssumption
    <3> QED
      BY <2>2, <2>3, <3>1 DEF RequestsCounted, OthersKeep
  <2>5. 1 <= source[s].last /\ 1 .. 1 = {1}
    BY SourceFields
  <2>6. LinksFollowed'
    <3> SUFFICES ASSUME scenario.pagination # "number", NEW q \in Sessions
                 PROVE  LinkStep(q)'
      BY <1>1 DEF LinksFollowed, LinkStep
    <3>1. CASE q = s
      <4>1. phase'[s] = "drawing" => delivered'[s] = 1 .. page'[s]
        BY <2>2, <2>5
      <4>2. delivered'[s] \subseteq requests'[s] \union {1}
        BY <2>2
      <4>3. repeated'[s] \subseteq {1}
        BY <2>2 DEF LinksFollowed, LinkStep
      <4>4. (phase'[s] = "drawing" => page'[s] # 0) /\ page'[s] <= source'[s].last
        BY <1>1, <2>2, <2>5
      <4> QED
        BY <3>1, <4>1, <4>2, <4>3, <4>4 DEF LinkStep
    <3>2. CASE q # s
      BY <1>1, <2>2, <3>2 DEF LinksFollowed, LinkStep, OthersKeep
    <3> QED
      BY <3>1, <3>2
  <2>9. NumbersFollowed'
    <3> SUFFICES ASSUME scenario.pagination = "number", NEW q \in Sessions
                 PROVE  NumberStep(q)'
      BY <1>1 DEF NumbersFollowed, NumberStep
    <3>1. CASE q = s
      <4>1. Cardinality(requests'[s]) = 1
        BY <2>2, <2>3
      <4>2. phase'[s] = "drawing" => delivered'[s] = 1 .. Cardinality(requests'[s])
        BY <2>2, <2>5, <4>1
      <4>3. 1 <= source'[s].last /\ page'[s] = 1
        BY <1>1, <2>2, <2>5
      <4> QED
        BY <3>1, <4>1, <4>2, <4>3 DEF NumberStep
    <3>2. CASE q # s
      BY <1>1, <2>2, <3>2 DEF NumbersFollowed, NumberStep, OthersKeep
    <3> QED
      BY <3>1, <3>2
  <2>7. AutoUndeceived'
    BY <1>1, <2>2, AutoKept
  <2>8. ExhaustedCovers' /\ CommittedIsDated'
    BY <1>1, <2>2 DEF ExhaustedCovers, CommittedIsDated, AllDated, OthersKeep
  <2> QED
    BY <2>2, <2>4, <2>6, <2>7, <2>8, <2>9
<1> QED
  BY <1>2, <1>3 DEF FirstPage

(* The page that a followed link leads to.                                 *)
LEMMA LinkPageKeeps ==
  ASSUME IInv, NEW s \in Sessions, phase[s] = "drawing", Follows(s),
         scenario.pagination # "number",
         ~Blocked(s, NextRequest(s)), Receive(s, NextRequest(s)),
         UNCHANGED <<scenario, source>>, resolved' \in {"unknown", "link", "none"}
  PROVE  LinkStep(s)'
<1> DEFINE r == LinkOf(s)
<1>1. /\ NextRequest(s) = r /\ HasLink(s) /\ r \in Pages /\ PageOf(s, r) = r
      /\ r \notin requests[s] /\ r \in 0 .. LastPage + MaxPages /\ r # 0
  BY NextRequestType, SourceFields DEF IInv
<1> HIDE DEF r
<1>2. /\ requests'[s] = requests[s] \union {r}
      /\ page'[s] = r
      /\ phase'[s] \in {"drawing", "failed"}
      /\ phase'[s] = "failed" => /\ delivered'[s] = delivered[s]
                                 /\ repeated'[s] = repeated[s]
      /\ phase'[s] = "drawing" =>
             /\ delivered'[s] = delivered[s] \union ({r} \ {0})
             /\ repeated'[s] = repeated[s] \union ({r} \intersect delivered[s])
  BY <1>1, ReceiveEffect DEF IInv
<1>3. /\ delivered[s] \subseteq requests[s] \union {1}
      /\ repeated[s] \subseteq {1}
      /\ page[s] # 0
      /\ source[s].tail = End => page[s] <= source[s].last /\ delivered[s] = 1 .. page[s]
  BY DEF IInv, LinksFollowed, LinkStep
<1>4. delivered'[s] \subseteq requests'[s] \union {1} /\ repeated'[s] \subseteq {1}
  BY <1>1, <1>2, <1>3
<1>5. ASSUME source[s].tail = End, phase'[s] = "drawing"
      PROVE  r <= source[s].last /\ delivered'[s] = 1 .. r
  <2>1. page[s] \in Nat \ {0} /\ source[s].last \in Nat
    BY <1>3, SourceFields DEF IInv, Types
  <2>2. page[s] < source[s].last /\ r = page[s] + 1
    BY <1>1, <1>5, <2>1 DEF HasLink, LinkOf, r
  <2>3. delivered'[s] = (1 .. page[s]) \union {r}
    BY <1>1, <1>2, <1>3, <1>5
  <2> QED
    BY <2>1, <2>2, <2>3
<1> QED
  BY <1>1, <1>2, <1>4, <1>5 DEF LinkStep

(* The page that a page number has.                                        *)
LEMMA NumberPageKeeps ==
  ASSUME IInv, NEW s \in Sessions, phase[s] = "drawing", Follows(s),
         scenario.pagination = "number",
         ~Blocked(s, NextRequest(s)), Receive(s, NextRequest(s)),
         UNCHANGED <<scenario, source>>, resolved' \in {"unknown", "link", "none"}
  PROVE  NumberStep(s)'
<1> DEFINE n == Cardinality(requests[s])
           r == NextRequest(s)
<1>1. n \in Nat /\ IsFiniteSet(requests[s])
  BY FS_CardinalityType DEF IInv, RequestsCounted
<1>2. r = n + 1 /\ r \notin requests[s] /\ r \in 0 .. LastPage + MaxPages /\ page[s] # 0
  BY NextRequestType DEF NextRequest, Follows
<1>3. Cardinality(requests[s] \union {r}) = n + 1
  BY <1>1, <1>2, FS_AddElement
<1> HIDE DEF n, r
<1>4. /\ requests'[s] = requests[s] \union {r}
      /\ page'[s] = PageOf(s, r)
      /\ phase'[s] \in {"drawing", "failed"}
      /\ phase'[s] = "drawing" => delivered'[s] = delivered[s] \union ({PageOf(s, r)} \ {0})
  BY <1>2, ReceiveEffect DEF IInv, r
<1>5. source[s].last \in Nat \ {0} /\ Pages = 1 .. LastPage
  BY SourceFields DEF IInv
<1>6. CASE source[s].tail \in Pages
  <2>1. r # 0
    BY <1>1, <1>2
  <2>2. PageOf(s, r) # 0
    BY <1>5, <1>6, <2>1 DEF PageOf
  <2> QED
    BY <1>4, <1>6, <2>2 DEF NumberStep
<1>7. CASE source[s].tail \notin Pages
  <2>1. n <= source[s].last /\ n # 0 /\ delivered[s] = 1 .. n
    BY <1>2, <1>7 DEF IInv, NumbersFollowed, NumberStep, n
  <2>2. CASE r <= source[s].last
    <3>1. PageOf(s, r) = r /\ r # 0
      BY <1>1, <1>2, <2>2 DEF PageOf
    <3>2. phase'[s] = "drawing" => delivered'[s] = 1 .. r
      <4>1. phase'[s] = "drawing" => delivered'[s] = (1 .. n) \union {r}
        BY <1>4, <2>1, <3>1
      <4>2. (1 .. n) \union {r} = 1 .. r
        BY <1>1, <1>2
      <4> QED
        BY <4>1, <4>2
    <3>3. Cardinality(requests'[s]) = r
      BY <1>2, <1>3, <1>4
    <3> QED
      BY <1>4, <1>7, <2>2, <3>1, <3>2, <3>3 DEF NumberStep
  <2>3. CASE ~(r <= source[s].last)
    <3>1. PageOf(s, r) = 0 /\ n = source[s].last
      BY <1>1, <1>2, <1>5, <1>7, <2>1, <2>3 DEF PageOf
    <3>2. phase'[s] = "drawing" => delivered'[s] = 1 .. source[s].last
      BY <1>4, <2>1, <3>1
    <3>3. Cardinality(requests'[s]) = r
      BY <1>2, <1>3, <1>4
    <3> QED
      BY <1>4, <1>7, <2>3, <3>1, <3>2, <3>3 DEF NumberStep
  <2> QED
    BY <2>2, <2>3
<1> QED
  BY <1>6, <1>7

(* A session that finds no next page was handed its whole window.          *)
LEMMA ExhaustedHasAll ==
  ASSUME IInv, NEW s \in Sessions, phase[s] = "drawing", ~Follows(s),
         ~(scenario.pagination = "auto" /\ scenario.interleave)
  PROVE  delivered[s] = 1 .. source[s].last
<1>1. source[s].last \in Nat /\ page[s] \in Nat /\ scenario \in Scenario
  BY SourceFields DEF IInv, Types
<1>2. CASE scenario.pagination = "number"
  <2>1. page[s] = 0
    BY <1>2 DEF Follows
  <2> QED
    BY <1>2, <2>1 DEF IInv, NumbersFollowed, NumberStep
<1>3. CASE scenario.pagination # "number"
  <2>1. ~HasLink(s)
    <3>1. CASE scenario.pagination = "link"
      BY <3>1 DEF Follows
    <3>2. CASE scenario.pagination = "auto"
      <4>1. resolved \in {"unknown", "link"}
        BY <1>1, <3>2 DEF IInv, Types, AutoUndeceived, Suspended, Scenario
      <4> QED
        BY <3>2, <4>1 DEF Follows, Detected, DetectedFresh
    <3> QED
      BY <1>1, <1>3, <3>1, <3>2 DEF Scenario
  <2>2. source[s].tail = End /\ page[s] >= source[s].last
    BY <1>1, <2>1 DEF HasLink
  <2>3. page[s] <= source[s].last /\ delivered[s] = 1 .. page[s]
    BY <1>3, <2>2 DEF IInv, LinksFollowed, LinkStep
  <2> QED
    BY <1>1, <2>2, <2>3
<1> QED
  BY <1>2, <1>3

(* Exhausted, blocked, failed, or one more page.                           *)
LEMMA NextPageKeeps == ASSUME IInv, NEW s \in Sessions, NextPage(s) PROVE IInv'
<1>1. /\ phase[s] = "drawing" /\ MayRun(s)
      /\ UNCHANGED <<scenario, source>>
      /\ resolved' \in {"unknown", "link", "none"}
      /\ scenario.pagination = "auto" => resolved' = Detected(s)
  BY DEF NextPage, IInv, Types, Detected, DetectedFresh
<1>2. CASE ~Follows(s) /\ phase' = [phase EXCEPT ![s] = "exhausted"]
           /\ UNCHANGED <<page, requests, delivered, repeated>>
  BY <1>1, <1>2, ExhaustedHasAll, NothingReceived DEF Phases
<1>3. CASE phase' = [phase EXCEPT ![s] = "failed"]
           /\ UNCHANGED <<page, requests, delivered, repeated>>
  BY <1>1, <1>3, NothingReceived DEF Phases
<1>4. CASE Follows(s) /\ ~Blocked(s, NextRequest(s)) /\ Receive(s, NextRequest(s))
  <2>1. /\ NextRequest(s) \in 0 .. LastPage + MaxPages
        /\ NextRequest(s) \notin requests[s] /\ Cardinality(requests[s]) < MaxPages
    BY <1>1, <1>4, NextRequestType
  <2>2. /\ Types' /\ OthersKeep(s)
        /\ requests'[s] = requests[s] \union {NextRequest(s)}
        /\ phase'[s] \in {"drawing", "failed"}
    BY <1>1, <1>4, <2>1, ReceiveEffect DEF IInv
  <2>3. RequestsCounted'
    <3>1. Cardinality(requests[s]) \in Nat /\ IsFiniteSet(requests[s])
      BY FS_CardinalityType DEF IInv, RequestsCounted
    <3>2. /\ IsFiniteSet(requests'[s])
          /\ Cardinality(requests'[s]) = Cardinality(requests[s]) + 1
      <4>1. /\ IsFiniteSet(requests[s] \union {NextRequest(s)})
            /\ Cardinality(requests[s] \union {NextRequest(s)}) = Cardinality(requests[s]) + 1
        BY <2>1, <3>1, FS_AddElement
      <4> QED
        BY <2>2, <4>1
    <3>3. Cardinality(requests'[s]) <= MaxPages
      BY <2>1, <3>1, <3>2, BoundsAssumption
    <3> QED
      BY <2>2, <3>2, <3>3 DEF IInv, RequestsCounted, OthersKeep
  <2>4. LinksFollowed'
    <3>1. scenario.pagination # "number" => LinkStep(s)'
      BY <1>1, <1>4, LinkPageKeeps
    <3>2. ASSUME scenario.pagination # "number", NEW q \in Sessions, q # s
          PROVE  LinkStep(q)'
      BY <1>1, <2>2, <3>2 DEF IInv, LinksFollowed, LinkStep, OthersKeep
    <3> QED
      BY <1>1, <3>1, <3>2 DEF LinksFollowed
  <2>5. NumbersFollowed'
    <3>1. scenario.pagination = "number" => NumberStep(s)'
      BY <1>1, <1>4, NumberPageKeeps
    <3>2. ASSUME scenario.pagination = "number", NEW q \in Sessions, q # s
          PROVE  NumberStep(q)'
      BY <1>1, <2>2, <3>2 DEF IInv, NumbersFollowed, NumberStep, OthersKeep
    <3> QED
      BY <1>1, <3>1, <3>2 DEF NumbersFollowed
  <2>6. AutoUndeceived'
    <3>1. scenario.pagination = "auto" => resolved' = "link"
      BY <1>1, <1>4 DEF Follows
    <3> QED
      BY <1>1, <2>2, <3>1, AutoKept
  <2>7. ExhaustedCovers' /\ CommittedIsDated'
    BY <1>1, <2>2 DEF IInv, ExhaustedCovers, CommittedIsDated, AllDated, OthersKeep
  <2> QED
    BY <2>2, <2>3, <2>4, <2>5, <2>6, <2>7 DEF IInv
<1> QED
  BY <1>2, <1>3, <1>4 DEF NextPage, RequestFails

(* A probe of AutoPagination runs only while nobody draws from it.         *)
LEMMA ProbeKeeps == ASSUME IInv, Probe PROVE IInv'
<1>1. /\ UNCHANGED <<scenario, source, phase, page, requests, delivered, repeated>>
      /\ resolved' \in {"unknown", "link", "none"}
      /\ ~scenario.interleave => \A s \in Sessions : ~Suspended(s)
  BY DEF Probe
<1>2. Types' /\ RequestsCounted' /\ CommittedIsDated'
  BY <1>1 DEF IInv, Types, RequestsCounted, CommittedIsDated, AllDated
<1>3. LinksFollowed' /\ NumbersFollowed' /\ ExhaustedCovers'
  BY <1>1 DEF IInv, LinksFollowed, LinkStep, NumbersFollowed, NumberStep, ExhaustedCovers
<1>4. AutoUndeceived'
  BY <1>1 DEF AutoUndeceived, Suspended
<1> QED
  BY <1>2, <1>3, <1>4 DEF IInv

(* One step, of a session or of a probe.                                   *)
LEMMA StepPreserves == IInv /\ [Next]_vars => IInv'
<1> SUFFICES ASSUME IInv, [Next]_vars PROVE IInv'
  OBVIOUS
<1>1. ASSUME NEW s \in Sessions, Open(s) PROVE IInv'
  BY <1>1, NothingReceived DEF Open, Phases, IInv, Types
<1>2. ASSUME NEW s \in Sessions, Commit(s) PROVE IInv'
  BY <1>2, NothingReceived DEF Commit, MayCommit, Phases, IInv, Types
<1>3. ASSUME NEW s \in Sessions, Abort(s) PROVE IInv'
  BY <1>3, NothingReceived DEF Abort, Phases, IInv, Types
<1>4. CASE UNCHANGED vars
  <2>1. UNCHANGED <<scenario, source, phase, page, requests, delivered, repeated, resolved>>
    BY <1>4 DEF vars
  <2>2. Types' /\ RequestsCounted' /\ CommittedIsDated'
    BY <2>1 DEF IInv, Types, RequestsCounted, CommittedIsDated, AllDated
  <2>3. LinksFollowed' /\ NumbersFollowed' /\ ExhaustedCovers' /\ AutoUndeceived'
    BY <2>1 DEF IInv, LinksFollowed, LinkStep, NumbersFollowed, NumberStep, ExhaustedCovers,
       AutoUndeceived, Suspended
  <2> QED
    BY <2>2, <2>3 DEF IInv
<1> QED
  BY <1>1, <1>2, <1>3, <1>4, FirstPageKeeps, NextPageKeeps, ProbeKeeps DEF Next

(* The invariant holds of every behaviour of the connector.                *)
THEOREM Invariance == Spec => []IInv
  BY InitEstablishes, StepPreserves, PTL DEF Spec

(* No page of another origin is requested or held.                         *)
THEOREM TypeCorrect == Spec => []TypeOK
<1>1. IInv => TypeOK
  BY DEF IInv, Types, TypeOK, Phases
<1> QED
  BY <1>1, Invariance, PTL

(* connectors/api_connector.py:306-327: the page loop ends, whatever the   *)
(* API answers, and follows no link twice.                                 *)
THEOREM PageLoopIsBounded == Spec => []RequestsAreBounded
<1>1. IInv => RequestsAreBounded
  BY DEF IInv, RequestsCounted, LinksFollowed, LinkStep, RequestsAreBounded
<1> QED
  BY <1>1, Invariance, PTL

(* connectors/extraction.py:149-159: a checkpoint advances over a window   *)
(* whose pages all reached the consumer, unless AutoPagination is shared   *)
(* by interleaved extractions.                                             *)
THEOREM CommittedWindowsAreComplete ==
  ASSUME AutoIsNotShared
  PROVE  Spec => []CommitCoversWindow
<1>1. IInv => CommitCoversWindow
  <2> SUFFICES ASSUME IInv, NEW s \in Sessions, phase[s] = "committed"
               PROVE  /\ delivered[s] = 1 .. source[s].last
                      /\ scenario.dates # "ignored" =>
                             delivered[s] \intersect source[s].undated = {}
    BY DEF CommitCoversWindow
  <2>1. ~(scenario.pagination = "auto" /\ scenario.interleave)
    BY DEF AutoIsNotShared, IInv, Types
  <2> QED
    BY <2>1 DEF IInv, ExhaustedCovers, CommittedIsDated, AllDated
<1> QED
  BY <1>1, Invariance, PTL
=============================================================================
