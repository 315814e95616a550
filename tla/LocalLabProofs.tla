--------------------------- MODULE LocalLabProofs ---------------------------
(***************************************************************************)
(* The workspace of the Local Lab, proved for every number of tasks, every *)
(* set of pipelines and forms and every mix of requests, runs, commands    *)
(* and flows: what the editor saves comes back, the audit file keeps whole *)
(* lines, and the warehouse is refused only by the living.                 *)
(***************************************************************************)
EXTENDS LocalLab, TLAPS

(* What saving a form writes, part by part.                                *)
SavedAuth(f) == [type |-> Text(f.auth.type), secret_key |-> f.auth.key]
SavedPagination(f) == [type |-> Text(f.pagination)]
SavedIncremental(f) ==
    [enabled |-> Flag(TRUE), mode |-> Text(f.mode), date_field |-> f.field]
SavedConnector(f) ==
    [base_url |-> f.baseUrl, select |-> Null, params |-> Map(Empty),
     auth |-> Map(SavedAuth(f)), pagination |-> Map(SavedPagination(f)),
     incremental |-> Map(SavedIncremental(f)),
     state_key |-> Null, primary_key |-> f.primaryKey, dedup |-> Flag(f.dedup)]
SavedDestination == [type |-> Text("duckdb"), path |-> Null]
SavedState == [type |-> Text("auto"), path |-> Null]
SavedTransform(f) == [type |-> Text(f.transform)]
SavedSecrets == [type |-> Text("env"), path |-> Null, allow_inline_values |-> Flag(FALSE)]
SavedRunLog(f) == [enabled |-> Flag(f.runLog)]

(* Pipeline files: a file that loads was written in whole, or is the head  *)
(* of what a form is saved as; while a save is under way, the file is      *)
(* truncated or such a head; and a form saved last is in its file.         *)
IsHeadOf(f, d) == \E k \in Sections : d \in SavedHeads[f][k]
IsHead(p, d) ==
    \E f \in Forms : f.name = p /\ IsHeadOf(f, d)
FilesInOrder ==
    /\ DOMAIN file = Pipelines /\ DOMAIN written = Pipelines
    /\ saver \in Forms \union {None} /\ saves \in Nat
    /\ submitted \in [Pipelines -> Forms \union {None}]
    /\ cuts \subseteq Sections
    /\ saver # None =>
          /\ FormIsValid(saver) /\ submitted[saver.name] = None
          /\ file[saver.name] = Empty \/ IsHeadOf(saver, file[saver.name])
    /\ \A p \in Pipelines :
          /\ LoadsFile(file[p]) =>
                /\ file[p]["name"].text = p
                /\ file[p] \in written[p] \/ IsHead(p, file[p])
          /\ submitted[p] # None =>
                file[p] = Saved(submitted[p]) /\ FormIsValid(submitted[p])

(* Tasks and what they loaded.                                             *)
Stages == {"new", "loaded", "started", "connected", "ingesting", "recording",
           "appending", "appended", "raised", "closing", "transforming",
           "ended", "killed"}
TasksInOrder ==
    /\ kind \in [Tasks -> Kinds] /\ pipeline \in [Tasks -> Pipelines]
    /\ project \in BOOLEAN /\ crashes \in Nat /\ exists \in BOOLEAN
    /\ stage \in [Tasks -> Stages]
    /\ DOMAIN config = Tasks
    /\ \A t \in Tasks : config[t] # None => config[t].name = pipeline[t]
    /\ ConfigsAreNeverMixed

(* The audit file: whoever holds its lock is writing, and only its entry   *)
(* may lack its end.                                                       *)
JournalInOrder ==
    /\ journal \in Seq([by : Tasks, half : {"head", "tail"}])
    /\ torn \subseteq Tasks /\ locked \in Tasks \union {None}
    /\ \A t \in Tasks : locked = t <=> stage[t] \in {"appending", "appended"}
    /\ \A t \in Tasks : stage[t] = "appended" =>
          Len(journal) > 0 /\ journal[Len(journal)] = Half(t, "head")
    /\ Len(journal) > 0 =>
          LET last == journal[Len(journal)] IN
          last.half = "head" /\ last.by \notin torn => stage[last.by] = "appended"
    /\ LinesAreWhole

(* The warehouse: a connection is open only while its task works on it,    *)
(* and dbt starts after it, on what was ingested and confirmed.            *)
AtWarehouse == {"connected", "ingesting", "recording", "appending", "appended",
                "raised", "closing"}
HoldsInStage(t) ==
    /\ conn[t] # "none" => stage[t] \in AtWarehouse
    /\ dbt[t] # "none" => /\ stage[t] \in {"transforming", "ended", "killed"}
                          /\ ingested[t] = "success" /\ WantsDbt(t)
    /\ verdict[t] # "none" => stage[t] = "ended"
    /\ verdict[t] = "success" =>
          ingested[t] = "success" /\ (WantsDbt(t) => dbt[t] = "success")
WarehouseTypes ==
    /\ conn \in [Tasks -> {"none", "ro", "rw"}]
    /\ refusedBy \in [Tasks -> SUBSET Tasks]
    /\ ingested \in [Tasks -> Statuses \union {"none"}]
    /\ dbt \in [Tasks -> {"none", "starting", "holding", "success", "failed"}]
    /\ verdict \in [Tasks -> {"none", "answered", "empty", "success", "failed"}]
WarehouseInOrder == WarehouseTypes /\ \A t \in Tasks : HoldsInStage(t)

IInv == FilesInOrder /\ TasksInOrder /\ JournalInOrder /\ WarehouseInOrder
-----------------------------------------------------------------------------
(* What Get and Sub see of a mapping.                                      *)
LEMMA SubOfMap ==
  ASSUME NEW m, NEW k, NEW n, Get(m, k) = Map(n)
  PROVE  Sub(m, k) = n /\ Get(m, k).kind = "map"
  BY DEF Sub, Map

(* The document that is written, from outside to inside.                   *)
LEMMA SavedRoot ==
  ASSUME NEW f
  PROVE  /\ DOMAIN Saved(f) = {"version", "name", "connector", "columns", "destination", "state",
                               "transform", "secrets", "run_log"}
         /\ Saved(f)["version"] = Num(1) /\ Saved(f)["name"] = Text(f.name)
         /\ Saved(f)["connector"] = Map(SavedConnector(f))
         /\ ColumnsIn(Saved(f)) = f.columns
         /\ Get(Saved(f), "connector") = Map(SavedConnector(f))
         /\ Get(Saved(f), "destination") = Map(SavedDestination)
         /\ Get(Saved(f), "state") = Map(SavedState)
         /\ Get(Saved(f), "transform") = Map(SavedTransform(f))
         /\ Get(Saved(f), "secrets") = Map(SavedSecrets)
         /\ Get(Saved(f), "run_log") = Map(SavedRunLog(f))
<1> DEFINE d == Saved(f)
<1>1. DOMAIN d = {"version", "name", "connector", "columns", "destination", "state",
                  "transform", "secrets", "run_log"}
  BY DEF Saved, DocumentOf
<1>2. d["version"] = Num(1) /\ d["name"] = Text(f.name)
  BY DEF Saved, DocumentOf, ConfigFromForm
<1>3. d["columns"] = f.columns
  BY DEF Saved, DocumentOf, ConfigFromForm
<1>4. d["connector"] = Map(SavedConnector(f))
  BY DEF Saved, DocumentOf, ConfigFromForm, SavedConnector, SavedAuth,
     SavedPagination,
         SavedIncremental
<1>5. d["destination"] = Map(SavedDestination)
  BY DEF Saved, DocumentOf, ConfigFromForm, SavedDestination
<1>6. d["state"] = Map(SavedState)
  BY DEF Saved, DocumentOf, ConfigFromForm, SavedState
<1>7. d["transform"] = Map(SavedTransform(f))
  BY DEF Saved, DocumentOf, ConfigFromForm, SavedTransform
<1>8. d["secrets"] = Map(SavedSecrets)
  BY DEF Saved, DocumentOf, ConfigFromForm, SavedSecrets
<1>9. d["run_log"] = Map(SavedRunLog(f))
  BY DEF Saved, DocumentOf, ConfigFromForm, SavedRunLog
<1> HIDE DEF d
<1> QED
  BY <1>1, <1>2, <1>3, <1>4, <1>5, <1>6, <1>7, <1>8, <1>9 DEF Get, ColumnsIn, d

(* The connector within it.                                              *)
LEMMA SavedConnectorParts ==
  ASSUME NEW f
  PROVE  LET c == SavedConnector(f) IN
         /\ DOMAIN c = {"base_url", "select", "params", "auth", "pagination", "incremental",
                        "state_key", "primary_key", "dedup"}
         /\ Get(c, "select") = Null /\ Get(c, "state_key") = Null
         /\ Get(c, "params") = Map(Empty) /\ Get(c, "auth") = Map(SavedAuth(f))
         /\ Get(c, "pagination") = Map(SavedPagination(f))
         /\ Get(c, "incremental") = Map(SavedIncremental(f))
         /\ Get(c, "primary_key") = f.primaryKey /\ Get(c, "dedup") = Flag(f.dedup)
  BY DEF SavedConnector, Get

(* The mappings within both.                                             *)
LEMMA SavedSubs ==
  ASSUME NEW f
  PROVE  LET d == Saved(f)
             c == SavedConnector(f)
         IN
         /\ Sub(d, "connector") = c /\ d["connector"].of = c /\ Get(d, "connector").kind = "map"
         /\ Sub(d, "destination") = SavedDestination /\ Sub(d, "state") = SavedState
         /\ Sub(d, "state_store") = Empty
         /\ Sub(d, "transform") = SavedTransform(f) /\ Sub(d, "secrets") = SavedSecrets
         /\ Sub(d, "run_log") = SavedRunLog(f)
         /\ Sub(c, "params") = Empty /\ Sub(c, "auth") = SavedAuth(f)
         /\ Sub(c, "pagination") = SavedPagination(f)
         /\ Sub(c, "incremental") = SavedIncremental(f)
<1>1. Saved(f)["connector"].of = SavedConnector(f)
  <2>1. \A n : Map(n).of = n
    BY DEF Map
  <2> QED
    BY <2>1, SavedRoot
<1>2. Sub(Saved(f), "state_store") = Empty
  <2>1. "state_store" \notin DOMAIN Saved(f)
    BY SavedRoot
  <2> QED
    BY <2>1 DEF Sub, Get, Null
<1> QED
  BY <1>1, <1>2, SavedRoot, SavedConnectorParts, SubOfMap

(* It has known keys only, with values of the kinds they may have.       *)
LEMMA SavedShape ==
  ASSUME NEW f \in Forms
  PROVE  ShapeIsValid(Saved(f))
<1> DEFINE d == Saved(f)
           c == SavedConnector(f)
<1>1. \A k \in DOMAIN ConnectorPartKeys : DOMAIN Sub(c, k) \subseteq ConnectorPartKeys[k]
  <2>1. DOMAIN ConnectorPartKeys = {"auth", "pagination", "incremental"}
    BY DEF ConnectorPartKeys
  <2>2. DOMAIN Sub(c, "auth") \subseteq ConnectorPartKeys["auth"]
    BY SavedSubs DEF ConnectorPartKeys, SavedAuth
  <2>3. DOMAIN Sub(c, "pagination") \subseteq ConnectorPartKeys["pagination"]
    BY SavedSubs DEF ConnectorPartKeys, SavedPagination
  <2>4. DOMAIN Sub(c, "incremental") \subseteq ConnectorPartKeys["incremental"]
    <3>1. DOMAIN SavedIncremental(f) = {"enabled", "mode", "date_field"}
      BY DEF SavedIncremental
    <3> QED
      BY <3>1, SavedSubs DEF ConnectorPartKeys
  <2> QED
    BY <2>1, <2>2, <2>3, <2>4
<1>2. \A k \in DOMAIN PartKeys : DOMAIN Sub(d, k) \subseteq PartKeys[k]
  <2>1. DOMAIN PartKeys =
           {"destination", "state", "state_store", "transform", "secrets", "run_log"}
    BY DEF PartKeys
  <2>2. DOMAIN Sub(d, "destination") \subseteq PartKeys["destination"]
    BY SavedSubs DEF PartKeys, SavedDestination
  <2>3. DOMAIN Sub(d, "state") \subseteq PartKeys["state"]
    BY SavedSubs DEF PartKeys, SavedState
  <2>4. DOMAIN Sub(d, "state_store") \subseteq PartKeys["state_store"]
    BY SavedSubs DEF Empty
  <2>5. DOMAIN Sub(d, "transform") \subseteq PartKeys["transform"]
    BY SavedSubs DEF PartKeys, SavedTransform
  <2>6. DOMAIN Sub(d, "secrets") \subseteq PartKeys["secrets"]
    <3>1. DOMAIN SavedSecrets = {"type", "path", "allow_inline_values"}
      BY DEF SavedSecrets
    <3> QED
      BY <3>1, SavedSubs DEF PartKeys
  <2>7. DOMAIN Sub(d, "run_log") \subseteq PartKeys["run_log"]
    BY SavedSubs DEF PartKeys, SavedRunLog
  <2> QED
    BY <2>1, <2>2, <2>3, <2>4, <2>5, <2>6, <2>7
<1>3. /\ IsKind(c, "auth", {"map"}) /\ IsKind(c, "params", {"map"})
      /\ IsKind(c, "pagination", {"bool", "text", "map"})
      /\ IsKind(c, "incremental", {"bool", "text", "map"})
  BY SavedConnectorParts DEF IsKind, Map
<1>4. DOMAIN d \subseteq RootKeys /\ StateKeyOf(d) = "state" /\ "state_store" \notin DOMAIN d
  BY SavedRoot DEF RootKeys, StateKeyOf
<1>5. /\ IsKind(d, "destination", {"map"}) /\ IsKind(d, "state", {"text", "map"})
      /\ IsKind(d, "secrets", {"map"}) /\ IsKind(d, "run_log", {"bool", "map"})
      /\ IsKind(d, "transform", {"text", "map"})
  <2>1. /\ Get(d, "destination").kind = "map" /\ Get(d, "state").kind = "map"
        /\ Get(d, "secrets").kind = "map" /\ Get(d, "run_log").kind = "map"
        /\ Get(d, "transform").kind = "map"
    BY SavedRoot, SubOfMap
  <2> QED
    BY <2>1 DEF IsKind
<1>6. DOMAIN c \subseteq ConnectorKeys
  BY SavedConnectorParts DEF ConnectorKeys
<1>7. Get(d, "connector").kind = "map" /\ d["connector"].of = c
  BY SavedSubs
<1> HIDE DEF c, d
<1>8. ColumnsIn(d).kind = "list"
  BY SavedRoot, FormsAssumption DEF d
<1>9. ShapeIsValid(d)
  BY <1>1, <1>2, <1>3, <1>4, <1>5, <1>6, <1>7, <1>8 DEF ShapeIsValid
<1> QED
  BY <1>9 DEF d

(* A checkbox is written as a strict boolean.                            *)
LEMMA FlagsAreBooleans ==
  ASSUME NEW b \in BOOLEAN, NEW default \in BOOLEAN
  PROVE  IsStrictBool(Flag(b)) /\ StrictBool(Flag(b), default) = b /\ Flag(b).kind = "bool"
<1>1. Flag(b).kind = "bool" /\ Flag(b).flag = b
  BY DEF Flag
<1>2. Flag(b) # Null
  BY <1>1 DEF Null
<1> QED
  BY <1>1, <1>2 DEF IsStrictBool, StrictBool

(* What the editor accepts and saves can be loaded.                      *)
LEMMA SavedLoads ==
  ASSUME NEW f \in Forms, FormIsValid(f)
  PROVE  Loads(Saved(f))
<1> DEFINE d == Saved(f)
           c == SavedConnector(f)
<1>1. f.dedup \in BOOLEAN /\ f.runLog \in BOOLEAN
  BY FormsAssumption
<1>2. Get(SavedSecrets, "allow_inline_values") = Flag(FALSE)
  BY DEF SavedSecrets, Get
<1>3. Get(SavedIncremental(f), "enabled") = Flag(TRUE)
  BY DEF SavedIncremental, Get
<1>4. Get(SavedRunLog(f), "enabled") = Flag(f.runLog)
  BY DEF SavedRunLog, Get
<1>5. /\ Sub(d, "secrets") = SavedSecrets /\ Sub(c, "incremental") = SavedIncremental(f)
      /\ Sub(d, "run_log") = SavedRunLog(f) /\ Sub(d, "connector") = c
      /\ Sub(c, "params") = Empty /\ Get(c, "dedup") = Flag(f.dedup)
      /\ Get(c, "primary_key") = f.primaryKey
  BY SavedSubs, SavedConnectorParts
<1>6. /\ "name" \in DOMAIN d /\ "base_url" \in DOMAIN c /\ d["version"] = Num(1)
  BY SavedConnectorParts, SavedRoot
<1>7. ShapeIsValid(d)
  BY SavedShape
<1> HIDE DEF c, d
<1>8. NoInlineSecrets(d)
  <2>1. DOMAIN Sub(Sub(d, "connector"), "params") = {}
    BY <1>5 DEF Empty
  <2> QED
    BY <2>1 DEF NoInlineSecrets
<1>9. /\ IsStrictBool(Get(Sub(d, "secrets"), "allow_inline_values"))
      /\ IsStrictBool(Get(Sub(c, "incremental"), "enabled"))
      /\ IsStrictBool(Get(c, "dedup"))
      /\ IsStrictBool(Get(Sub(d, "run_log"), "enabled"))
      /\ StrictBool(Get(c, "dedup"), FALSE) = f.dedup
  BY <1>1, <1>2, <1>3, <1>4, <1>5, FlagsAreBooleans
<1>10. IdentityIsValid(StrictBool(Get(c, "dedup"), FALSE), Get(c, "primary_key"))
  BY <1>5, <1>9 DEF FormIsValid
<1>11. Loads(d)
  BY <1>5, <1>6, <1>7, <1>8, <1>9, <1>10 DEF Loads
<1> QED
  BY <1>11 DEF d

(* An adapter is named by the type in its mapping.                       *)
LEMMA TypeInMap ==
  ASSUME NEW m, NEW k, NEW default, NEW n, Get(m, k) = Map(n),
         "type" \in DOMAIN n, NEW type, n["type"] = Text(type)
  PROVE  TypeIn(m, k, default) = type
<1>1. Sub(m, k) = n /\ Get(m, k).kind = "map"
  BY SubOfMap
<1>2. TextOf(n["type"]) = type
  BY DEF Text, TextOf
<1> QED
  BY <1>1, <1>2 DEF TypeIn

(* What is loaded again from what was saved, input by input.               *)
LEMMA SavedFormIsShown ==
  ASSUME NEW f \in Forms
  PROVE  FormOf(ConfigOf(Saved(f))) = f
<1> DEFINE d == Saved(f)
           c == SavedConnector(f)
           loaded == ConfigOf(d)
<1>1. /\ loaded.name = d["name"].text /\ loaded.baseUrl = c["base_url"]
      /\ loaded.auth = [type |-> TypeIn(c, "auth", "none"),
                        key |-> Get(Sub(c, "auth"), "secret_key")]
      /\ loaded.pagination = PaginationFrom(Get(c, "pagination"))
      /\ loaded.incremental = IncrementalFrom(Get(c, "incremental"))
      /\ loaded.primaryKey = Get(c, "primary_key")
      /\ loaded.dedup = StrictBool(Get(c, "dedup"), FALSE)
      /\ loaded.columns = ColumnsIn(d)
      /\ loaded.transform = TypeIn(d, "transform", "none")
      /\ loaded.runLog = RunLogFrom(Get(d, "run_log"))
  <2>1. Sub(d, "connector") = c
    BY SavedSubs
  <2> HIDE DEF d, c
  <2> QED
    BY <2>1 DEF ConfigOf
<1>2. f.dedup \in BOOLEAN /\ f.runLog \in BOOLEAN
  BY FormsAssumption
<1>3. /\ loaded.name = f.name /\ loaded.baseUrl = f.baseUrl
      /\ loaded.columns = f.columns /\ loaded.primaryKey = f.primaryKey
  <2>1. Text(f.name).text = f.name
    BY DEF Text
  <2>2. c["base_url"] = f.baseUrl
    BY DEF SavedConnector
  <2> HIDE DEF loaded
  <2> QED
    BY <1>1, <2>1, <2>2, SavedRoot, SavedConnectorParts
<1>4. loaded.auth = [type |-> f.auth.type, key |-> f.auth.key]
  <2>1. "type" \in DOMAIN SavedAuth(f) /\ SavedAuth(f)["type"] = Text(f.auth.type)
    BY DEF SavedAuth
  <2>2. TypeIn(c, "auth", "none") = f.auth.type
    BY <2>1, SavedConnectorParts, TypeInMap
  <2>3. Get(SavedAuth(f), "secret_key") = f.auth.key
    BY DEF SavedAuth, Get
  <2> HIDE DEF loaded
  <2> QED
    BY <1>1, <2>2, <2>3, SavedSubs
<1>5. loaded.pagination = f.pagination
  <2>1. /\ "type" \in DOMAIN SavedPagination(f)
        /\ TextOf(SavedPagination(f)["type"]) = f.pagination
    BY DEF SavedPagination, Text, TextOf
  <2>2. \A n : Map(n).kind = "map" /\ Map(n).of = n
    BY DEF Map
  <2> HIDE DEF loaded
  <2>3. Get(c, "pagination") = Map(SavedPagination(f))
    BY SavedConnectorParts
  <2>4. PaginationFrom(Map(SavedPagination(f))) = f.pagination
    BY <2>1, <2>2 DEF PaginationFrom
  <2> QED
    BY <1>1, <2>3, <2>4
<1>6. loaded.incremental.mode = f.mode /\ loaded.incremental.field = f.field
  <2> DEFINE inc == SavedIncremental(f)
  <2>1. /\ "date_field" \in DOMAIN inc /\ Get(inc, "date_field") = f.field
        /\ Get(inc, "mode") = Text(f.mode) /\ inc["mode"] = Text(f.mode)
    BY DEF SavedIncremental, Get
  <2>2. Map(inc).kind = "map" /\ Map(inc).of = inc
    BY DEF Map
  <2>3. Text(f.mode) # Null /\ Text(f.mode).text = f.mode
    <3>1. Text(f.mode).kind = "text" /\ Null.kind = "null" /\ Text(f.mode).text = f.mode
      BY DEF Text, Null
    <3> QED
      BY <3>1
  <2> HIDE DEF loaded, inc
  <2>4. /\ IncrementalFrom(Map(inc)).mode = f.mode
        /\ IncrementalFrom(Map(inc)).field = f.field
    BY <2>1, <2>2, <2>3 DEF IncrementalFrom
  <2>5. Get(c, "incremental") = Map(inc)
    BY SavedConnectorParts DEF inc
  <2> QED
    BY <1>1, <2>4, <2>5
<1>7. loaded.dedup = f.dedup
  <2> HIDE DEF loaded
  <2> QED
    BY <1>1, <1>2, SavedConnectorParts, FlagsAreBooleans
<1>8. loaded.transform = f.transform
  <2>1. "type" \in DOMAIN SavedTransform(f) /\ SavedTransform(f)["type"] = Text(f.transform)
    BY DEF SavedTransform
  <2> HIDE DEF loaded
  <2> QED
    BY <1>1, <2>1, SavedRoot, TypeInMap
<1>9. loaded.runLog = f.runLog
  <2>1. Get(SavedRunLog(f), "enabled") = Flag(f.runLog)
    BY DEF SavedRunLog, Get
  <2>2. StrictBool(Flag(f.runLog), TRUE) = f.runLog
    BY <1>2, FlagsAreBooleans
  <2>3. \A n : Map(n).kind = "map" /\ Map(n).of = n
    BY DEF Map
  <2> HIDE DEF loaded
  <2>4. RunLogFrom(Map(SavedRunLog(f))) = f.runLog
    BY <2>1, <2>2, <2>3 DEF RunLogFrom
  <2> QED
    BY <1>1, <2>4, SavedRoot
<1> HIDE DEF loaded
<1>10. FormOf(loaded) =
         [name |-> f.name, baseUrl |-> f.baseUrl,
          auth |-> [type |-> f.auth.type, key |-> f.auth.key],
          pagination |-> f.pagination, mode |-> f.mode, field |-> f.field,
          primaryKey |-> f.primaryKey, dedup |-> f.dedup, columns |-> f.columns,
          transform |-> f.transform, runLog |-> f.runLog]
  BY <1>3, <1>4, <1>5, <1>6, <1>7, <1>8, <1>9 DEF FormOf
<1>11. FormOf(loaded) = f
  BY <1>10, FormsAssumption
<1> QED
  BY <1>11 DEF loaded
-----------------------------------------------------------------------------
(* A truncated file does not load.                                         *)
LEMMA EmptyDoesNotLoad == ~LoadsFile(Empty)
<1>1. "name" \notin DOMAIN Empty
  BY DEF Empty
<1> QED
  BY <1>1 DEF LoadsFile, Loads

(* The name is written before each section.                                *)
LEMMA NameComesFirst ==
  ASSUME NEW k \in Sections
  PROVE  "name" \in UpTo(KeyOrder["root"], k) /\ k # "name"
<1> DEFINE order == KeyOrder["root"]
<1>1. order = <<"version", "name", "connector", "columns", "destination", "state",
                "transform", "secrets", "run_log">>
  BY DEF KeyOrder
<1>2. \E j \in 3 .. 9 : order[j] = k
  BY <1>1 DEF Sections
<1>3. DOMAIN order = 1 .. 9 /\ order[2] = "name"
  BY <1>1
<1> HIDE DEF order
<1>4. \E j \in DOMAIN order : 2 <= j /\ order[j] = k
  BY <1>2, <1>3
<1>5. "name" \in UpTo(order, k)
  BY <1>3, <1>4 DEF UpTo
<1> QED
  BY <1>5 DEF order, Sections

(* A document and its heads name the pipeline of the form; and what is     *)
(* written to a truncated file is all it holds.                            *)
LEMMA NameOfSaved ==
  ASSUME NEW f
  PROVE  Saved(f)["name"].text = f.name
<1>1. Text(f.name).text = f.name
  BY DEF Text
<1> QED
  BY <1>1, SavedRoot

(* Likewise of each head of it.                                            *)
LEMMA HeadsOfSaved ==
  ASSUME NEW f \in Forms, NEW k \in Sections, NEW h \in SavedHeads[f][k]
  PROVE  /\ LoadsFile(h) /\ h["name"].text = f.name
         /\ WriteOver(h, Empty) = h
<1> DEFINE reached == UpTo(KeyOrder["root"], k)
<1>1. h \in HeadsIn(Saved(f), k)
  BY DEF SavedHeads
<1>2. LoadsFile(h) /\ \E v : h = Beginning(Saved(f), KeyOrder["root"], k, v)
  BY <1>1 DEF HeadsIn
<1>3. PICK v : h = [n \in reached |-> IF n = k THEN v ELSE Saved(f)[n]]
  BY <1>2 DEF Beginning
<1>4. h["name"] = Saved(f)["name"]
  BY <1>3, NameComesFirst
<1>5. WriteOver(h, Empty) = h
  <2>1. DOMAIN h = reached /\ DOMAIN Empty = {}
    BY <1>3 DEF Empty
  <2> HIDE DEF reached
  <2>2. WriteOver(h, Empty) = [n \in reached |-> h[n]]
    BY <2>1 DEF WriteOver
  <2> QED
    BY <1>3, <2>2
<1> QED
  BY <1>2, <1>4, <1>5, NameOfSaved
-----------------------------------------------------------------------------
(* Whatever the tasks, the lab starts in order.                            *)
LEMMA InitEstablishes == Init => IInv
<1> SUFFICES ASSUME Init PROVE IInv
  OBVIOUS
<1>1. PICK s \in Scenarios : /\ file = s.file /\ kind = s.kind /\ pipeline = s.pipeline
                             /\ project = s.project
                             /\ saves = s.saves /\ cuts = s.cuts /\ crashes = s.crashes
  BY DEF Init
<1>2. /\ kind \in [Tasks -> Kinds] /\ pipeline \in [Tasks -> Pipelines]
      /\ DOMAIN file = Pipelines /\ project \in BOOLEAN
      /\ \A p \in Pipelines : Loads(file[p]) => file[p]["name"].text = p
      /\ saves \in Nat /\ cuts \subseteq Sections /\ crashes \in Nat
  BY <1>1, ScenariosAssumption
<1>3. FilesInOrder
  <2>1. /\ saver = None /\ submitted = [p \in Pipelines |-> None]
        /\ written = [p \in Pipelines |-> {file[p]}]
    BY DEF Init
  <2> QED
    BY <1>2, <2>1 DEF FilesInOrder, LoadsFile
<1>4. TasksInOrder
  <2>1. stage = [t \in Tasks |-> "new"] /\ config = [t \in Tasks |-> None] /\ exists \in BOOLEAN
    BY DEF Init
  <2> QED
    BY <1>2, <2>1 DEF TasksInOrder, ConfigsAreNeverMixed, Stages
<1>5. JournalInOrder
  <2>1. /\ stage = [t \in Tasks |-> "new"]
        /\ journal = <<>> /\ torn = {} /\ locked = None
    BY DEF Init
  <2>2. \A t \in Tasks : locked # t /\ stage[t] \notin {"appending", "appended"}
    BY <2>1, NoneAssumption
  <2>3. Len(journal) = 0 /\ journal \in Seq([by : Tasks, half : {"head", "tail"}])
    BY <2>1
  <2> QED
    BY <2>1, <2>2, <2>3 DEF JournalInOrder, LinesAreWhole
<1>6. WarehouseInOrder
  BY DEF Init, WarehouseInOrder, WarehouseTypes, HoldsInStage
<1> QED
  BY <1>3, <1>4, <1>5, <1>6 DEF IInv
-----------------------------------------------------------------------------
(* Steps of tasks, of dbt and a crash leave the files alone.               *)
LEMMA TasksLeaveFiles ==
  ASSUME NEW t \in Tasks, TaskStep(t) \/ DbtStep(t)
  PROVE  UNCHANGED <<fileVars, fixedVars, crashes>>
  BY DEF TaskStep, DbtStep, LoadConfig, Profile, StartRun, Connect,
     ConnectFails,
         NoConnection, AnswerPage, Build, DropException, Ingest, LockJournal, AppendHead,
         AppendTail, AppendFails, Close, EndTransform, DbtOpens, DbtEnds

(* Truncated, then written in one piece or more: at no point does the file *)
(* hold what was not sent, and only a save that ended counts as one.       *)
LEMMA FilesPreserved ==
  ASSUME FilesInOrder, [Next]_vars
  PROVE  FilesInOrder'
<1> USE DEF FilesInOrder, IsHead, IsHeadOf, fixedVars
<1>1. CASE UNCHANGED vars
  BY <1>1 DEF vars, fileVars
<1>2. CASE \E t \in Tasks : TaskStep(t) \/ DbtStep(t)
  <2>1. UNCHANGED <<fileVars, fixedVars>>
    BY <1>2, TasksLeaveFiles
  <2> QED
    BY <2>1 DEF fileVars
<1>3. CASE Crash \/ SaveFails
  <2>1. UNCHANGED <<file, written, submitted, saves, cuts>> /\ saver' = None
    BY <1>3 DEF Crash, SaveFails
  <2> QED
    BY <2>1
<1>4. ASSUME NEW f \in Forms, BeginSave(f) PROVE FilesInOrder'
  <2>1. /\ saver' = f /\ saves > 0 /\ saves' = saves - 1 /\ FormIsValid(f)
        /\ file' = [file EXCEPT ![f.name] = Empty]
        /\ submitted' = [submitted EXCEPT ![f.name] = None]
        /\ UNCHANGED <<written, cuts>>
    BY <1>4 DEF BeginSave, Truncated
  <2>2. f.name \in Pipelines
    BY FormsAssumption
  <2>3. saves' \in Nat
    BY <2>1
  <2>4. submitted'[f.name] = None /\ submitted' \in [Pipelines -> Forms \union {None}]
    BY <2>1, <2>2
  <2>5. DOMAIN file' = Pipelines /\ file'[f.name] = Empty
    BY <2>1, <2>2
  <2>6. ASSUME NEW p \in Pipelines, p # f.name
        PROVE  file'[p] = file[p] /\ submitted'[p] = submitted[p]
    BY <2>1, <2>6
  <2> QED
    BY <2>1, <2>2, <2>3, <2>4, <2>5, <2>6, EmptyDoesNotLoad
<1>5. CASE WriteHead
  <2> PICK k \in cuts : \E h \in SavedHeads[saver][k] :
           file' = [file EXCEPT ![saver.name] = WriteOver(h, @)]
    BY <1>5 DEF WriteHead, Target
  <2>1. PICK h \in SavedHeads[saver][k] :
           file' = [file EXCEPT ![saver.name] = WriteOver(h, @)]
    OBVIOUS
  <2>2. /\ saver # None /\ ~IsHeadOf(saver, file[saver.name])
        /\ UNCHANGED <<written, submitted, saver, saves, cuts>>
    BY <1>5 DEF WriteHead, Target
  <2>3. saver \in Forms /\ saver.name \in Pipelines /\ k \in Sections
    BY <2>2, FormsAssumption
  <2>4. file[saver.name] = Empty
    BY <2>2
  <2>5. file'[saver.name] = h
    BY <2>1, <2>3, <2>4, HeadsOfSaved
  <2>6. h["name"].text = saver.name /\ IsHeadOf(saver, h) /\ submitted[saver.name] = None
    BY <2>2, <2>3, HeadsOfSaved
  <2>7. ASSUME NEW p \in Pipelines, p # saver.name
        PROVE  file'[p] = file[p]
    BY <2>1, <2>7
  <2>8. DOMAIN file' = Pipelines
    BY <2>1
  <2> QED
    BY <2>2, <2>3, <2>5, <2>6, <2>7, <2>8
<1>6. CASE EndSave
  <2>1. /\ saver # None
        /\ file' = [file EXCEPT ![saver.name] = Saved(saver)]
        /\ written' = [written EXCEPT ![saver.name] = @ \union {Saved(saver)}]
        /\ submitted' = [submitted EXCEPT ![saver.name] = saver]
        /\ saver' = None /\ UNCHANGED <<saves, cuts>>
    BY <1>6 DEF EndSave, Target
  <2>2. saver \in Forms /\ saver.name \in Pipelines /\ FormIsValid(saver)
    BY <2>1, FormsAssumption
  <2>3. /\ file'[saver.name] = Saved(saver) /\ Saved(saver) \in written'[saver.name]
        /\ submitted'[saver.name] = saver
    BY <2>1, <2>2
  <2>4. Saved(saver)["name"].text = saver.name
    BY NameOfSaved
  <2>5. ASSUME NEW p \in Pipelines, p # saver.name
        PROVE  /\ file'[p] = file[p] /\ written'[p] = written[p]
               /\ submitted'[p] = submitted[p]
    BY <2>1, <2>5
  <2>6. /\ DOMAIN file' = Pipelines /\ DOMAIN written' = Pipelines
        /\ submitted' \in [Pipelines -> Forms \union {None}]
    BY <2>1, <2>2
  <2> QED
    BY <2>1, <2>2, <2>3, <2>4, <2>5, <2>6
<1> QED
  BY <1>1, <1>2, <1>3, <1>4, <1>5, <1>6 DEF Next, Save

(* What a file held in whole, it held; editing it later changes nothing.   *)
LEMMA WrittenGrows ==
  ASSUME FilesInOrder, [Next]_vars, NEW p \in Pipelines
  PROVE  written[p] \subseteq written'[p]
<1>1. CASE EndSave
  BY <1>1 DEF EndSave, FilesInOrder
<1>2. CASE \E t \in Tasks : TaskStep(t) \/ DbtStep(t)
  BY <1>2, TasksLeaveFiles DEF fileVars
<1>3. CASE UNCHANGED vars
  BY <1>3 DEF vars, fileVars
<1> QED
  BY <1>1, <1>2, <1>3 DEF Next, Save, WriteHead, SaveFails, BeginSave, Crash
-----------------------------------------------------------------------------
(* Only LoadConfig loads, and nothing ever changes what a task was asked.  *)
LEMMA ConfigIsLoadedOnce ==
  ASSUME [Next]_vars
  PROVE  /\ UNCHANGED fixedVars
         /\ UNCHANGED config \/ \E t \in Tasks : LoadConfig(t)
<1>1. CASE \E t \in Tasks : TaskStep(t) \/ DbtStep(t)
  <2>1. UNCHANGED fixedVars
    BY <1>1, TasksLeaveFiles
  <2>2. UNCHANGED config \/ \E t \in Tasks : LoadConfig(t)
    BY <1>1 DEF TaskStep, DbtStep, Profile, StartRun, Connect, ConnectFails,
       NoConnection, AnswerPage, Build, DropException, Ingest, LockJournal, AppendHead,
       AppendTail, AppendFails, Close, EndTransform, DbtOpens, DbtEnds, taskVars
  <2> QED
    BY <2>1, <2>2
<1>2. CASE (\E f \in Forms : BeginSave(f)) \/ Save
  BY <1>2 DEF BeginSave, Save, WriteHead, EndSave, SaveFails, taskVars
<1>3. CASE Crash
  BY <1>3 DEF Crash
<1>4. CASE UNCHANGED vars
  BY <1>4 DEF vars, taskVars
<1> QED
  BY <1>1, <1>2, <1>3, <1>4 DEF Next

(* What a task has come to, in a step of its own.                          *)
LEMMA StageInStages ==
  ASSUME stage \in [Tasks -> Stages], [Next]_vars
  PROVE  stage' \in [Tasks -> Stages]
<1>1. ASSUME NEW t \in Tasks, TaskStep(t) PROVE stage' \in [Tasks -> Stages]
  <2>1. \E b \in Stages : stage' = [stage EXCEPT ![t] = b]
    BY <1>1 DEF TaskStep, LoadConfig, Profile, StartRun, Connect, ConnectFails,
       NoConnection, AnswerPage, Build, DropException, Ingest, LockJournal, AppendHead,
       AppendTail, AppendFails, Close, EndTransform, Moves, Ends, Stages
  <2> QED
    BY <2>1
<1>2. CASE Crash
  BY <1>2 DEF Crash, Stages
<1>3. CASE UNCHANGED stage
  BY <1>3
<1> QED
  BY <1>1, <1>2, <1>3 DEF Next, Save, BeginSave, WriteHead, EndSave, SaveFails,
     DbtStep,
     DbtOpens, DbtEnds, vars

(* A task loads what its file holds in whole or the head of it, and keeps  *)
(* it.                                                                     *)
LEMMA TasksPreserved ==
  ASSUME FilesInOrder, TasksInOrder, [Next]_vars
  PROVE  TasksInOrder'
<1>1. UNCHANGED fixedVars
  BY ConfigIsLoadedOnce
<1>2. stage' \in [Tasks -> Stages]
  BY StageInStages DEF TasksInOrder
<1>3. crashes' \in Nat /\ exists' \in BOOLEAN
  <2> USE DEF TasksInOrder
  <2>1. CASE \E t \in Tasks : TaskStep(t) \/ DbtStep(t)
    <3>1. UNCHANGED crashes
      BY <2>1, TasksLeaveFiles
    <3>2. exists' \in BOOLEAN
      BY <2>1 DEF TaskStep, DbtStep, LoadConfig, Profile, StartRun, Connect,
         ConnectFails,
         NoConnection, AnswerPage, Build, DropException, Ingest, LockJournal, AppendHead,
         AppendTail, AppendFails, Close, EndTransform, DbtOpens, DbtEnds, taskVars
    <3> QED
      BY <3>1, <3>2
  <2>2. CASE (\E f \in Forms : BeginSave(f)) \/ Save
    BY <2>2 DEF BeginSave, Save, WriteHead, EndSave, SaveFails, taskVars
  <2>3. CASE Crash
    <3>1. crashes > 0 /\ crashes' = crashes - 1 /\ UNCHANGED exists
      BY <2>3 DEF Crash
    <3> QED
      BY <3>1
  <2>4. CASE UNCHANGED vars
    BY <2>4 DEF vars, taskVars
  <2> QED
    BY <2>1, <2>2, <2>3, <2>4 DEF Next
<1>4. ASSUME NEW t \in Tasks, config[t] # None
      PROVE  (WasWhole(t) \/ WasCut(t)) /\ config[t].name = pipeline[t]
  BY <1>4 DEF TasksInOrder, ConfigsAreNeverMixed
<1>5. ASSUME NEW t \in Tasks, config'[t] = config[t], config[t] # None
      PROVE  (WasWhole(t) \/ WasCut(t))' /\ config'[t].name = pipeline'[t]
  <2>1. pipeline'[t] = pipeline[t] /\ pipeline[t] \in Pipelines
    BY <1>1 DEF fixedVars, TasksInOrder
  <2>2. CASE WasWhole(t)
    <3>1. written[pipeline[t]] \subseteq written'[pipeline[t]]
      BY <2>1, WrittenGrows
    <3> QED
      BY <1>4, <1>5, <2>1, <2>2, <3>1 DEF WasWhole
  <2>3. CASE WasCut(t)
    BY <1>4, <1>5, <2>1, <2>3 DEF WasCut
  <2> QED
    BY <1>4, <1>5, <2>2, <2>3
<1>6. ASSUME NEW t \in Tasks, LoadConfig(t), config'[t] # config[t]
      PROVE  (WasWhole(t) \/ WasCut(t))' /\ config'[t].name = pipeline'[t]
  <2> DEFINE p == pipeline[t]
             d == file[p]
  <2>1. LoadsFile(d) /\ config'[t] = ConfigOf(d) /\ UNCHANGED <<file, written>>
    BY <1>6 DEF LoadConfig, fileVars, TasksInOrder
  <2>2. p \in Pipelines /\ pipeline'[t] = p
    BY <1>1 DEF fixedVars, TasksInOrder
  <2>3. d["name"].text = p /\ (d \in written[p] \/ IsHead(p, d))
    BY <2>1, <2>2 DEF FilesInOrder
  <2>4. ConfigOf(d).name = d["name"].text
    <3> HIDE DEF d
    <3> QED
      BY DEF ConfigOf
  <2>5. (WasWhole(t) \/ WasCut(t))'
    <3>1. CASE d \in written[p]
      BY <2>1, <2>2, <3>1 DEF WasWhole
    <3>2. CASE IsHead(p, d)
      <4>1. ConfigOf(d) \in CutConfigs
        BY <3>2 DEF CutConfigs, IsHead, IsHeadOf
      <4> QED
        BY <2>1, <2>2, <2>3, <2>4, <4>1 DEF WasCut
    <3> QED
      BY <2>3, <3>1, <3>2
  <2> QED
    BY <2>1, <2>2, <2>3, <2>4, <2>5
<1>7. DOMAIN config' = Tasks
  BY ConfigIsLoadedOnce DEF LoadConfig, TasksInOrder
<1>8. ASSUME NEW t \in Tasks, config'[t] # None
      PROVE  (WasWhole(t) \/ WasCut(t))' /\ config'[t].name = pipeline'[t]
  <2>1. CASE config'[t] = config[t]
    BY <1>5, <1>8, <2>1
  <2>2. CASE config'[t] # config[t]
    <3>1. PICK u \in Tasks : LoadConfig(u)
      BY <2>2, ConfigIsLoadedOnce
    <3>2. u = t
      BY <2>2, <3>1 DEF LoadConfig, TasksInOrder
    <3> QED
      BY <1>6, <2>2, <3>1, <3>2
  <2> QED
    BY <2>1, <2>2
<1> QED
  BY <1>1, <1>2, <1>3, <1>7, <1>8 DEF TasksInOrder, ConfigsAreNeverMixed,
     fixedVars
-----------------------------------------------------------------------------
(* The steps of a task that do not touch the audit file.                   *)
Writing == {"appending", "appended"}
QuietStep(t) ==
    \/ LoadConfig(t) \/ Profile(t) \/ StartRun(t)
    \/ Connect(t) \/ ConnectFails(t) \/ NoConnection(t) \/ AnswerPage(t)
    \/ Build(t) \/ DropException(t) \/ Ingest(t) \/ Close(t) \/ EndTransform(t)

(* They leave its halves of lines and its lock alone and lead nobody       *)
(* there.                                                                  *)
LEMMA QuietStepsDoNotWrite ==
  ASSUME TasksInOrder, NEW t \in Tasks, QuietStep(t)
  PROVE  /\ UNCHANGED journalVars
         /\ stage[t] \notin Writing
         /\ \E b \in Stages \ Writing : stage' = [stage EXCEPT ![t] = b]
<1> USE DEF Writing, Stages, Moves, Ends
<1>1. CASE LoadConfig(t)
  BY <1>1 DEF LoadConfig
<1>2. CASE Profile(t)
  BY <1>2 DEF Profile
<1>3. CASE StartRun(t)
  BY <1>3 DEF StartRun
<1>4. ASSUME ReadyToConnect(t) PROVE stage[t] \in {"new", "started", "loaded"}
  BY <1>4 DEF ReadyToConnect
<1>5. CASE Connect(t)
  BY <1>4, <1>5 DEF Connect
<1>6. CASE ConnectFails(t)
  BY <1>4, <1>6 DEF ConnectFails
<1>7. CASE NoConnection(t)
  BY <1>4, <1>7 DEF NoConnection
<1>8. CASE AnswerPage(t)
  BY <1>8 DEF AnswerPage
<1>9. CASE Build(t)
  BY <1>9 DEF Build
<1>10. CASE DropException(t)
  BY <1>10 DEF DropException
<1>11. CASE Ingest(t)
  BY <1>11 DEF Ingest
<1>12. CASE Close(t)
  BY <1>12 DEF Close
<1>13. CASE EndTransform(t)
  BY <1>13 DEF EndTransform
<1> QED
  BY <1>1, <1>2, <1>3, <1>5, <1>6, <1>7, <1>8, <1>9, <1>10, <1>11, <1>12,
     <1>13 DEF QuietStep

(* An element of a sequence, and what Append adds to it.                   *)
LEMMA ElementOf ==
  ASSUME NEW S, NEW q \in Seq(S), Len(q) > 0
  PROVE  q[Len(q)] \in S
  OBVIOUS

(* Append keeps what was there and puts the element at the end.            *)
LEMMA AppendKeeps ==
  ASSUME NEW S, NEW q \in Seq(S), NEW e \in S
  PROVE  /\ Append(q, e) \in Seq(S)
         /\ Len(Append(q, e)) = Len(q) + 1 /\ Len(q) \in Nat
         /\ Append(q, e)[Len(q) + 1] = e
         /\ \A i \in 1 .. Len(q) : Append(q, e)[i] = q[i]
  OBVIOUS

(* Nor do they change anything about it.                                   *)
LEMMA QuietKeepsJournal ==
  ASSUME TasksInOrder, JournalInOrder, UNCHANGED journalVars,
         NEW t \in Tasks, NEW b \in Stages \ Writing, stage[t] \notin Writing,
         stage' = [stage EXCEPT ![t] = b]
  PROVE  JournalInOrder'
<1>1. \A o \in Tasks : /\ stage'[o] \in Writing <=> stage[o] \in Writing
                       /\ stage'[o] = "appended" <=> stage[o] = "appended"
  BY DEF TasksInOrder, Writing
<1>2. journal' = journal /\ torn' = torn /\ locked' = locked
  BY DEF journalVars
<1>3. LinesAreWhole'
  BY <1>2 DEF JournalInOrder, LinesAreWhole
<1>4. ASSUME Len(journal) > 0
      PROVE  journal[Len(journal)] \in [by : Tasks, half : {"head", "tail"}]
  BY <1>4, ElementOf DEF JournalInOrder
<1>5. \A o \in Tasks : locked' = o <=> stage'[o] \in {"appending", "appended"}
  BY <1>1, <1>2 DEF JournalInOrder, Writing
<1>6. \A o \in Tasks : stage'[o] = "appended" =>
          Len(journal') > 0 /\ journal'[Len(journal')] = Half(o, "head")
  BY <1>1, <1>2 DEF JournalInOrder
<1>7. ASSUME Len(journal') > 0, journal'[Len(journal')].half = "head",
             journal'[Len(journal')].by \notin torn'
      PROVE  stage'[journal'[Len(journal')].by] = "appended"
  <2>1. stage[journal[Len(journal)].by] = "appended"
    BY <1>2, <1>7 DEF JournalInOrder
  <2>2. journal[Len(journal)].by \in Tasks
    BY <1>2, <1>4, <1>7
  <2> QED
    BY <1>1, <1>2, <2>1, <2>2
<1>8. /\ journal' \in Seq([by : Tasks, half : {"head", "tail"}])
      /\ torn' \subseteq Tasks /\ locked' \in Tasks \union {None}
  BY <1>2 DEF JournalInOrder
<1> QED
  BY <1>3, <1>5, <1>6, <1>7, <1>8 DEF JournalInOrder, Half
-----------------------------------------------------------------------------
(* Who writes holds the lock, so that nobody else does; while nobody is    *)
(* within an entry, the last one is at its end or torn.                    *)
LEMMA OneWriter ==
  ASSUME JournalInOrder
  PROVE  /\ \A t, o \in Tasks : stage[t] \in Writing /\ stage[o] \in Writing => o = t
         /\ \A t \in Tasks : stage[t] \in Writing => locked = t
         /\ (\A t \in Tasks : stage[t] # "appended") =>
               (Len(journal) > 0 => \/ journal[Len(journal)].half # "head"
                                    \/ journal[Len(journal)].by \in torn)
<1>1. \A t \in Tasks : stage[t] \in Writing => locked = t
  BY DEF JournalInOrder, Writing
<1>2. ASSUME Len(journal) > 0 PROVE journal[Len(journal)].by \in Tasks
  <2>1. journal[Len(journal)] \in [by : Tasks, half : {"head", "tail"}]
    BY <1>2, ElementOf DEF JournalInOrder
  <2> QED
    BY <2>1
<1> QED
  BY <1>1, <1>2 DEF JournalInOrder

(* An entry is begun under the lock, ended by who began it, or torn.       *)
LEMMA JournalPreserved ==
  ASSUME TasksInOrder, JournalInOrder, [Next]_vars
  PROVE  JournalInOrder'
<1> DEFINE Entries == [by : Tasks, half : {"head", "tail"}]
           n == Len(journal)
<1>1. /\ journal \in Seq(Entries) /\ torn \subseteq Tasks
      /\ locked \in Tasks \union {None} /\ stage \in [Tasks -> Stages]
      /\ \A o \in Tasks : locked = o <=> stage[o] \in Writing
  BY DEF JournalInOrder, TasksInOrder, Writing
<1>2. /\ n \in Nat
      /\ \A o \in Tasks : stage[o] = "appended" => n > 0 /\ journal[n] = Half(o, "head")
      /\ n > 0 /\ journal[n].half = "head" /\ journal[n].by \notin torn
            => stage[journal[n].by] = "appended"
      /\ n > 0 => journal[n].by \in Tasks
  <2>1. n > 0 => journal[n] \in Entries
    BY <1>1, ElementOf
  <2> QED
    BY <1>1, <2>1 DEF JournalInOrder
<1>3. \A i \in 1 .. n - 1 : journal[i].half = "head" /\ journal[i].by \notin torn
                              => journal[i + 1] = Half(journal[i].by, "tail")
  BY DEF JournalInOrder, LinesAreWhole
<1>4. ASSUME NEW t \in Tasks, LockJournal(t) PROVE JournalInOrder'
  <2>1. /\ locked = None /\ locked' = t /\ UNCHANGED <<journal, torn>>
        /\ stage' = [stage EXCEPT ![t] = "appending"]
    BY <1>4 DEF LockJournal, MayRecord, Moves
  <2>2. \A o \in Tasks : stage[o] \notin Writing
    BY <1>1, <2>1, NoneAssumption
  <2>3. \A o \in Tasks : stage'[o] \in Writing <=> o = t
    BY <1>1, <2>1, <2>2 DEF Writing
  <2>4. \A o \in Tasks : stage'[o] # "appended"
    BY <1>1, <2>1, <2>2 DEF Writing
  <2>5. n > 0 => journal[n].half # "head" \/ journal[n].by \in torn
    BY <1>2, <2>2 DEF Writing
  <2>6. LinesAreWhole'
    BY <1>3, <2>1 DEF LinesAreWhole
  <2> QED
    BY <1>1, <2>1, <2>3, <2>4, <2>5, <2>6 DEF JournalInOrder, Writing
<1>5. ASSUME NEW t \in Tasks, AppendHead(t) PROVE JournalInOrder'
  <2>1. /\ stage[t] = "appending" /\ stage' = [stage EXCEPT ![t] = "appended"]
        /\ journal' = Append(journal, Half(t, "head")) /\ UNCHANGED <<torn, locked>>
    BY <1>5 DEF AppendHead, Moves
  <2>2. locked = t /\ \A o \in Tasks : stage[o] \in Writing => o = t
    BY <1>1, <2>1, OneWriter DEF Writing
  <2>3. \A o \in Tasks : (stage'[o] \in Writing <=> o = t) /\ (stage'[o] = "appended" => o = t)
    BY <1>1, <2>1, <2>2 DEF Writing
  <2>4. n > 0 => journal[n].half # "head" \/ journal[n].by \in torn
    BY <1>2, <2>1, <2>2 DEF Writing
  <2>5. Half(t, "head") \in Entries
    BY DEF Half
  <2>6. /\ journal' \in Seq(Entries) /\ Len(journal') = n + 1
        /\ journal'[n + 1] = Half(t, "head") /\ \A i \in 1 .. n : journal'[i] = journal[i]
    <3> HIDE DEF Entries
    <3> QED
      BY <1>1, <2>1, <2>5, AppendKeeps
  <2>7. ASSUME NEW i \in 1 .. n, journal'[i].half = "head", journal'[i].by \notin torn
        PROVE  journal'[i + 1] = Half(journal'[i].by, "tail")
    <3>1. i # n
      BY <1>2, <2>4, <2>6, <2>7
    <3>2. i \in 1 .. n - 1 /\ i + 1 \in 1 .. n
      BY <1>2, <3>1
    <3> QED
      BY <1>3, <2>6, <2>7, <3>2
  <2>8. LinesAreWhole'
    <3>1. Len(journal') - 1 = n
      BY <1>2, <2>6
    <3> HIDE DEF n
    <3> QED
      BY <2>1, <2>7, <3>1 DEF LinesAreWhole
  <2>9. Half(t, "head").by = t /\ stage'[t] = "appended"
    BY <1>1, <2>1 DEF Half
  <2>10. LET last == journal'[Len(journal')] IN
         last.half = "head" /\ last.by \notin torn' => stage'[last.by] = "appended"
    BY <2>6, <2>9
  <2>11. Len(journal') > 0 /\ journal'[Len(journal')] = Half(t, "head")
    BY <1>2, <2>6
  <2> HIDE DEF n
  <2> QED
    BY <1>1, <2>1, <2>2, <2>3, <2>6, <2>8, <2>10, <2>11 DEF JournalInOrder,
       Writing
<1>6. ASSUME NEW t \in Tasks, AppendTail(t) PROVE JournalInOrder'
  <2>1. /\ stage[t] = "appended" /\ stage' = [stage EXCEPT ![t] = "closing"]
        /\ journal' = Append(journal, Half(t, "tail")) /\ UNCHANGED torn /\ locked' = None
    BY <1>6 DEF AppendTail, Moves, Unlocked
  <2>2. \A o \in Tasks : stage[o] \in Writing => o = t
    BY <2>1, OneWriter DEF Writing
  <2>3. \A o \in Tasks : stage'[o] \notin Writing
    BY <1>1, <2>1, <2>2 DEF Writing
  <2>4. n > 0 /\ journal[n] = Half(t, "head")
    BY <1>2, <2>1
  <2>5. Half(t, "tail") \in Entries /\ Half(t, "head").by = t /\ Half(t, "tail").half = "tail"
    BY DEF Half
  <2>6. /\ journal' \in Seq(Entries) /\ Len(journal') = n + 1
        /\ journal'[n + 1] = Half(t, "tail") /\ \A i \in 1 .. n : journal'[i] = journal[i]
    <3> HIDE DEF Entries
    <3> QED
      BY <1>1, <2>1, <2>5, AppendKeeps
  <2>7. ASSUME NEW i \in 1 .. n, journal'[i].half = "head", journal'[i].by \notin torn
        PROVE  journal'[i + 1] = Half(journal'[i].by, "tail")
    <3>1. CASE i = n
      BY <2>4, <2>5, <2>6, <3>1
    <3>2. CASE i # n
      <4>1. i \in 1 .. n - 1 /\ i + 1 \in 1 .. n
        BY <1>2, <3>2
      <4> QED
        BY <1>3, <2>6, <2>7, <4>1
    <3> QED
      BY <3>1, <3>2
  <2>8. LinesAreWhole'
    <3>1. Len(journal') - 1 = n
      BY <1>2, <2>6
    <3> HIDE DEF n
    <3> QED
      BY <2>1, <2>7, <3>1 DEF LinesAreWhole
  <2>9. journal'[Len(journal')].half = "tail"
    BY <2>5, <2>6
  <2>10. \A o \in Tasks : locked' # o
    BY <2>1, NoneAssumption
  <2> HIDE DEF n
  <2> QED
    BY <1>1, <2>1, <2>3, <2>6, <2>8, <2>9, <2>10 DEF JournalInOrder, Writing
<1>7. ASSUME NEW t \in Tasks, AppendFails(t) PROVE JournalInOrder'
  <2>1. /\ stage[t] \in Writing /\ stage' = [stage EXCEPT ![t] = "closing"]
        /\ torn \subseteq torn' /\ torn' \subseteq Tasks
        /\ stage[t] = "appended" => t \in torn'
        /\ UNCHANGED journal /\ locked' = None
    BY <1>1, <1>7 DEF AppendFails, Moves, Unlocked, Writing
  <2>2. \A o \in Tasks : stage[o] \in Writing => o = t
    BY <2>1, OneWriter
  <2>3. \A o \in Tasks : stage'[o] \notin Writing /\ locked' # o
    BY <1>1, <2>1, <2>2, NoneAssumption DEF Writing
  <2>4. n > 0 => journal[n].half # "head" \/ journal[n].by \in torn'
    BY <1>2, <2>1, <2>2 DEF Writing
  <2>5. LinesAreWhole'
    BY <1>3, <2>1 DEF LinesAreWhole
  <2> QED
    BY <1>1, <2>1, <2>3, <2>4, <2>5 DEF JournalInOrder, Writing
<1>8. CASE Crash
  <2>1. /\ stage' = [t \in Tasks |-> IF t \in Dying THEN "killed" ELSE stage[t]]
        /\ torn' = torn \union {t \in Dying : stage[t] = "appended"}
        /\ locked' = IF locked \in Dying THEN None ELSE locked
        /\ UNCHANGED journal
    BY <1>8 DEF Crash
  <2>2. Dying \subseteq Tasks
    BY DEF Dying
  <2>3. \A o \in Tasks : /\ stage'[o] \in Writing <=> stage[o] \in Writing /\ o \notin Dying
                         /\ stage'[o] = "appended" <=> stage[o] = "appended" /\ o \notin Dying
    BY <2>1 DEF Writing
  <2>4. \A o \in Tasks : locked' = o <=> stage'[o] \in Writing
    BY <1>1, <2>1, <2>2, <2>3, NoneAssumption
  <2>5. torn' \subseteq Tasks /\ locked' \in Tasks \union {None}
    BY <1>1, <2>1, <2>2
  <2>6. n > 0 /\ journal[n].half = "head" /\ journal[n].by \notin torn'
            => stage'[journal[n].by] = "appended"
    BY <1>2, <2>1, <2>3
  <2>7. LinesAreWhole'
    BY <1>3, <2>1 DEF LinesAreWhole
  <2>8. \A o \in Tasks : stage'[o] = "appended" => n > 0 /\ journal[n] = Half(o, "head")
    BY <1>2, <2>3
  <2> QED
    BY <1>1, <2>1, <2>4, <2>5, <2>6, <2>7, <2>8 DEF JournalInOrder, Writing
<1>9. CASE UNCHANGED <<journalVars, stage>>
  BY <1>9 DEF JournalInOrder, LinesAreWhole, journalVars, Half
<1>10. ASSUME NEW t \in Tasks, TaskStep(t) PROVE JournalInOrder'
  <2>1. CASE QuietStep(t)
    BY <2>1, QuietStepsDoNotWrite, QuietKeepsJournal
  <2> QED
    BY <1>4, <1>5, <1>6, <1>7, <1>10, <2>1 DEF TaskStep, QuietStep
<1>11. ASSUME NEW t \in Tasks, DbtStep(t) PROVE JournalInOrder'
  BY <1>9, <1>11 DEF DbtStep, DbtOpens, DbtEnds
<1>12. CASE (\E f \in Forms : BeginSave(f)) \/ Save
  BY <1>9, <1>12 DEF BeginSave, Save, WriteHead, EndSave, SaveFails
<1>13. CASE UNCHANGED vars
  BY <1>9, <1>13 DEF vars
<1> QED
  BY <1>8, <1>10, <1>11, <1>12, <1>13 DEF Next
-----------------------------------------------------------------------------
(* A step of one task or of its dbt is a step of no other.                 *)
LEMMA OthersStandStill ==
  ASSUME NEW t \in Tasks, TaskStep(t) \/ DbtStep(t), NEW o \in Tasks, o # t
  PROVE  /\ DOMAIN stage = Tasks => stage'[o] = stage[o]
         /\ DOMAIN config = Tasks => config'[o] = config[o]
         /\ WarehouseTypes =>
               /\ conn'[o] = conn[o] /\ ingested'[o] = ingested[o]
               /\ dbt'[o] = dbt[o] /\ verdict'[o] = verdict[o]
<1> USE DEF Moves, Ends, taskVars, WarehouseTypes
<1>1. CASE LoadConfig(t) \/ Profile(t) \/ StartRun(t)
  BY <1>1 DEF LoadConfig, Profile, StartRun
<1>2. CASE Connect(t) \/ ConnectFails(t) \/ NoConnection(t) \/ AnswerPage(t)
  BY <1>2 DEF Connect, ConnectFails, NoConnection, AnswerPage
<1>3. CASE Build(t) \/ DropException(t) \/ Ingest(t)
  BY <1>3 DEF Build, DropException, Ingest
<1>4. CASE LockJournal(t) \/ AppendHead(t) \/ AppendTail(t) \/ AppendFails(t)
  BY <1>4 DEF LockJournal, AppendHead, AppendTail, AppendFails
<1>5. CASE Close(t) \/ EndTransform(t)
  BY <1>5 DEF Close, EndTransform
<1>6. CASE DbtOpens(t) \/ DbtEnds(t)
  BY <1>6 DEF DbtOpens, DbtEnds
<1> QED
  BY <1>1, <1>2, <1>3, <1>4, <1>5, <1>6 DEF TaskStep, DbtStep

(* What a connection, a dbt process or an answer may be.                   *)
LEMMA WarehouseTypesPreserved ==
  ASSUME WarehouseTypes, [Next]_vars
  PROVE  WarehouseTypes'
<1> USE DEF WarehouseTypes, Moves, Ends
<1>1. ASSUME NEW t \in Tasks, TaskStep(t) PROVE WarehouseTypes'
  <2>1. CASE LoadConfig(t) \/ Profile(t) \/ StartRun(t)
    BY <2>1 DEF LoadConfig, Profile, StartRun
  <2>2. CASE Connect(t)
    BY <2>2 DEF Connect, Mode
  <2>3. CASE ConnectFails(t)
    <3>1. Blockers(t, Mode(t)) \in SUBSET Tasks
      BY DEF Blockers, Housemates, Holders, DbtHolders
    <3> QED
      BY <2>3, <3>1 DEF ConnectFails
  <2>4. CASE AnswerPage(t) \/ DropException(t)
    BY <2>4 DEF AnswerPage, DropException
  <2>5. CASE Ingest(t)
    BY <2>5 DEF Ingest, Statuses
  <2>6. CASE Close(t)
    BY <2>6 DEF Close, ClosedConnection
  <2>7. CASE EndTransform(t)
    BY <2>7 DEF EndTransform
  <2>8. CASE \/ NoConnection(t) \/ Build(t) \/ LockJournal(t) \/ AppendHead(t)
             \/ AppendTail(t) \/ AppendFails(t)
    BY <2>8 DEF NoConnection, Build, LockJournal, AppendHead, AppendTail,
       AppendFails, taskVars
  <2> QED
    BY <1>1, <2>1, <2>2, <2>3, <2>4, <2>5, <2>6, <2>7, <2>8 DEF TaskStep
<1>2. ASSUME NEW t \in Tasks, DbtStep(t) PROVE WarehouseTypes'
  <2>1. Holders \union DbtHolders \in SUBSET Tasks
    BY DEF Holders, DbtHolders
  <2> QED
    BY <1>2, <2>1 DEF DbtStep, DbtOpens, DbtEnds
<1>3. CASE Crash
  BY <1>3 DEF Crash
<1>4. CASE (\E f \in Forms : BeginSave(f)) \/ Save
  BY <1>4 DEF BeginSave, Save, WriteHead, EndSave, SaveFails, taskVars
<1>5. CASE UNCHANGED vars
  BY <1>5 DEF vars, taskVars
<1> QED
  BY <1>1, <1>2, <1>3, <1>4, <1>5 DEF Next

(* A task connects to work, closes before its dbt starts, and answers last.*)
LEMMA WarehousePreserved ==
  ASSUME TasksInOrder, WarehouseInOrder, [Next]_vars
  PROVE  WarehouseInOrder'
<1>1. WarehouseTypes /\ WarehouseTypes'
  BY WarehouseTypesPreserved DEF WarehouseInOrder
<1>2. stage \in [Tasks -> Stages] /\ DOMAIN config = Tasks
  BY DEF TasksInOrder
<1>3. UNCHANGED <<kind, pipeline, project>>
  BY ConfigIsLoadedOnce DEF fixedVars
<1>4. \A t \in Tasks : HoldsInStage(t)
  BY DEF WarehouseInOrder
<1>5. ASSUME NEW t \in Tasks, TaskStep(t) \/ DbtStep(t), NEW o \in Tasks, o # t
      PROVE  HoldsInStage(o)'
  BY <1>1, <1>2, <1>3, <1>4, <1>5, OthersStandStill DEF HoldsInStage, WantsDbt
<1>6. ASSUME NEW t \in Tasks, TaskStep(t) PROVE HoldsInStage(t)'
  <2> DEFINE Before == {"new", "loaded", "started"}
  <2>1. HoldsInStage(t)
    BY <1>4
  <2>2. stage[t] \notin {"transforming", "ended", "killed"} => dbt[t] = "none"
    BY <2>1 DEF HoldsInStage
  <2>3. stage[t] # "ended" => verdict[t] = "none"
    BY <2>1 DEF HoldsInStage
  <2>4. stage[t] \notin AtWarehouse => conn[t] = "none"
    BY <2>1 DEF HoldsInStage
  <2> USE DEF Moves, Ends, AtWarehouse
  <2>5. CASE LoadConfig(t) \/ Profile(t) \/ StartRun(t)
    <3>1. /\ stage[t] \in {"new", "loaded"} /\ UNCHANGED <<conn, dbt, ingested>>
          /\ \/ stage'[t] \in {"loaded", "started"} /\ UNCHANGED verdict
             \/ stage'[t] = "ended" /\ verdict'[t] \in {"failed", "answered"}
      BY <1>1, <1>2, <2>5 DEF LoadConfig, Profile, StartRun, WarehouseTypes
    <3> QED
      BY <2>2, <2>3, <2>4, <3>1 DEF HoldsInStage
  <2>6. ASSUME ReadyToConnect(t) PROVE stage[t] \in Before
    BY <2>6 DEF ReadyToConnect
  <2>7. CASE Connect(t) \/ NoConnection(t)
    <3>1. /\ stage[t] \in Before /\ stage'[t] = "connected"
          /\ UNCHANGED <<dbt, ingested, verdict>>
      BY <1>2, <2>6, <2>7 DEF Connect, NoConnection, taskVars
    <3> QED
      BY <2>2, <2>3, <3>1 DEF HoldsInStage
  <2>8. CASE ConnectFails(t)
    <3>1. /\ stage[t] \in Before /\ stage'[t] = "ended"
          /\ verdict'[t] \in {"empty", "failed"} /\ UNCHANGED <<conn, dbt, ingested>>
      BY <1>1, <1>2, <2>6, <2>8 DEF ConnectFails, WarehouseTypes
    <3> QED
      BY <2>2, <2>4, <3>1 DEF HoldsInStage
  <2>9. CASE AnswerPage(t) \/ DropException(t)
    <3>1. /\ stage[t] \in {"connected", "raised"} /\ stage'[t] = "ended"
          /\ verdict'[t] \in {"answered", "failed"} /\ conn'[t] = "none"
          /\ UNCHANGED <<dbt, ingested>>
      BY <1>1, <1>2, <2>9 DEF AnswerPage, DropException, WarehouseTypes
    <3> QED
      BY <2>2, <3>1 DEF HoldsInStage
  <2>10. CASE \/ Build(t) \/ Ingest(t) \/ LockJournal(t) \/ AppendHead(t)
              \/ AppendTail(t) \/ AppendFails(t)
    <3>1. /\ stage[t] \in AtWarehouse /\ stage'[t] \in AtWarehouse
          /\ UNCHANGED <<dbt, verdict>>
      BY <1>2, <2>10 DEF Build, Ingest, LockJournal, AppendHead, AppendTail,
         AppendFails,
         taskVars
    <3> QED
      BY <2>2, <2>3, <3>1 DEF HoldsInStage
  <2>11. CASE Close(t)
    <3>1. /\ stage[t] = "closing" /\ conn'[t] = "none" /\ UNCHANGED <<config, ingested>>
          /\ \/ /\ ingested[t] = "success" /\ WantsDbt(t)
                /\ stage'[t] = "transforming" /\ UNCHANGED verdict
             \/ /\ stage'[t] = "ended" /\ UNCHANGED dbt
                /\ verdict'[t] \in {"success", "failed"}
                /\ verdict'[t] = "success" => ingested[t] = "success" /\ ~WantsDbt(t)
      BY <1>1, <1>2, <2>11 DEF Close, ClosedConnection, Confirmed,
         WarehouseTypes
    <3>2. WantsDbt(t)' <=> WantsDbt(t)
      BY <1>3, <3>1 DEF WantsDbt
    <3> QED
      BY <2>2, <2>3, <3>1, <3>2 DEF HoldsInStage
  <2>12. CASE EndTransform(t)
    <3>1. /\ stage[t] = "transforming" /\ stage'[t] = "ended" /\ verdict'[t] = dbt[t]
          /\ dbt[t] \in {"success", "failed"} /\ UNCHANGED <<config, conn, dbt, ingested>>
      BY <1>1, <1>2, <2>12 DEF EndTransform, WarehouseTypes
    <3>2. WantsDbt(t)' <=> WantsDbt(t)
      BY <1>3, <3>1 DEF WantsDbt
    <3> QED
      BY <2>1, <2>4, <3>1, <3>2 DEF HoldsInStage
  <2> QED
    BY <1>6, <2>5, <2>7, <2>8, <2>9, <2>10, <2>11, <2>12 DEF TaskStep
<1>7. ASSUME NEW t \in Tasks, DbtStep(t) PROVE HoldsInStage(t)'
  <2>1. /\ UNCHANGED <<stage, conn, config, ingested, verdict>>
        /\ dbt[t] \in {"starting", "holding"}
    BY <1>7 DEF DbtStep, DbtOpens, DbtEnds
  <2> QED
    BY <1>3, <1>4, <2>1 DEF HoldsInStage, WantsDbt
<1>8. CASE Crash
  <2>1. /\ stage' = [t \in Tasks |-> IF t \in Dying THEN "killed" ELSE stage[t]]
        /\ conn' = [t \in Tasks |-> IF t \in Dying THEN "none" ELSE conn[t]]
        /\ UNCHANGED <<config, ingested, dbt, verdict>>
    BY <1>8 DEF Crash
  <2>2. ASSUME NEW t \in Tasks PROVE HoldsInStage(t)'
    <3>1. CASE t \in Dying
      <4>1. stage[t] # "ended" /\ stage'[t] = "killed" /\ conn'[t] = "none"
        BY <2>1, <3>1 DEF Dying
      <4> QED
        BY <1>3, <1>4, <2>1, <4>1 DEF HoldsInStage, WantsDbt
    <3>2. CASE t \notin Dying
      BY <1>3, <1>4, <2>1, <3>2 DEF HoldsInStage, WantsDbt
    <3> QED
      BY <3>1, <3>2
  <2> QED
    BY <1>1, <2>2 DEF WarehouseInOrder
<1>9. CASE UNCHANGED <<taskVars, stage>>
  BY <1>1, <1>3, <1>4, <1>9 DEF WarehouseInOrder, HoldsInStage, WantsDbt,
     taskVars
<1>10. CASE (\E f \in Forms : BeginSave(f)) \/ Save
  BY <1>9, <1>10 DEF BeginSave, Save, WriteHead, EndSave, SaveFails
<1>11. CASE UNCHANGED vars
  BY <1>9, <1>11 DEF vars
<1>12. CASE \E t \in Tasks : TaskStep(t) \/ DbtStep(t)
  BY <1>1, <1>5, <1>6, <1>7, <1>12 DEF WarehouseInOrder
<1> QED
  BY <1>8, <1>10, <1>11, <1>12 DEF Next
-----------------------------------------------------------------------------
(* All of it holds at every moment.                                        *)
LEMMA StepPreserves == IInv /\ [Next]_vars => IInv'
<1> SUFFICES ASSUME IInv, [Next]_vars PROVE IInv'
  OBVIOUS
<1> QED
  BY FilesPreserved, TasksPreserved, JournalPreserved, WarehousePreserved
  DEF IInv

(* The inductive invariant of the workspace.                               *)
THEOREM Invariance == Spec => []IInv
  BY InitEstablishes, StepPreserves, PTL DEF Spec

(* Every variable keeps to its type, and what a task loaded bears the name *)
(* of its pipeline.                                                        *)
THEOREM TypeCorrect == Spec => []TypeOK
<1>1. IInv => TypeOK
  BY DEF IInv, FilesInOrder, TasksInOrder, JournalInOrder, WarehouseInOrder,
     WarehouseTypes,
     Stages, TypeOK
<1> QED
  BY <1>1, Invariance, PTL

(* save_pipeline and load_pipeline_config: whichever form was saved last,  *)
(* and whatever its pipeline held before, the file loads, unless it is     *)
(* larger than 1 MiB, and the edit page shows the form again, input by     *)
(* input.                                                                  *)
THEOREM SavedFormsAreShownAgain == Spec => []SavedFormsComeBack
<1>1. ASSUME IInv PROVE SavedFormsComeBack
  <2> SUFFICES ASSUME NEW p \in Pipelines, submitted[p] # None, ~TooLarge(file[p])
               PROVE  LoadsFile(file[p]) /\ FormOf(ConfigOf(file[p])) = submitted[p]
    BY DEF SavedFormsComeBack
  <2>1. /\ submitted[p] \in Forms /\ FormIsValid(submitted[p])
        /\ file[p] = Saved(submitted[p])
    BY <1>1 DEF IInv, FilesInOrder
  <2> QED
    BY <2>1, SavedLoads, SavedFormIsShown DEF LoadsFile
<1> QED
  BY <1>1, Invariance, PTL

(* load_pipeline_config reads without a lock what save_pipeline writes: a  *)
(* task gets a document that was whole at some time, or the head of one    *)
(* form, wherever it stops; never one form mixed with another, nor with    *)
(* what the file held before.                                              *)
THEOREM NoMixedConfigs == Spec => []ConfigsAreNeverMixed
<1>1. IInv => ConfigsAreNeverMixed
  BY DEF IInv, TasksInOrder
<1> QED
  BY <1>1, Invariance, PTL

(* trigger_run and ManagedFlow.run: dbt runs only on what was ingested and *)
(* confirmed, and success is reported only with both.                      *)
THEOREM TransformsComeSecond == Spec => []TransformsFollowCheckpoints
<1>1. IInv => TransformsFollowCheckpoints
  BY DEF IInv, WarehouseInOrder, HoldsInStage, TransformsFollowCheckpoints
<1> QED
  BY <1>1, Invariance, PTL

(* JsonLinesRunLogStore.record: two processes never write into each        *)
(* other's line, whoever dies or fails in the middle of his own.           *)
THEOREM LinesStayWhole == Spec => []LinesAreWhole
<1>1. IInv => LinesAreWhole
  BY DEF IInv, JournalInOrder
<1> QED
  BY <1>1, Invariance, PTL

(* DuckDB's lock, as connect and dbt meet it: who stands in the way is     *)
(* still at work, and never the task itself.                               *)
THEOREM RefusalsAreByTheLiving == Spec => RefusedByTheLiving
<1> DEFINE Refused == \A t, o \in Tasks : o \in refusedBy'[t] \ refusedBy[t] =>
                          o # t /\ (~Over(o) \/ dbt[o] = "holding")
<1>1. ASSUME IInv, [Next]_vars PROVE Refused \/ UNCHANGED vars
  <2> SUFFICES ASSUME NEW t \in Tasks, NEW o \in Tasks, o \in refusedBy'[t] \ refusedBy[t]
               PROVE  o # t /\ (~Over(o) \/ dbt[o] = "holding")
    OBVIOUS
  <2>1. WarehouseTypes /\ \A u \in Tasks : HoldsInStage(u)
    BY <1>1 DEF IInv, WarehouseInOrder
  <2>2. ASSUME o \in Holders \union DbtHolders PROVE ~Over(o) \/ dbt[o] = "holding"
    <3>1. CASE conn[o] # "none"
      BY <2>1, <3>1 DEF HoldsInStage, AtWarehouse, Over
    <3>2. CASE dbt[o] = "holding"
      BY <3>2
    <3> QED
      BY <2>2, <3>1, <3>2 DEF Holders, DbtHolders
  <2>3. \/ ConnectFails(t) /\ refusedBy'[t] = Blockers(t, Mode(t))
        \/ DbtOpens(t) /\ refusedBy'[t] = Holders \union DbtHolders
    <3>1. CASE \E u \in Tasks : ConnectFails(u)
      <4>1. PICK u \in Tasks : ConnectFails(u)
        BY <3>1
      <4>2. refusedBy' = [refusedBy EXCEPT ![u] = Blockers(u, Mode(u))]
        BY <4>1 DEF ConnectFails
      <4>3. t = u
        BY <2>1, <4>2 DEF WarehouseTypes
      <4> QED
        BY <2>1, <4>1, <4>2, <4>3 DEF WarehouseTypes
    <3>2. CASE \E u \in Tasks : DbtOpens(u)
      <4>1. PICK u \in Tasks : DbtOpens(u)
        BY <3>2
      <4>2. refusedBy' = [refusedBy EXCEPT ![u] = Holders \union DbtHolders]
        BY <4>1 DEF DbtOpens
      <4>3. t = u
        BY <2>1, <4>2 DEF WarehouseTypes
      <4> QED
        BY <2>1, <4>1, <4>2, <4>3 DEF WarehouseTypes
    <3>3. refusedBy' = refusedBy \/ \E u \in Tasks : ConnectFails(u) \/ DbtOpens(u)
      <4>1. ASSUME NEW u \in Tasks, TaskStep(u) \/ DbtStep(u)
            PROVE  refusedBy' = refusedBy \/ ConnectFails(u) \/ DbtOpens(u)
        BY <4>1 DEF TaskStep, DbtStep, LoadConfig, Profile, StartRun, Connect,
           NoConnection, AnswerPage, Build, DropException, Ingest, LockJournal, AppendHead,
           AppendTail, AppendFails, Close, EndTransform, DbtEnds, taskVars
      <4>2. ASSUME (\E f \in Forms : BeginSave(f)) \/ Save \/ Crash \/ UNCHANGED vars
            PROVE  refusedBy' = refusedBy
        BY <4>2 DEF BeginSave, Save, WriteHead, EndSave, SaveFails, Crash,
           taskVars, vars
      <4> QED
        BY <1>1, <4>1, <4>2 DEF Next
    <3> QED
      BY <3>1, <3>2, <3>3
  <2>4. CASE ConnectFails(t) /\ refusedBy'[t] = Blockers(t, Mode(t))
    <3>1. stage[t] \in {"new", "started", "loaded"}
      BY <2>4 DEF ConnectFails, ReadyToConnect
    <3>2. conn[t] = "none" /\ dbt[t] # "holding"
      BY <2>1, <3>1 DEF HoldsInStage, AtWarehouse
    <3>3. o \in Holders \union DbtHolders
      BY <2>4 DEF Blockers, Housemates
    <3> QED
      BY <2>2, <3>2, <3>3 DEF Holders, DbtHolders
  <2>5. CASE DbtOpens(t) /\ refusedBy'[t] = Holders \union DbtHolders
    <3>1. dbt[t] = "starting"
      BY <2>5 DEF DbtOpens
    <3>2. conn[t] = "none"
      BY <2>1, <3>1 DEF HoldsInStage, AtWarehouse
    <3> QED
      BY <2>2, <2>5, <3>1, <3>2 DEF Holders, DbtHolders
  <2> QED
    BY <2>3, <2>4, <2>5
<1>2. IInv /\ [Next]_vars => [Refused]_vars
  BY <1>1
<1>3. Spec => [][Refused]_vars
  BY <1>2, Invariance, PTL DEF Spec
<1> QED
  BY <1>3 DEF RefusedByTheLiving
=============================================================================
