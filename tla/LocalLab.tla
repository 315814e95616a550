------------------------------ MODULE LocalLab ------------------------------
(***************************************************************************)
(* The workspace of the Local Lab at work: pipeline files, one DuckDB      *)
(* warehouse and one JSON Lines audit file, shared by                      *)
(*   dashboard, detail, data, preview   pages (ui/app.py)                  *)
(*   profile   the profile page, which opens no warehouse                  *)
(*   run       trigger_run and the thread of RunManager it starts          *)
(*   cli       engineer_kit run-config (cli.py), in its own process        *)
(*   flow      ManagedFlow.run with dbt (orchestration/flow.py), likewise  *)
(* and by the editor, which rewrites pipeline files, and the processes of  *)
(* dbt.  Slots, history and logs of the runs are in RunManager, what an    *)
(* ingestion does to Bronze and checkpoint in Ingestion.                   *)
(***************************************************************************)
EXTENDS PipelineConfig, FiniteSets, Sequences

CONSTANTS
    Tasks,        \* requests and calls
    Pipelines,    \* pipeline names, each the name of its file
    Scenarios,    \* what to consider: the kind and the pipeline of each task,
                  \* what the files hold at the start, whether there is a dbt
                  \* project, and three bounds: saves, the sections in which
                  \* a save may stop, and crashes of the process of the
                  \* Local Lab
    Forms,        \* forms the editor may send
    None          \* no task, no form, no configuration

Pages == {"dashboard", "detail", "data", "preview"}
Kinds == Pages \union {"profile", "run", "cli", "flow"}
Sections == {"connector", "columns", "destination", "state", "transform",
             "secrets", "run_log"}

(* A document that loads is named as its file, as saving it would.         *)
ASSUME ScenariosAssumption == \A s \in Scenarios :
    /\ s.kind \in [Tasks -> Kinds] /\ s.pipeline \in [Tasks -> Pipelines]
    /\ DOMAIN s.file = Pipelines /\ s.project \in BOOLEAN
    /\ \A p \in Pipelines : Loads(s.file[p]) => s.file[p]["name"].text = p
    /\ s.cuts \subseteq Sections /\ {s.saves, s.crashes} \subseteq Nat

(* A form has the inputs of the edit page; a checkbox is set or not.       *)
ASSUME FormsAssumption == \A f \in Forms :
    /\ f = [name |-> f.name, baseUrl |-> f.baseUrl,
            auth |-> [type |-> f.auth.type, key |-> f.auth.key],
            pagination |-> f.pagination, mode |-> f.mode, field |-> f.field,
            primaryKey |-> f.primaryKey, dedup |-> f.dedup, columns |-> f.columns,
            transform |-> f.transform, runLog |-> f.runLog]
    /\ f.name \in Pipelines /\ {f.dedup, f.runLog} \subseteq BOOLEAN
    /\ f.columns.kind = "list"
ASSUME NoneAssumption == None \notin Tasks

VARIABLES
    file,       \* pipeline -> the document in its file
    written,    \* history: pipeline -> the documents its file held in whole
    submitted,  \* history: pipeline -> the form saved last, if in whole
    saver,      \* the form whose save is under way
    saves,      \* saves that may follow
    cuts,       \* sections in which a save may stop, fixed at the start
    crashes,    \* crashes that may follow
    kind,       \* task -> its kind, fixed at the start
    pipeline,   \* task -> its pipeline, fixed at the start
    project,    \* is there a dbt project? fixed at the start
    stage,      \* task -> where it stands
    config,     \* task -> the configuration it loaded
    conn,       \* task -> its connection to the warehouse
    refusedBy,  \* history: task -> who held the warehouse it could not open
    ingested,   \* task -> status of its ingestion
    dbt,        \* task -> its dbt process
    verdict,    \* task -> what it answered
    exists,     \* is there a warehouse file?
    journal,    \* the audit file: the halves of lines, in order
    torn,       \* history: tasks that wrote the first half only
    locked      \* who holds the lock of the audit file

fileVars == <<file, written, submitted, saver, saves>>
journalVars == <<journal, torn, locked>>
taskVars == <<config, conn, refusedBy, ingested, dbt, verdict, exists>>
fixedVars == <<kind, pipeline, project, cuts>>
vars == <<fileVars, journalVars, taskVars, fixedVars, stage, crashes>>

Init ==
    /\ \E s \in Scenarios :
          /\ file = s.file /\ kind = s.kind /\ pipeline = s.pipeline
          /\ project = s.project
          /\ saves = s.saves /\ cuts = s.cuts /\ crashes = s.crashes
    /\ written = [p \in Pipelines |-> {file[p]}]
    /\ submitted = [p \in Pipelines |-> None]
    /\ saver = None
    /\ stage = [t \in Tasks |-> "new"]
    /\ config = [t \in Tasks |-> None]
    /\ conn = [t \in Tasks |-> "none"]
    /\ refusedBy = [t \in Tasks |-> {}]
    /\ ingested = [t \in Tasks |-> "none"]
    /\ dbt = [t \in Tasks |-> "none"]
    /\ verdict = [t \in Tasks |-> "none"]
    /\ exists \in BOOLEAN
    /\ journal = <<>> /\ torn = {} /\ locked = None
-----------------------------------------------------------------------------
(* save_pipeline, on the event loop, so one at a time: write_text          *)
(* truncates the file and writes it.  A reader may come in between, and    *)
(* find, or be left with, any head of the document.                        *)
Saved(f) == DocumentOf(ConfigFromForm(f))
SavedHeads == [f \in Forms |-> [k \in Sections |-> HeadsIn(Saved(f), k)]]

Target == saver.name

Untruncated(d) == d
Truncated(d) == Empty

BeginSave(f) ==
    /\ saver = None /\ saves > 0
    /\ FormIsValid(f)
    /\ saver' = f /\ saves' = saves - 1
    /\ file' = [file EXCEPT ![f.name] = Truncated(@)]
    /\ submitted' = [submitted EXCEPT ![f.name] = None]
    /\ UNCHANGED <<written, journalVars, taskVars, fixedVars, stage, crashes>>

(* Behind what is written stays what was there.                            *)
WriteOver(h, old) ==
    [k \in DOMAIN h \union DOMAIN old |-> IF k \in DOMAIN h THEN h[k] ELSE old[k]]

WriteHead ==
    /\ saver # None
    /\ \A k \in Sections : file[Target] \notin SavedHeads[saver][k]
    /\ \E k \in cuts : \E h \in SavedHeads[saver][k] :
          file' = [file EXCEPT ![Target] = WriteOver(h, @)]
    /\ UNCHANGED <<written, submitted, saver, saves, journalVars, taskVars,
                   fixedVars, stage, crashes>>

EndSave ==
    /\ saver # None
    /\ file' = [file EXCEPT ![Target] = Saved(saver)]
    /\ written' = [written EXCEPT ![Target] = @ \union {Saved(saver)}]
    /\ submitted' = [submitted EXCEPT ![Target] = saver]
    /\ saver' = None
    /\ UNCHANGED <<saves, journalVars, taskVars, fixedVars, stage, crashes>>

(* The disk is full, or chmod raises: what has been written stays.         *)
SaveFails ==
    /\ saver # None
    /\ saver' = None
    /\ UNCHANGED <<file, written, submitted, saves, journalVars, taskVars,
                   fixedVars, stage, crashes>>

Save == WriteHead \/ EndSave \/ SaveFails
-----------------------------------------------------------------------------
InLab(t) == kind[t] \in Pages \union {"profile", "run"}
SameProcess(o, t) == o = t \/ (InLab(o) /\ InLab(t))
Over(t) == stage[t] \in {"ended", "killed"}

Moves(t, from, to) == stage[t] = from /\ stage' = [stage EXCEPT ![t] = to]
Ends(t, v) ==
    /\ stage' = [stage EXCEPT ![t] = "ended"]
    /\ verdict' = [verdict EXCEPT ![t] = v]

(* _load_or_404 and run-config: the file is read at once, as it is.  The   *)
(* profile page loads on the event loop, never in the middle of a save.    *)
LoadConfig(t) ==
    /\ stage[t] = "new" /\ kind[t] \in {"detail", "profile", "run", "cli"}
    /\ kind[t] = "profile" => saver = None
    /\ LET d == file[pipeline[t]] IN
        IF LoadsFile(d)
        THEN /\ Moves(t, "new", "loaded")
             /\ config' = [config EXCEPT ![t] = ConfigOf(d)]
             /\ UNCHANGED verdict
        ELSE Ends(t, "failed") /\ UNCHANGED config
    /\ UNCHANGED <<conn, refusedBy, ingested, dbt, exists, fileVars, journalVars,
                   fixedVars, crashes>>

(* profile_run: connector_from_config and the profile itself, which is the *)
(* subject of RestStream.                                                  *)
Profile(t) ==
    /\ stage[t] = "loaded" /\ kind[t] = "profile"
    /\ Ends(t, IF ConnectorBuilds(config[t]) THEN "answered" ELSE "failed")
    /\ UNCHANGED <<config, conn, refusedBy, ingested, dbt, exists, fileVars,
                   journalVars, fixedVars, crashes>>

(* start_run: a pipeline that is already running is refused.               *)
AtWork(t) == kind[t] = "run" /\ stage[t] \notin {"new", "loaded", "ended", "killed"}

StartRun(t) ==
    /\ stage[t] = "loaded" /\ kind[t] = "run"
    /\ IF \E o \in Tasks : AtWork(o) /\ config[o].name = config[t].name
       THEN Ends(t, "failed")
       ELSE Moves(t, "loaded", "started") /\ UNCHANGED verdict
    /\ UNCHANGED <<config, conn, refusedBy, ingested, dbt, exists, fileVars,
                   journalVars, fixedVars, crashes>>
-----------------------------------------------------------------------------
(* DuckDB: within a process all connections have one configuration, and a  *)
(* file that is open for writing is open in one process only.              *)
Holders == {o \in Tasks : conn[o] # "none"}
Housemates(t) == {o \in Holders : SameProcess(o, t)}
DbtHolders == {o \in Tasks : dbt[o] = "holding"}

Blockers(t, mode) ==
    IF Housemates(t) # {} THEN {o \in Housemates(t) : conn[o] # mode}
    ELSE {o \in Holders : "rw" \in {mode, conn[o]}} \union DbtHolders

(* IOException, which most pages expect, or ConnectionException.           *)
Conflict(t) == Housemates(t) # {}

Mode(t) == IF kind[t] \in Pages THEN "ro" ELSE "rw"
ReadyToConnect(t) ==
    CASE kind[t] \in {"dashboard", "data", "preview", "flow"} -> stage[t] = "new"
      [] kind[t] = "run" -> stage[t] = "started"
      [] kind[t] \in {"detail", "cli"} -> stage[t] = "loaded"
      [] OTHER -> FALSE
UsesWarehouse(t) ==
    kind[t] \in {"run", "cli"} => config[t].destination = "duckdb"

Connect(t) ==
    /\ ReadyToConnect(t) /\ UsesWarehouse(t)
    /\ Blockers(t, Mode(t)) = {}
    /\ exists \/ Mode(t) = "rw"
    /\ conn' = [conn EXCEPT ![t] = Mode(t)]
    /\ exists' = TRUE
    /\ stage' = [stage EXCEPT ![t] = "connected"]
    /\ UNCHANGED <<config, refusedBy, ingested, dbt, verdict, fileVars,
                   journalVars, fixedVars, crashes>>

ConnectFails(t) ==
    /\ ReadyToConnect(t) /\ UsesWarehouse(t)
    /\ Blockers(t, Mode(t)) # {} \/ (~exists /\ Mode(t) = "ro")
    /\ refusedBy' = [refusedBy EXCEPT ![t] = Blockers(t, Mode(t))]
    /\ Ends(t, IF kind[t] \in Pages \ {"preview"} /\ ~Conflict(t)
               THEN "empty" ELSE "failed")
    /\ UNCHANGED <<config, conn, ingested, dbt, exists, fileVars, journalVars,
                   fixedVars, crashes>>

NoConnection(t) ==
    /\ ReadyToConnect(t) /\ ~UsesWarehouse(t)
    /\ stage' = [stage EXCEPT ![t] = "connected"]
    /\ UNCHANGED <<taskVars, fileVars, journalVars, fixedVars, crashes>>

(* Pages query and close; a preview fails if there is no such table.       *)
AnswerPage(t) ==
    /\ stage[t] = "connected" /\ kind[t] \in Pages
    /\ conn' = [conn EXCEPT ![t] = "none"]
    /\ \/ Ends(t, "answered")
       \/ kind[t] = "preview" /\ Ends(t, "failed")
    /\ UNCHANGED <<config, refusedBy, ingested, dbt, exists, fileVars,
                   journalVars, fixedVars, crashes>>
-----------------------------------------------------------------------------
(* build_pipeline, or ManagedFlow._resolve: what the latter raises keeps   *)
(* the connection it has just opened until the caller drops it.            *)
MayBuild(t) == kind[t] # "flow" => Builds(config[t])
MayNotBuild(t) ==
    kind[t] # "flow" /\ Builds(config[t]) => NeedsSecret(config[t])

Build(t) ==
    /\ stage[t] = "connected" /\ kind[t] \notin Pages
    /\ \/ MayBuild(t) /\ Moves(t, "connected", "ingesting")
       \/ /\ MayNotBuild(t)
          /\ Moves(t, "connected", IF kind[t] = "flow" THEN "raised" ELSE "closing")
    /\ UNCHANGED <<taskVars, fileVars, journalVars, fixedVars, crashes>>

DropException(t) ==
    /\ stage[t] = "raised"
    /\ conn' = [conn EXCEPT ![t] = "none"]
    /\ Ends(t, "failed")
    /\ UNCHANGED <<config, refusedBy, ingested, dbt, exists, fileVars,
                   journalVars, fixedVars, crashes>>

(* Pipeline.run, up to _record_run_safely.  An entry of the table in the   *)
(* warehouse is one statement; here only the audit file has steps.         *)
AuditsToFile(t) ==
    kind[t] # "flow" /\ config[t].runLog /\ config[t].destination = "parquet"

Ingest(t) ==
    /\ Moves(t, "ingesting", IF AuditsToFile(t) THEN "recording" ELSE "closing")
    /\ \E s \in {"success", "error", "checkpoint_error"} :
          ingested' = [ingested EXCEPT ![t] = s]
    /\ UNCHANGED <<config, conn, refusedBy, dbt, verdict, exists, fileVars,
                   journalVars, fixedVars, crashes>>

(* JsonLinesRunLogStore.record: an exclusive lock on a file of its own     *)
(* around a write that may take two; what it raises is swallowed.          *)
AnyTime(t) == TRUE
MayRecord(t) == locked = None

LockJournal(t) ==
    /\ MayRecord(t)
    /\ Moves(t, "recording", "appending")
    /\ locked' = t
    /\ UNCHANGED <<journal, torn, taskVars, fileVars, fixedVars, crashes>>

KeptLock(t) == t
Unlocked(t) == None

Anonymous(t, h) == [by |-> None, half |-> h]
Half(t, h) == [by |-> t, half |-> h]
AppendHead(t) ==
    /\ Moves(t, "appending", "appended")
    /\ journal' = Append(journal, Half(t, "head"))
    /\ UNCHANGED <<torn, locked, taskVars, fileVars, fixedVars, crashes>>

AppendTail(t) ==
    /\ Moves(t, "appended", "closing")
    /\ journal' = Append(journal, Half(t, "tail"))
    /\ locked' = Unlocked(t)
    /\ UNCHANGED <<torn, taskVars, fileVars, fixedVars, crashes>>

AppendFails(t) ==
    /\ \/ Moves(t, "appending", "closing") /\ UNCHANGED torn
       \/ Moves(t, "appended", "closing") /\ torn' = torn \union {t}
    /\ locked' = Unlocked(t)
    /\ UNCHANGED <<journal, taskVars, fileVars, fixedVars, crashes>>
-----------------------------------------------------------------------------
(* PipelineResult.success                                                  *)
LoadedSuffices(s) == s \in {"success", "checkpoint_error"}
Confirmed(s) == s = "success"

(* run-config runs no transformation.                                      *)
WantsDbt(t) ==
    kind[t] = "flow" \/ (kind[t] = "run" /\ config[t].transform = "dbt")
CanTransform(t) ==
    project /\ (kind[t] = "run" => config[t].destination = "duckdb")

(* The connection is closed before dbt starts, which a run of Parquet and  *)
(* a missing project keep from starting.                                   *)
KeptConnection(t) == conn[t]
ClosedConnection(t) == "none"

Close(t) ==
    /\ stage[t] = "closing"
    /\ conn' = [conn EXCEPT ![t] = ClosedConnection(t)]
    /\ IF Confirmed(ingested[t]) /\ WantsDbt(t) /\ CanTransform(t)
       THEN /\ Moves(t, "closing", "transforming")
            /\ dbt' = [dbt EXCEPT ![t] = "starting"]
            /\ UNCHANGED verdict
       ELSE /\ Ends(t, IF Confirmed(ingested[t]) /\ ~WantsDbt(t)
                       THEN "success" ELSE "failed")
            /\ UNCHANGED dbt
    /\ UNCHANGED <<config, refusedBy, ingested, exists, fileVars, journalVars,
                   fixedVars, crashes>>

(* The process of dbt: it needs the warehouse for itself, and it fails or  *)
(* is ended by its timeout.                                                *)
DbtOpens(t) ==
    /\ dbt[t] = "starting"
    /\ LET others == Holders \union DbtHolders IN
        /\ dbt' = [dbt EXCEPT ![t] = IF others = {} THEN "holding" ELSE "failed"]
        /\ refusedBy' = [refusedBy EXCEPT ![t] = others]
    /\ UNCHANGED <<config, conn, ingested, verdict, exists, fileVars,
                   journalVars, fixedVars, stage, crashes>>

DbtEnds(t) ==
    /\ \/ dbt[t] = "starting" /\ dbt' = [dbt EXCEPT ![t] = "failed"]
       \/ dbt[t] = "holding" /\ \E r \in {"success", "failed"} :
                                    dbt' = [dbt EXCEPT ![t] = r]
    /\ UNCHANGED <<config, conn, refusedBy, ingested, verdict, exists, fileVars,
                   journalVars, fixedVars, stage, crashes>>

(* DbtResult, and with it the status of the run or flow.                   *)
EndTransform(t) ==
    /\ stage[t] = "transforming" /\ dbt[t] \in {"success", "failed"}
    /\ Ends(t, dbt[t])
    /\ UNCHANGED <<config, conn, refusedBy, ingested, dbt, exists, fileVars,
                   journalVars, fixedVars, crashes>>
-----------------------------------------------------------------------------
(* The process of the Local Lab dies, and is started again.  The system    *)
(* closes its connections and locks; a process of dbt goes on.             *)
Dying == {t \in Tasks : InLab(t) /\ stage[t] \notin {"new", "ended", "killed"}}

Crash ==
    /\ crashes > 0
    /\ Dying # {} \/ saver # None
    /\ crashes' = crashes - 1
    /\ stage' = [t \in Tasks |-> IF t \in Dying THEN "killed" ELSE stage[t]]
    /\ conn' = [t \in Tasks |-> IF t \in Dying THEN "none" ELSE conn[t]]
    /\ torn' = torn \union {t \in Dying : stage[t] = "appended"}
    /\ locked' = IF locked \in Dying THEN None ELSE locked
    /\ saver' = None
    /\ UNCHANGED <<file, written, submitted, saves, config, refusedBy, ingested,
                   dbt, verdict, exists, journal, fixedVars>>

TaskStep(t) ==
    \/ LoadConfig(t) \/ Profile(t) \/ StartRun(t)
    \/ Connect(t) \/ ConnectFails(t) \/ NoConnection(t) \/ AnswerPage(t)
    \/ Build(t) \/ DropException(t) \/ Ingest(t)
    \/ LockJournal(t) \/ AppendHead(t) \/ AppendTail(t) \/ AppendFails(t)
    \/ Close(t) \/ EndTransform(t)
DbtStep(t) == DbtOpens(t) \/ DbtEnds(t)

Next ==
    \/ \E f \in Forms : BeginSave(f)
    \/ Save
    \/ \E t \in Tasks : TaskStep(t) \/ DbtStep(t)
    \/ Crash

Spec == Init /\ [][Next]_vars

(* Threads and processes are scheduled, pipelines and dbt come to an end,  *)
(* and a caller drops the exception it was given.                          *)
FairSpec ==
    /\ Spec
    /\ \A t \in Tasks : /\ WF_vars(stage[t] # "new" /\ TaskStep(t))
                        /\ WF_vars(DbtStep(t))
    /\ WF_vars(Save)
-----------------------------------------------------------------------------
Statuses == {"success", "error", "checkpoint_error"}
TypeOK ==
    /\ saver \in Forms \union {None} /\ saves \in Nat
    /\ submitted \in [Pipelines -> Forms \union {None}]
    /\ crashes \in Nat
    /\ kind \in [Tasks -> Kinds] /\ pipeline \in [Tasks -> Pipelines]
    /\ stage \in [Tasks -> {"new", "loaded", "started", "connected", "ingesting",
                            "recording", "appending", "appended", "raised",
                            "closing", "transforming", "ended", "killed"}]
    /\ \A t \in Tasks : config[t] # None => config[t].name = pipeline[t]
    /\ conn \in [Tasks -> {"none", "ro", "rw"}]
    /\ refusedBy \in [Tasks -> SUBSET Tasks]
    /\ ingested \in [Tasks -> Statuses \union {"none"}]
    /\ dbt \in [Tasks -> {"none", "starting", "holding", "success", "failed"}]
    /\ verdict \in [Tasks -> {"none", "answered", "empty", "success", "failed"}]
    /\ exists \in BOOLEAN
    /\ journal \in Seq([by : Tasks, half : {"head", "tail"}])
    /\ torn \subseteq Tasks /\ locked \in Tasks \union {None}

(* What the editor saved loads again, and the edit page shows it as it was *)
(* sent, whatever the file held before and whoever read it meanwhile;      *)
(* unless the file is larger than load_pipeline_config accepts, which      *)
(* save_pipeline does not ask about.                                       *)
SavedFormsComeBack ==
    \A p \in Pipelines : submitted[p] # None /\ ~TooLarge(file[p]) =>
        LoadsFile(file[p]) /\ FormOf(ConfigOf(file[p])) = submitted[p]

(* A task works with a configuration that its file held in whole at some   *)
(* time, or with the head of one form: of a file caught, or left, in the   *)
(* middle of a save it may have values cut short and, for what was to      *)
(* follow, the defaults; but nothing of what the file held before.         *)
WasWhole(t) ==
    \E d \in written[pipeline[t]] : LoadsFile(d) /\ config[t] = ConfigOf(d)
CutConfigs ==
    UNION {{ConfigOf(h) : h \in UNION {SavedHeads[f][k] : k \in Sections}} : f \in Forms}
WasCut(t) == config[t].name = pipeline[t] /\ config[t] \in CutConfigs
ConfigsAreNeverMixed ==
    \A t \in Tasks : config[t] # None => WasWhole(t) \/ WasCut(t)

(* Who is refused the warehouse is refused by a task still at work or by a *)
(* process of dbt, never by one that ended, nor by itself: ingestion and   *)
(* dbt of one run do not stand in each other's way.                        *)
RefusedByTheLiving ==
    [][\A t, o \in Tasks : o \in refusedBy'[t] \ refusedBy[t] =>
          o # t /\ (~Over(o) \/ dbt[o] = "holding")]_vars

(* docs/architecture.md:251: dbt runs only after Bronze and watermark are  *)
(* confirmed; and success means that both are and dbt, if wanted, too.     *)
TransformsFollowCheckpoints ==
    \A t \in Tasks :
        /\ dbt[t] # "none" => ingested[t] = "success" /\ WantsDbt(t)
        /\ verdict[t] = "success" =>
              ingested[t] = "success" /\ (WantsDbt(t) => dbt[t] = "success")

(* adapters/files/run_log.py:17: entries are appended "safely across       *)
(* processes": none is interrupted by another.  One whose own write failed *)
(* stays without its end, and the next one continues its line.             *)
LinesAreWhole ==
    \A i \in 1 .. Len(journal) - 1 :
        journal[i].half = "head" /\ journal[i].by \notin torn =>
            journal[i + 1] = Half(journal[i].by, "tail")

(* Every page is answered and every run, flow and command comes to its     *)
(* end, whoever else wants the warehouse or the audit file.                *)
TasksEnd == \A t \in Tasks : stage[t] # "new" ~> Over(t)
=============================================================================
