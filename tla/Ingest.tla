------------------------------- MODULE Ingest -------------------------------
(* The start page (TranscribePage.tsx): media are chosen or dropped, checked  *)
(* and sent with a backend, a model or provider and a language, which the     *)
(* page fills from the defaults, the model list and the provider list as      *)
(* their answers arrive, unless the user chose otherwise (defaultsDirtyRef).  *)
(* Below, the recent tasks, one of which can be stopped.                      *)
EXTENDS FiniteSets, Naturals

CONSTANTS Media,         \* files of the user's disk
          Unfit,         \* those without a supported audio stream
          ListedModels,        \* what the model list holds
          FirstModel,    \* the model the page starts with: listed or not
          Compatible, Detecting,   \* models that run here; that detect languages
          ListedProviders,     \* what the provider list holds
          Defaults,      \* default settings the service may hold
          MaxMoves,      \* bound: choices by hand, answers that bring news,
                         \* changes made by others
          MaxTasks       \* bound: tasks ever created

ASSUME IngestAssumption ==
  /\ Unfit \subseteq Media /\ Compatible \subseteq ListedModels /\ Detecting \subseteq ListedModels
  /\ Defaults \subseteq [backend : {"local", "provider"}, model : ListedModels,
                         provider : ListedProviders,
                         language : {"zh-Hans", "en", "zh-Hant", "mixed", "auto"}]
  /\ {MaxMoves, MaxTasks} \subseteq Nat /\ IsFiniteSet(Media)

VARIABLES modelsKnown,   \* modelsQuery: not answered, or which compatible models are there
          providersKnown, \* providersQuery is answered
          defaultsDirty, \* what the user chose by hand
          request,       \* backend, modelName, providerId and language of the page
          media,         \* files or desktopFiles: the selection
          preflight,     \* the result shown: of which file, and whether it can be used
          preflighting,  \* the file of preflightMutation
          creating,      \* createMutation: what it sent
          jobs,          \* tasks of the service: task -> active, done or gone
          recent,        \* tasksQuery: the same as last seen
          focus,         \* selectedTaskId, or 0
          stopping,      \* the stop confirmation: the task it was opened on, or 0
          moves          \* counter for the bound

ingestVars == <<modelsKnown, providersKnown, defaultsDirty, request, media, preflight,
                preflighting, creating, jobs, recent, focus, stopping, moves>>

Spoken == {"zh-Hans", "en", "zh-Hant", "mixed", "auto"}
SentLanguage(language) ==
  CASE language = "en" -> "en" [] language \in {"auto", "mixed"} -> "auto" [] OTHER -> "zh"
Unanswered == {"unanswered"}
Unchecked == [of |-> "none", usable |-> TRUE]
NotCreating == [step |-> "none", files |-> {}, sent |-> "none"]
TaskIds == 1..MaxTasks
NoJobs == [t \in TaskIds |-> "unmade"]
Head1(files) == CHOOSE f \in files : TRUE     \* desktopFiles[0] or files[0]

(* Counts a step against the bound.                                           *)
Moves == moves < MaxMoves /\ moves' = moves + 1

LanguageOptions(backend, model, known) ==
  IF backend = "local" /\ known # Unanswered /\ model \in ListedModels \ Detecting
  THEN Spoken \ {"auto", "mixed"} ELSE Spoken

(* The three effects that correct a choice: on the model, the language and    *)
(* the provider.  The language is corrected for the old model and the new.    *)
FitModel(r, known) ==
  LET ready == IF known # {} THEN known ELSE Compatible
  IN IF known # Unanswered /\ ready # {} /\ r.model \notin Compatible
     THEN [r EXCEPT !.model = CHOOSE m \in ready : TRUE] ELSE r

FitLanguage(r, known) ==
  IF r.language \in LanguageOptions(r.backend, r.model, known) THEN r
  ELSE [r EXCEPT !.language = "zh-Hans"]

FitProvider(r, loaded) ==
  IF loaded /\ r.provider = "none" /\ ListedProviders # {}
  THEN [r EXCEPT !.provider = CHOOSE p \in ListedProviders : TRUE] ELSE r

(* Variant: the language is not corrected.                                    *)
FittedToModel(r, known, loaded) == FitProvider(FitModel(r, known), loaded)

Fitted(r, known, loaded) ==
  FitProvider(FitLanguage(FitModel(FitLanguage(r, known), known), known), loaded)

IngestInit ==
  /\ modelsKnown = Unanswered /\ providersKnown = FALSE
  /\ defaultsDirty = {}
  /\ request = [backend |-> "local", model |-> FirstModel, provider |-> "none",
                language |-> "zh-Hans"]
  /\ media = {} /\ preflight = Unchecked /\ preflighting = "none" /\ creating = NotCreating
  /\ jobs = NoJobs /\ recent = NoJobs /\ focus = 0 /\ stopping = 0
  /\ moves = 0

chosenVars == <<modelsKnown, providersKnown, defaultsDirty, request>>
mediaVars == <<media, preflight, preflighting>>
recentVars == <<jobs, recent, focus, stopping>>

(***************************************************************************)
(* Queries that answer, and the choices of the user.                       *)
(***************************************************************************)
(* A refetch may show that models were downloaded or deleted.                 *)
ModelsArrive ==
  /\ Moves
  /\ \E downloaded \in SUBSET Compatible : modelsKnown' = downloaded
  /\ request' = Fitted(request, modelsKnown', providersKnown)
  /\ UNCHANGED <<providersKnown, defaultsDirty, creating>>
  /\ UNCHANGED mediaVars /\ UNCHANGED recentVars

ProvidersArrive ==
  /\ ~providersKnown /\ providersKnown' = TRUE
  /\ request' = Fitted(request, modelsKnown, TRUE)
  /\ UNCHANGED <<modelsKnown, defaultsDirty, moves, creating>>
  /\ UNCHANGED mediaVars /\ UNCHANGED recentVars

(* The defaults replace what the user did not choose.                         *)
WithDefaults(r, d) ==
  [backend |-> IF "backend" \in defaultsDirty THEN r.backend ELSE d.backend,
   model |-> IF "model" \in defaultsDirty \/ d.backend = "provider" THEN r.model ELSE d.model,
   provider |-> IF "provider" \in defaultsDirty \/ d.backend = "local" THEN r.provider
                ELSE d.provider,
   language |-> IF "language" \in defaultsDirty THEN r.language ELSE d.language]

SettingsArrived ==
  /\ Moves
  /\ \E d \in Defaults :
       request' = Fitted(WithDefaults(request, d), modelsKnown, providersKnown)
  /\ UNCHANGED <<modelsKnown, providersKnown, defaultsDirty, creating>>
  /\ UNCHANGED mediaVars /\ UNCHANGED recentVars

Choose(key, value) ==
  /\ Moves
  /\ defaultsDirty' = defaultsDirty \cup {key}
  /\ request' = Fitted([request EXCEPT ![key] = value], modelsKnown, providersKnown)
  /\ UNCHANGED <<modelsKnown, providersKnown, creating>>
  /\ UNCHANGED mediaVars /\ UNCHANGED recentVars

PickBackend == \E b \in {"local", "provider"} : Choose("backend", b)
PickModel == /\ request.backend = "local" /\ modelsKnown # Unanswered
             /\ \E m \in Compatible : Choose("model", m)
PickProvider == /\ request.backend = "provider" /\ providersKnown
                /\ \E p \in ListedProviders : Choose("provider", p)
PickLanguage ==
  \E language \in LanguageOptions(request.backend, request.model, modelsKnown) :
    Choose("language", language)

(***************************************************************************)
(* Media: picked in a dialog, dropped on the window or on the page.        *)
(***************************************************************************)
SelectMedia ==
  /\ media' \in SUBSET Media \ {{}}
  /\ preflight' = Unchecked
  /\ UNCHANGED <<preflighting, creating, moves>>
  /\ UNCHANGED chosenVars /\ UNCHANGED recentVars

(* The file input hands over an empty list when its dialog is cancelled; the  *)
(* desktop picker does not.                                                   *)
ClearMedia ==
  /\ media # {} /\ media' = {} /\ preflight' = Unchecked
  /\ UNCHANGED <<preflighting, creating, moves>>
  /\ UNCHANGED chosenVars /\ UNCHANGED recentVars

RunPreflight ==
  /\ media # {} /\ preflighting = "none"
  /\ preflighting' = Head1(media)
  /\ UNCHANGED <<media, preflight, moves, creating>>
  /\ UNCHANGED chosenVars /\ UNCHANGED recentVars

(* The answer is shown whatever is selected by now.                           *)
PreflightAnswers ==
  /\ preflighting # "none" /\ preflighting' = "none"
  /\ \/ preflight' = [of |-> preflighting, usable |-> preflighting \notin Unfit]
     \/ UNCHANGED preflight    \* the request failed
  /\ UNCHANGED <<media, moves, creating>>
  /\ UNCHANGED chosenVars /\ UNCHANGED recentVars

(***************************************************************************)
(* Creation.                                                               *)
(***************************************************************************)
Blocked == request.backend = "local" /\ modelsKnown # Unanswered
           /\ request.model \in ListedModels \ Compatible

Payload == [backend |-> request.backend,
            model |-> IF request.backend = "local" THEN request.model ELSE "none",
            provider |-> IF request.backend = "provider" THEN request.provider ELSE "none",
            language |-> SentLanguage(request.language),
            simplified |-> request.language = "zh-Hans"]

(* The button is disabled while a creation runs; a preflight that failed      *)
(* refuses it.                                                                *)
StartCreation ==
  /\ media # {} /\ creating.step = "none" /\ ~Blocked
  /\ preflight.usable
  /\ creating' = [step |-> "asked", files |-> media, sent |-> Payload]
  /\ UNCHANGED moves /\ UNCHANGED chosenVars /\ UNCHANGED mediaVars /\ UNCHANGED recentVars

(* One task, or a batch; or the service refuses. An id is never given twice.  *)
CreateTasks ==
  /\ creating.step = "asked"
  /\ \/ /\ \E new \in SUBSET {t \in TaskIds : jobs[t] = "unmade"} :
             /\ Cardinality(new) = Cardinality(creating.files)
             /\ jobs' = [t \in TaskIds |-> IF t \in new THEN "active" ELSE jobs[t]]
             /\ creating' = [step |-> "made", files |-> new, sent |-> "none"]
     \/ creating' = NotCreating /\ UNCHANGED jobs
  /\ UNCHANGED <<recent, focus, stopping, moves>>
  /\ UNCHANGED chosenVars /\ UNCHANGED mediaVars

Listed(list) == {t \in TaskIds : list[t] \in {"active", "done"}}
Shown(list, task) == IF task \in Listed(list) THEN task
                     ELSE IF Listed(list) = {} THEN 0 ELSE Head1(Listed(list))
SelectedTask == Shown(recent, focus)

(* The stop button, with its confirmation, is shown for an active task only.  *)
Asking(list, task) == IF Shown(list, task) # 0 /\ list[Shown(list, task)] = "active"
                      THEN stopping ELSE 0

(* The first task made becomes the selected one.                              *)
CreationAnswered ==
  /\ creating.step = "made" /\ creating' = NotCreating
  /\ focus' = Head1(creating.files) /\ stopping' = Asking(recent, focus')
  /\ UNCHANGED <<jobs, recent, moves>> /\ UNCHANGED chosenVars /\ UNCHANGED mediaVars

(***************************************************************************)
(* Recent tasks.                                                           *)
(***************************************************************************)
(* Without a selection the first task is selected; a selection whose task is  *)
(* gone is kept.                                                              *)
TasksArrive ==
  /\ recent # jobs /\ recent' = jobs
  /\ focus' = IF focus = 0 /\ Listed(jobs) # {} THEN Head1(Listed(jobs)) ELSE focus
  /\ stopping' = Asking(jobs, focus')
  /\ UNCHANGED <<jobs, creating, moves>> /\ UNCHANGED chosenVars /\ UNCHANGED mediaVars

ShowRecent(t) ==
  /\ t \in Listed(recent) /\ focus' = t /\ stopping' = Asking(recent, t)
  /\ UNCHANGED <<jobs, recent, creating, moves>> /\ UNCHANGED chosenVars /\ UNCHANGED mediaVars

AskStop ==
  /\ stopping = 0 /\ SelectedTask # 0 /\ recent[SelectedTask] = "active"
  /\ stopping' = SelectedTask
  /\ UNCHANGED <<jobs, recent, focus, creating, moves>>
  /\ UNCHANGED chosenVars /\ UNCHANGED mediaVars

(* The call takes the task that is selected now.                              *)
ConfirmStop ==
  /\ stopping # 0 /\ stopping' = 0
  /\ jobs' = IF jobs[SelectedTask] = "active" THEN [jobs EXCEPT ![SelectedTask] = "done"]
             ELSE jobs
  /\ UNCHANGED <<recent, focus, creating, moves>>
  /\ UNCHANGED chosenVars /\ UNCHANGED mediaVars

(* A worker finishes, or somebody deletes a task that is not active.          *)
JobChanges(t) ==
  /\ Moves
  /\ \/ jobs[t] = "active" /\ jobs' = [jobs EXCEPT ![t] = "done"]
     \/ jobs[t] = "done" /\ jobs' = [jobs EXCEPT ![t] = "gone"]
  /\ UNCHANGED <<recent, focus, stopping, creating>>
  /\ UNCHANGED chosenVars /\ UNCHANGED mediaVars

(* The service deletes every task but the active ones.                        *)
ClearTasks ==
  /\ Listed(recent) # {} /\ focus' = 0 /\ stopping' = Asking(recent, 0)
  /\ jobs' = [t \in TaskIds |-> IF jobs[t] = "done" THEN "gone" ELSE jobs[t]]
  /\ UNCHANGED <<recent, creating, moves>> /\ UNCHANGED chosenVars /\ UNCHANGED mediaVars

ChoiceNext ==
  \/ ModelsArrive \/ ProvidersArrive \/ SettingsArrived
  \/ PickBackend \/ PickModel \/ PickProvider \/ PickLanguage
  \/ SelectMedia \/ ClearMedia \/ RunPreflight \/ PreflightAnswers
  \/ StartCreation \/ CreateTasks \/ CreationAnswered

RecentNext ==
  \/ SelectMedia \/ StartCreation \/ CreateTasks \/ CreationAnswered
  \/ TasksArrive \/ AskStop \/ ConfirmStop \/ ClearTasks
  \/ \E t \in TaskIds : ShowRecent(t) \/ JobChanges(t)

IngestNext == ChoiceNext \/ RecentNext

IngestSpec == IngestInit /\ [][IngestNext]_ingestVars

IngestTypeOK ==
  /\ modelsKnown = Unanswered \/ modelsKnown \subseteq Compatible
  /\ providersKnown \in BOOLEAN
  /\ defaultsDirty \subseteq {"backend", "model", "provider", "language"}
  /\ request \in [backend : {"local", "provider"}, model : ListedModels \cup {FirstModel},
                  provider : ListedProviders \cup {"none"}, language : Spoken]
  /\ media \subseteq Media /\ preflighting \in Media \cup {"none"}
  /\ jobs \in [TaskIds -> {"unmade", "active", "done", "gone"}]
  /\ focus \in 0..MaxTasks /\ stopping \in 0..MaxTasks

(* A local transcription is started with a model that runs here, and asks for *)
(* language detection only of a model that has it, as far as the list is      *)
(* known, in whatever order the lists, the defaults and the choices arrive.   *)
CreatedFitsModel ==
  [][(StartCreation /\ request.backend = "local" /\ modelsKnown # Unanswered /\ Compatible # {})
       => /\ creating'.sent.model \in Compatible
          /\ creating'.sent.language = "auto" => creating'.sent.model \in Detecting]_ingestVars
=============================================================================
