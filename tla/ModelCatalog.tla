---------------------------- MODULE ModelCatalog ----------------------------
(* The catalogue of local models: what the registry (registry.py) declares of *)
(* each, the grades, groups and details the window keeps beside it            *)
(* (modelCatalog.ts, ModelManagement.tsx), and the models page on which they  *)
(* are searched, filtered, pinned and sorted (ModelsPage.tsx,                 *)
(* ModelLadder.tsx).  The two tables are written by hand and apart from each  *)
(* other: the assumptions at the end of the first part compare them, for the  *)
(* real catalogue.                                                            *)
EXTENDS Integers, FiniteSets, Sequences, TLC

CONSTANTS Shelf,      \* the models the page lists here
          MaxBrowse    \* bound: what the user does on the page

(***************************************************************************)
(* The registry.  A model is listed with its size class, its size in       *)
(* megabytes, what its engine measures, the devices it runs on and its     *)
(* languages: how many, whether "auto" is one, whether Chinese is.         *)
(***************************************************************************)
Entry(name, engine, class, mb, measures, devices, languages) ==
  [name |-> name, engine |-> engine, class |-> class, mb |-> mb, measures |-> measures,
   devices |-> devices, languages |-> languages]

Langs(number, flags) == [number |-> number, auto |-> "auto" \in flags, zh |-> "zh" \in flags]
CommonWhisper == Langs(8, {"auto", "zh"})

Whisper(name, class, mb) ==
  Entry(name, "whisper_transformers", class, mb, {"segments"}, {"cpu", "cuda", "mps"},
        CommonWhisper)
FasterWhisper(name, class, mb, languages) ==
  Entry(name, "faster_whisper", class, mb, {"segments", "words"}, {"cpu", "cuda"}, languages)
QwenAsr(name, class, mb) ==
  Entry(name, "transformers_speech_lm", class, mb, {}, {"cpu", "cuda", "mps"},
        Langs(15, {"auto", "zh"}))
SpeechLm(name, class, mb, measures, languages) ==
  Entry(name, "transformers_speech_lm", class, mb, measures, {"cpu", "cuda"}, languages)
FunAsr(name, class, mb, measures, languages) ==
  Entry(name, "funasr", class, mb, measures, {"cpu", "cuda"}, languages)
Nemo(name, class, mb, languages) ==
  Entry(name, "nemo", class, mb, {"segments", "words"}, {"cuda"}, languages)

Registry == <<
  Whisper("whisper-base", "base", 290),
  Whisper("whisper-small", "small", 967),
  Whisper("whisper-medium", "medium", 3060),
  Whisper("whisper-large-v3", "large-v3", 6200),
  Whisper("whisper-large-v3-turbo", "large-v3-turbo", 1600),
  FasterWhisper("faster-whisper-base", "base", 145, CommonWhisper),
  FasterWhisper("faster-whisper-small", "small", 466, CommonWhisper),
  FasterWhisper("faster-whisper-medium", "medium", 1500, CommonWhisper),
  FasterWhisper("faster-whisper-large-v3", "large-v3", 3100, CommonWhisper),
  FasterWhisper("faster-whisper-large-v3-turbo", "large-v3-turbo", 1600, CommonWhisper),
  QwenAsr("qwen3-asr-0.6b", "0.6b", 1600),
  QwenAsr("qwen3-asr-1.7b", "1.7b", 3900),
  SpeechLm("moss-transcribe-diarize", "0.9b", 1900, {"segments", "speakers"},
           Langs(16, {"auto", "zh"})),
  Entry("mlx-whisper-turbo", "mlx_whisper", "turbo", 1600, {"segments", "words"}, {"mlx"},
        CommonWhisper),
  FunAsr("sensevoice-small", "small", 900, {}, Langs(6, {"auto", "zh"})),
  FunAsr("paraformer-zh", "large", 850, {"segments"}, Langs(2, {"zh"})),
  FunAsr("fun-asr-nano", "nano", 2050, {}, Langs(5, {"zh"})),
  FasterWhisper("faster-whisper-distil-large-v3", "distil-large-v3", 1450, Langs(1, {})),
  SpeechLm("granite-speech-4.1-2b", "2b", 4945, {}, Langs(6, {})),
  SpeechLm("granite-speech-4.1-2b-plus", "2b-plus", 4225, {"words", "speakers"}, Langs(5, {})),
  SpeechLm("cohere-transcribe-2b", "2b", 4130, {}, Langs(14, {"zh"})),
  SpeechLm("ark-asr-0.6b", "0.6b", 2600, {}, Langs(20, {"auto", "zh"})),
  SpeechLm("ark-asr-3b", "3b", 8130, {}, Langs(20, {"auto", "zh"})),
  SpeechLm("voxtral-mini-3b", "3b", 9360, {}, Langs(9, {"auto"})),
  Entry("firered-asr2-aed", "firered_asr", "1.1b", 4400, {"segments", "words"},
        {"cpu", "cuda"}, Langs(3, {"auto", "zh"})),
  Nemo("parakeet-tdt-0.6b-v3", "0.6b", 2509, Langs(25, {})),
  Nemo("canary-1b-flash", "1b", 3541, Langs(4, {})) >>

(* A packaged desktop build does not offer what it cannot run.                *)
VisibleOnThisRuntime(frozen) == {i \in DOMAIN Registry : frozen => Registry[i].engine # "nemo"}

Names == {Registry[i].name : i \in DOMAIN Registry}
Config(name) == CHOOSE c \in {Registry[i] : i \in DOMAIN Registry} : c.name = name

(***************************************************************************)
(* What the window knows of a model by its name.                           *)
(***************************************************************************)
Qwen3 == {"qwen3-asr-0.6b", "qwen3-asr-1.7b"}
Ark == {"ark-asr-0.6b", "ark-asr-3b"}

Categories == {"diarization", "server", "apple", "chinese", "faster", "speechlm", "whisper"}

ModelCategory(c) ==
  IF "speakers" \in c.measures THEN "diarization"
  ELSE IF c.engine = "nemo" THEN "server"
  ELSE IF c.engine = "mlx_whisper" THEN "apple"
  ELSE IF c.engine = "funasr" \/ c.name \in Qwen3 \cup Ark \cup {"firered-asr2-aed"} THEN "chinese"
  ELSE IF c.engine = "faster_whisper" THEN "faster"
  ELSE IF c.engine = "transformers_speech_lm" THEN "speechlm"
  ELSE "whisper"

Recommended == {"whisper-base", "faster-whisper-small", "mlx-whisper-turbo", "sensevoice-small"}

IsApproximateTimelineModel(name) ==
  name \in Qwen3 \cup Ark \cup {"sensevoice-small", "fun-asr-nano", "granite-speech-4.1-2b",
                                "granite-speech-4.1-2b-plus", "cohere-transcribe-2b",
                                "voxtral-mini-3b"}

(* The measured grades: S, A, B, C as 0 to 3, of speed, accuracy, languages.  *)
Grades(speed, accuracy, languages) ==
  [speed |-> speed, accuracy |-> accuracy, languages |-> languages]

LadderTable == {
  <<"sensevoice-small", 0, 1, 2>>, <<"paraformer-zh", 0, 1, 2>>,
  <<"fun-asr-nano", 3, 1, 2>>, <<"faster-whisper-distil-large-v3", 0, 0, 2>>,
  <<"faster-whisper-base", 0, 3, 0>>, <<"whisper-base", 1, 3, 0>>,
  <<"whisper-large-v3-turbo", 1, 1, 0>>, <<"faster-whisper-small", 1, 3, 0>>,
  <<"faster-whisper-large-v3-turbo", 1, 1, 0>>, <<"qwen3-asr-0.6b", 2, 1, 1>>,
  <<"whisper-small", 2, 3, 0>>, <<"faster-whisper-medium", 2, 3, 0>>,
  <<"qwen3-asr-1.7b", 2, 1, 1>>, <<"whisper-medium", 3, 2, 0>>,
  <<"faster-whisper-large-v3", 3, 0, 0>>, <<"moss-transcribe-diarize", 3, 1, 0>>,
  <<"whisper-large-v3", 3, 0, 0>>}

MODEL_LADDER ==
  [name \in {row[1] : row \in LadderTable} |->
     LET row == CHOOSE r \in LadderTable : r[1] = name IN Grades(row[2], row[3], row[4])]

Large == {"large", "large-v3", "large-v3-turbo", "distil-large-v3"}

(* The grade of a score against the least scores of S, A and B.               *)
Tier(score, s, a, b) == IF score >= s THEN 0 ELSE IF score >= a THEN 1 ELSE IF score >= b THEN 2
                        ELSE 3
AtMost98(score) == IF score > 98 THEN 98 ELSE score

EstimateModelLadder(c) ==
  LET sizeSpeed == CASE c.class = "base" -> 86 [] c.class = "small" -> 74
                     [] c.class = "medium" -> 58 [] OTHER -> 42
      boost == IF c.engine \in {"mlx_whisper", "faster_whisper"} THEN 10 ELSE 0
      sizeAccuracy == CASE c.class \in Large -> 92 [] c.class = "medium" -> 78
                        [] c.class = "small" -> 64 [] OTHER -> 52
      extras == 3 * Cardinality(c.measures \cap {"words", "speakers"})
  IN Grades(Tier(AtMost98(sizeSpeed + boost), 90, 80, 65),
            Tier(AtMost98(sizeAccuracy + extras), 90, 75, 60),
            IF c.engine = "funasr" THEN 2 ELSE IF c.name \in Qwen3 THEN 1
            ELSE Tier(c.languages.number, 40, 10, 0))

ModelLadder(c) ==
  IF c.name = "mlx-whisper-turbo" THEN MODEL_LADDER["faster-whisper-large-v3-turbo"]
  ELSE IF c.name \in DOMAIN MODEL_LADDER THEN MODEL_LADDER[c.name]
  ELSE EstimateModelLadder(c)

(* The texts of a model, for what they say of it: what it measures, what they *)
(* deny, how many languages they name (0: open), whether they promise         *)
(* detection and Chinese, the size in tenths of a gigabyte (0: unsaid).       *)
Detail(says, denies, named, flags, tenths) ==
  [says |-> says, denies |-> denies, named |-> named, auto |-> "auto" \in flags,
   zh |-> "zh" \in flags, tenths |-> tenths]
Both == {"auto", "zh"}

WhisperDetails ==
  [name \in {"whisper-base", "whisper-small", "whisper-medium", "whisper-large-v3",
             "whisper-large-v3-turbo"} |->
     Detail({"segments"}, {"words"}, 0, Both,
            CASE name = "whisper-medium" -> 30 [] name = "whisper-large-v3" -> 62 [] OTHER -> 0)]

FasterDetails ==
  [name \in {"faster-whisper-base", "faster-whisper-small", "faster-whisper-medium",
             "faster-whisper-large-v3", "faster-whisper-large-v3-turbo"} |->
     Detail({"segments", "words"}, {}, 0, Both,
            IF name = "faster-whisper-large-v3" THEN 31 ELSE 0)]

ChineseDetails ==
     "qwen3-asr-0.6b"          :> Detail({}, {"segments"}, 14, Both, 0)
  @@ "qwen3-asr-1.7b"          :> Detail({}, {"segments"}, 14, Both, 39)
  @@ "moss-transcribe-diarize" :> Detail({"segments", "speakers"}, {"words"}, 0, Both, 0)
  @@ "mlx-whisper-turbo"       :> Detail({"segments", "words"}, {}, 0, Both, 0)
  @@ "sensevoice-small"        :> Detail({}, {"segments"}, 5, Both, 0)
  @@ "paraformer-zh"           :> Detail({"segments"}, {"words"}, 2, {"zh"}, 0)
  @@ "fun-asr-nano"            :> Detail({}, {"segments"}, 5, {"zh"}, 20)

OtherDetails ==
     "faster-whisper-distil-large-v3" :> Detail({"segments", "words"}, {}, 1, {}, 0)
  @@ "granite-speech-4.1-2b"      :> Detail({}, {"segments"}, 6, {}, 0)
  @@ "granite-speech-4.1-2b-plus" :> Detail({"words", "speakers"}, {}, 5, {}, 0)
  @@ "cohere-transcribe-2b"       :> Detail({}, {"segments", "words"}, 14, {"zh"}, 0)
  @@ "voxtral-mini-3b"            :> Detail({}, {"segments", "words"}, 8, {"auto"}, 94)

ArkDetails == [name \in Ark |-> Detail({}, {"segments", "words"}, 19, Both, 0)]

MODEL_DETAILS == WhisperDetails @@ FasterDetails @@ ChineseDetails @@ OtherDetails @@ ArkDetails

(* A model without texts is described by its registry entry.                  *)
SpokenLanguages(c) == c.languages.number - (IF c.languages.auto THEN 1 ELSE 0)
ModelDetails(c) ==
  IF c.name \in DOMAIN MODEL_DETAILS THEN MODEL_DETAILS[c.name]
  ELSE [says |-> c.measures, denies |-> {}, named |-> SpokenLanguages(c), auto |-> c.languages.auto,
        zh |-> c.languages.zh, tenths |-> 0]

(* The devices, as the summary of a model has them.                           *)
DeviceSummary(devices) ==
  CASE devices = {} -> "unknown"
    [] "cpu" \in devices /\ devices # {"cpu"} -> "cpu_gpu"
    [] devices = {"cpu"} -> "cpu_only"
    [] OTHER -> "gpu_only"

(* The groups of a list of models.  A model has problems, an active download, *)
(* a pin, and is downloaded, missing or not known to be either.               *)
Groups == {"issues", "downloading", "pinned", "local", "recommended", "available"}

InGroup(group, m) ==
  LET local == m.state = "yes" /\ ~m.active /\ ~m.pinned
      recommended == m.recommended /\ m.state = "no" /\ ~m.active /\ ~m.pinned /\ ~m.issue
  IN CASE group = "issues" -> m.issue
       [] group = "downloading" -> m.active /\ ~m.issue
       [] group = "pinned" -> m.pinned /\ ~m.issue /\ ~m.active
       [] group = "local" -> local /\ ~m.issue
       [] group = "recommended" -> recommended
       [] OTHER -> ~m.issue /\ ~m.active /\ ~m.pinned /\ ~local /\ ~recommended

(***************************************************************************)
(* The ladder lists the models by a key, those of equal key by name (here  *)
(* by place in the catalogue).  Its order, and its rows.                   *)
(***************************************************************************)
SortKeys == {"balanced", "name", "speed", "accuracy", "languages", "gpu", "cpu", "timeline",
             "diarization", "downloaded"}
Missing(flag) == IF flag THEN 0 ELSE 1

Rank(key, i, downloaded) ==
  LET c == Registry[i]
      ladder == ModelLadder(c)
  IN CASE key = "name" -> 0
       [] key \in {"speed", "accuracy", "languages"} -> ladder[key]
       [] key = "gpu" -> Missing(c.devices \ {"cpu"} # {})
       [] key = "cpu" -> Missing("cpu" \in c.devices)
       [] key = "timeline" -> Missing("segments" \in c.measures)
       [] key = "diarization" -> Missing("speakers" \in c.measures)
       [] key = "downloaded" -> Missing(c.name \in downloaded)
       [] OTHER -> ladder.speed + ladder.accuracy

LadderRows(key, shown, downloaded) ==
  LET rank == [i \in shown |-> Rank(key, i, downloaded)]
      place(i) == 1 + Cardinality({j \in shown : \/ rank[j] < rank[i]
                                                 \/ rank[j] = rank[i] /\ j < i})
  IN [p \in 1..Cardinality(shown) |-> CHOOSE i \in shown : place(i) = p]

(***************************************************************************)
(* What the two tables say of one model agrees: the texts promise and deny *)
(* what the registry declares, name its number of languages and round its  *)
(* size; the models whose times the window calls approximate are those     *)
(* without measured times, as the comment on that list says.               *)
(***************************************************************************)
DetailsAgree(c) ==
  LET d == ModelDetails(c)
  IN /\ d.says = c.measures /\ d.denies \cap c.measures = {}
     /\ d.auto = c.languages.auto /\ d.zh = c.languages.zh
     /\ d.named # 0 => d.named = SpokenLanguages(c)
     /\ d.tenths # 0 => 100 * d.tenths - c.mb \in -100..100

ASSUME TablesAgree ==
  \A i \in DOMAIN Registry :
    LET c == Registry[i]
    IN /\ DetailsAgree(c)
       /\ IsApproximateTimelineModel(c.name) <=> "segments" \notin c.measures
       /\ DeviceSummary(c.devices) = "gpu_only" <=> ModelCategory(c) \in {"server", "apple"}

(* Every grade, recommendation and text is of a model that is registered, and *)
(* only the two models of the missing engine are left out of a packaged       *)
(* build.                                                                     *)
ASSUME TablesAreOfModels ==
  /\ Cardinality(Names) = Len(Registry)
  /\ Recommended \cup DOMAIN MODEL_LADDER \cup DOMAIN MODEL_DETAILS \subseteq Names
  /\ DOMAIN Registry \ VisibleOnThisRuntime(TRUE)
       = {i \in DOMAIN Registry : ModelCategory(Registry[i]) = "server"}

(* Whatever is known of a model, it is in exactly one group of the list.      *)
ASSUME GroupsPartition ==
  \A m \in [issue : BOOLEAN, active : BOOLEAN, pinned : BOOLEAN, recommended : BOOLEAN,
            state : {"yes", "no", "unknown"}] :
    Cardinality({g \in Groups : InGroup(g, m)}) = 1

(* Every key sorts the whole catalogue: each model is in one row, and a row   *)
(* is never worse by the key than the next.                                   *)
ASSUME LadderSortsAll ==
  \A key \in SortKeys :
    LET rows == LadderRows(key, DOMAIN Registry, Recommended)
    IN /\ {rows[p] : p \in DOMAIN rows} = DOMAIN Registry
       /\ \A p \in 2..Len(rows) : Rank(key, rows[p - 1], Recommended)
                                     <= Rank(key, rows[p], Recommended)

(***************************************************************************)
(* The models page.                                                        *)
(***************************************************************************)
VARIABLES have,      \* what the model list says of each: downloaded or not, or unknown
          category,  \* the filter
          guide,     \* guidePreference
          pinned,    \* pinnedModelNames
          found,     \* the models the search text matches
          ladder,    \* the ladder: expanded, and its key
          wanted,    \* the model a button of the page last asked to download
          browsed    \* counter for the bound

catalogVars == <<have, category, guide, pinned, found, ladder, wanted, browsed>>

ASSUME CatalogAssumption == Shelf \subseteq Names /\ MaxBrowse \in Nat

NoModel == "none"
Guides == {"general", "apple", "faster", "chinese", "whisper"}
Filters == Categories \cup {"all", "recommended", "pinned"}
GuideCategory(g) == IF g = "general" THEN "recommended" ELSE g

PassesFilter(name, filter, pins) ==
  CASE filter = "all" -> TRUE
    [] filter = "pinned" -> name \in pins
    [] filter = "recommended" -> name \in Recommended
    [] OTHER -> ModelCategory(Config(name)) = filter

(* The models on show, of which the page lists the pinned ones first.         *)
VisibleModels == {n \in found : PassesFilter(n, category, pinned)}

(* The first, in the order of the catalogue, of some models or else of others.*)
Place(name) == CHOOSE i \in DOMAIN Registry : Registry[i].name = name

FirstAmong(some, rest) ==
  LET pool == IF some # {} THEN some ELSE rest
  IN IF pool = {} THEN NoModel
     ELSE CHOOSE n \in pool : \A other \in pool : Place(n) <= Place(other)

RecommendedDownloadModel(state) ==
  LET missing == {n \in Shelf : state[n] = "no"}
  IN FirstAmong(missing \cap Recommended, missing)

GuideRecommendedModel(g, state) ==
  LET suited == {n \in Shelf : IF g = "general" THEN n \in Recommended
                               ELSE ModelCategory(Config(n)) = g}
  IN FirstAmong({n \in suited : state[n] = "no"}, suited)

(* What the guide recommends is in the list that its button shows.            *)
ASSUME GuideIsShown ==
  \A g \in Guides, state \in [Shelf -> {"yes", "no", "unknown"}] :
    LET name == GuideRecommendedModel(g, state)
    IN name # NoModel => PassesFilter(name, GuideCategory(g), {})

CatalogInit ==
  /\ have = [n \in Shelf |-> "no"] /\ category = "all" /\ guide = "general"
  /\ pinned = {} /\ found = Shelf
  /\ ladder = [expanded |-> FALSE, key |-> "balanced"] /\ wanted = NoModel /\ browsed = 0

Browse == browsed < MaxBrowse /\ browsed' = browsed + 1

ChooseCategory(c) ==
  /\ Browse /\ category' = c
  /\ UNCHANGED <<have, guide, pinned, found, ladder, wanted>>

(* A click on a guide also filters the list.                                  *)
ChooseGuide ==
  /\ Browse /\ \E g \in Guides : guide' = g /\ category' = GuideCategory(g)
  /\ UNCHANGED <<have, pinned, found, ladder, wanted>>

ShowMatches ==
  /\ GuideRecommendedModel(guide, have) # NoModel
  /\ ChooseCategory(GuideCategory(guide))

SearchModels ==
  /\ Browse /\ found' \in SUBSET Shelf
  /\ UNCHANGED <<have, category, guide, pinned, ladder, wanted>>

TogglePinnedModel ==
  /\ Browse
  /\ \E n \in VisibleModels :
       pinned' = IF n \in pinned THEN pinned \ {n} ELSE pinned \cup {n}
  /\ UNCHANGED <<have, category, guide, found, ladder, wanted>>

ToggleLadder ==
  /\ Browse /\ ladder' = [ladder EXCEPT !.expanded = ~@]
  /\ UNCHANGED <<have, category, guide, pinned, found, wanted>>

SortLadder ==
  /\ ladder.expanded
  /\ Browse /\ \E key \in SortKeys : ladder' = [ladder EXCEPT !.key = key]
  /\ UNCHANGED <<have, category, guide, pinned, found, wanted>>

Want(name) ==
  /\ name # NoModel /\ Browse /\ wanted' = name
  /\ UNCHANGED <<have, category, guide, pinned, found, ladder>>

(* The button of the empty list, and that of the panel of active downloads.   *)
DownloadRecommended == Want(RecommendedDownloadModel(have))

(* The guide's own button, when its model is not there.                       *)
DownloadGuided ==
  LET name == GuideRecommendedModel(guide, have)
  IN name # NoModel /\ have[name] = "no" /\ Want(name)

(* The list is read again; of a missing storage nothing is known.             *)
CatalogArrives ==
  /\ Browse
  /\ have' \in [Shelf -> {"yes", "no"}] \cup {[n \in Shelf |-> "unknown"]}
  /\ UNCHANGED <<category, guide, pinned, found, ladder, wanted>>

CatalogNext ==
  \/ \E c \in Filters : ChooseCategory(c)
  \/ ChooseGuide \/ ShowMatches \/ SearchModels \/ TogglePinnedModel
  \/ ToggleLadder \/ SortLadder \/ DownloadRecommended \/ DownloadGuided \/ CatalogArrives

CatalogSpec == CatalogInit /\ [][CatalogNext]_catalogVars

CatalogTypeOK ==
  /\ have \in [Shelf -> {"yes", "no", "unknown"}]
  /\ category \in Filters /\ guide \in Guides
  /\ pinned \subseteq Shelf /\ found \subseteq Shelf
  /\ ladder \in [expanded : BOOLEAN, key : SortKeys]
  /\ wanted \in Shelf \cup {NoModel} /\ browsed \in 0..MaxBrowse
  /\ LadderRows(ladder.key, {i \in DOMAIN Registry : Registry[i].name \in Shelf},
          {n \in Shelf : have[n] = "yes"}) \in Seq(DOMAIN Registry)
=============================================================================
