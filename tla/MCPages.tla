---- MODULE MCPages ----
(***************************************************************************)
(* One instance of every page of the window whose state is its own.  The   *)
(* pages share no variable, so a state of one does not depend on another:  *)
(* a behaviour visits the page chosen at its start, and TLC explores the   *)
(* sum of the state spaces instead of their product.                       *)
(***************************************************************************)
EXTENDS TranscriptEditor, Proofreading, TranslationDesk, AppUpdates, AudioDesk, SettingsDesk,
        Ingest, ProviderDesk, AsrProviders, ModelCatalog

VARIABLE page

pagesVars == <<page, editorVars, proofVars, trVars, updateVars, audioVars, settingsVars,
               ingestVars, providerVars, asrVars, catalogVars>>

(* Texts of one and two words; a text with three hits of a word.           *)
OneText == <<"a">>
TwoTexts == {<<<<"a", "a", "a">>, <<"a", "b">>>>}
Words == {<<"a">>, <<"a", "a">>}
NewWords == {<<"b">>}
TypedWords == {<<"a", "b">>}
DetectedDefault == {[backend |-> "provider", model |-> "m", provider |-> "p",
                     language |-> "auto"]}

(* The comparison of two versions, for all versions of up to three lines   *)
(* of two kinds, with room for them, room for less and none for a table.   *)
Versions == UNION {[1..n -> {"x", "y"}] : n \in 0..3}

ASSUME ShownDiffIsExact ==
  \A old, new \in Versions, maxCells \in {3, 9}, maxLines \in {2, 4, 7} :
    DiffIsExact(old, new, maxCells, maxLines)

(* Where a component may start in several states, only its own page needs  *)
(* them all.  Which provider is there first is a matter of names, and the  *)
(* channel can be changed.                                                 *)
PagesInit ==
  /\ page \in {"editor", "proofreading", "translation", "updates", "player", "waveform",
               "settings", "preferences", "start", "recent", "providers", "asr", "models"}
  /\ EditorInit /\ ProofInit /\ UpdateInit /\ AudioInit /\ SettingsInit /\ IngestInit
  /\ TrInit /\ (page # "translation" => trRuns = <<>> /\ trRoute = 0)
  /\ ProviderInit /\ llmRows["p"].endpoint = "a"
  /\ channel = "stable"
  /\ AsrInit /\ CatalogInit

EditorPage ==
  /\ page = "editor" /\ EditorNext
  /\ UNCHANGED <<page, proofVars, trVars, updateVars, audioVars, formVars, prefVars,
                 ingestVars, providerVars, asrVars, catalogVars>>
ProofreadingPage ==
  /\ page = "proofreading" /\ ProofNext
  /\ UNCHANGED <<page, editorVars, trVars, updateVars, audioVars, formVars, prefVars,
                 ingestVars, providerVars, asrVars, catalogVars>>
TranslationPage ==
  /\ page = "translation" /\ TrNext
  /\ UNCHANGED <<page, editorVars, proofVars, updateVars, audioVars, formVars, prefVars,
                 ingestVars, providerVars, asrVars, catalogVars>>
UpdatesPage ==
  /\ page = "updates" /\ UpdateNext
  /\ UNCHANGED <<page, editorVars, proofVars, trVars, audioVars, formVars, prefVars,
                 ingestVars, providerVars, asrVars, catalogVars>>
PlayerPage ==
  /\ page = "player" /\ PlayerNext
  /\ UNCHANGED <<page, editorVars, proofVars, trVars, updateVars, formVars, prefVars,
                 ingestVars, providerVars, asrVars, catalogVars>>
WaveformPage ==
  /\ page = "waveform" /\ WaveNext
  /\ UNCHANGED <<page, editorVars, proofVars, trVars, updateVars, formVars, prefVars,
                 ingestVars, providerVars, asrVars, catalogVars>>
SettingsPage ==
  /\ page = "settings" /\ FormNext
  /\ UNCHANGED <<page, editorVars, proofVars, trVars, updateVars, audioVars, prefVars,
                 ingestVars, providerVars, asrVars, catalogVars>>
PreferencesPage ==
  /\ page = "preferences" /\ PrefNext
  /\ UNCHANGED <<page, editorVars, proofVars, trVars, updateVars, audioVars, formVars,
                 ingestVars, providerVars, asrVars, catalogVars>>
StartPage ==
  /\ page = "start" /\ ChoiceNext
  /\ UNCHANGED <<page, editorVars, proofVars, trVars, updateVars, audioVars, formVars,
                 prefVars, providerVars, asrVars, catalogVars>>
RecentPage ==
  /\ page = "recent" /\ RecentNext
  /\ UNCHANGED <<page, editorVars, proofVars, trVars, updateVars, audioVars, formVars,
                 prefVars, providerVars, asrVars, catalogVars>>
ProvidersPage ==
  /\ page = "providers" /\ ProviderNext
  /\ UNCHANGED <<page, editorVars, proofVars, trVars, updateVars, audioVars, formVars,
                 prefVars, ingestVars, asrVars, catalogVars>>
AsrProvidersPage ==
  /\ page = "asr" /\ AsrNext
  /\ UNCHANGED <<page, editorVars, proofVars, trVars, updateVars, audioVars, formVars,
                 prefVars, ingestVars, providerVars, catalogVars>>
ModelsPage ==
  /\ page = "models" /\ CatalogNext
  /\ UNCHANGED <<page, editorVars, proofVars, trVars, updateVars, audioVars, formVars,
                 prefVars, ingestVars, providerVars, asrVars>>

PagesNext ==
  \/ EditorPage \/ ProofreadingPage \/ TranslationPage \/ UpdatesPage \/ PlayerPage
  \/ WaveformPage \/ SettingsPage \/ PreferencesPage \/ StartPage
  \/ RecentPage \/ ProvidersPage \/ AsrProvidersPage \/ ModelsPage

PagesSpec == PagesInit /\ [][PagesNext]_pagesVars

(* Every variable of every page has its type.                              *)
PagesTypeOK ==
  /\ page = "editor" => EditorTypeOK
  /\ page = "proofreading" => ProofTypeOK
  /\ page = "translation" => TrTypeOK
  /\ page = "updates" => UpdateTypeOK
  /\ page \in {"player", "waveform"} => AudioTypeOK
  /\ page \in {"settings", "preferences"} => SettingsTypeOK
  /\ page \in {"start", "recent"} => IngestTypeOK
  /\ page = "providers" => ProviderTypeOK
  /\ page = "asr" => AsrTypeOK
  /\ page = "models" => CatalogTypeOK
====
