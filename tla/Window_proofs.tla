---------------------------- MODULE Window_proofs ----------------------------
(***************************************************************************)
(* The pages whose state is their own, together (MCPages).  A step of the  *)
(* window is a step of one page and leaves the others alone, so that a     *)
(* behaviour of the window is one of every page's own specification, and   *)
(* what is proved of the pages holds of the window.                        *)
(***************************************************************************)
EXTENDS MCPages, Pages_proofs, Providers_proofs, Editor_proofs

(* A step of the window is one of each page: its own, or none.             *)
EachPageSteps ==
  /\ [EditorNext]_editorVars /\ [ProofNext]_proofVars /\ [TrNext]_trVars
  /\ [UpdateNext]_updateVars /\ [AudioNext]_audioVars /\ [SettingsNext]_settingsVars
  /\ [IngestNext]_ingestVars /\ [ProviderNext]_providerVars /\ [AsrNext]_asrVars
  /\ [CatalogNext]_catalogVars

LEMMA WindowStep == [PagesNext]_pagesVars => EachPageSteps
<1>. SUFFICES ASSUME [PagesNext]_pagesVars PROVE EachPageSteps
  OBVIOUS
<1>1. CASE EditorPage
  BY <1>1 DEF EditorPage, EachPageSteps, audioVars, settingsVars, playVars, waveVars
<1>2. CASE ProofreadingPage
  BY <1>2 DEF ProofreadingPage, EachPageSteps, settingsVars
<1>3. CASE TranslationPage
  BY <1>3 DEF TranslationPage, EachPageSteps, settingsVars
<1>4. CASE UpdatesPage
  BY <1>4 DEF UpdatesPage, EachPageSteps, settingsVars
<1>5. CASE PlayerPage
  BY <1>5 DEF PlayerPage, EachPageSteps, settingsVars, AudioNext
<1>6. CASE WaveformPage
  BY <1>6 DEF WaveformPage, EachPageSteps, settingsVars, AudioNext
<1>7. CASE SettingsPage
  BY <1>7 DEF SettingsPage, EachPageSteps, SettingsNext
<1>8. CASE PreferencesPage
  BY <1>8 DEF PreferencesPage, EachPageSteps, SettingsNext
<1>9. CASE StartPage
  BY <1>9 DEF StartPage, EachPageSteps, settingsVars, IngestNext
<1>10. CASE RecentPage
  BY <1>10 DEF RecentPage, EachPageSteps, settingsVars, IngestNext
<1>11. CASE ProvidersPage
  BY <1>11 DEF ProvidersPage, EachPageSteps, settingsVars
<1>12. CASE AsrProvidersPage
  BY <1>12 DEF AsrProvidersPage, EachPageSteps, settingsVars
<1>13. CASE ModelsPage
  BY <1>13 DEF ModelsPage, EachPageSteps, settingsVars
<1>14. CASE UNCHANGED pagesVars
  BY <1>14 DEF pagesVars, EachPageSteps
<1>. QED
  BY <1>1, <1>2, <1>3, <1>4, <1>5, <1>6, <1>7, <1>8, <1>9, <1>10, <1>11, <1>12, <1>13, <1>14
     DEF PagesNext

(* Every page starts as it does alone.                                     *)
LEMMA WindowStart ==
  PagesInit => /\ EditorInit /\ ProofInit /\ TrInit /\ UpdateInit /\ AudioInit
               /\ SettingsInit /\ IngestInit /\ ProviderInit /\ AsrInit /\ CatalogInit
BY DEF PagesInit

(* A behaviour of the window is one of every page: whatever the other      *)
(* pages do, each keeps to its own specification; the downloads of updates *)
(* but for their fairness, which this window does not assume.              *)
THEOREM WindowImplementsPages ==
  PagesSpec =>
    /\ EditorSpec /\ ProofSpec /\ TrSpec /\ AudioSpec /\ SettingsSpec /\ IngestSpec
    /\ ProviderSpec /\ AsrSpec /\ CatalogSpec
    /\ UpdateInit /\ [][UpdateNext]_updateVars
<1>1. EachPageSteps =>
        /\ [EditorNext]_editorVars /\ [ProofNext]_proofVars /\ [TrNext]_trVars
        /\ [UpdateNext]_updateVars /\ [AudioNext]_audioVars /\ [SettingsNext]_settingsVars
        /\ [IngestNext]_ingestVars /\ [ProviderNext]_providerVars /\ [AsrNext]_asrVars
        /\ [CatalogNext]_catalogVars
  BY DEF EachPageSteps
<1>. QED
  BY <1>1, WindowStart, WindowStep, PTL
     DEF PagesSpec, EditorSpec, ProofSpec, TrSpec, AudioSpec, SettingsSpec, IngestSpec,
         ProviderSpec, AsrSpec, CatalogSpec

(* Every variable of every page has its type, whatever is done on the      *)
(* pages and however late their answers are.                               *)
THEOREM PagesTypeOKHolds == PagesSpec => []PagesTypeOK
<1>1. /\ EditorTypeOK /\ ProofTypeOK /\ TrTypeOK /\ UpdateTypeOK /\ AudioTypeOK
      /\ SettingsTypeOK /\ IngestTypeOK /\ ProviderTypeOK /\ AsrTypeOK /\ CatalogTypeOK
      => PagesTypeOK
  BY DEF PagesTypeOK
<1>. QED
  BY <1>1, WindowImplementsPages, EditorTypeOKHolds, ProofTypeHolds, TrTypeHolds,
     UpdateTypeHolds, AudioTypeHolds, SettingsTypeHolds, IngestTypeHolds, ProviderTypeHolds,
     AsrTypeHolds, CatalogTypeHolds, PTL
     DEF ProofSpec, TrSpec, AudioSpec, SettingsSpec, IngestSpec, ProviderSpec, AsrSpec,
         CatalogSpec

(* What the pages promise one by one, the window keeps: what is marked is  *)
(* what is replaced, runs have workers, the review shown is the reviewed   *)
(* text, one download writes, the waveform is of the track shown, a saved  *)
(* default and a saved provider are not overwritten, and nothing is        *)
(* applied unreviewed, created unfit or used untested.                     *)
THEOREM WindowKeepsPromises ==
  PagesSpec =>
    /\ []MarkedIsReplaced /\ []ActiveRunHasWorker /\ []TrReviewIsCurrent /\ []OneTransfer
    /\ []WaveformIsCurrent /\ []SavedDefaultIsKept /\ []SavedIsOwn
    /\ AppliedIsReviewed /\ CreatedFitsModel /\ AppliedWasTested
<1>1. UpdateInit /\ [][UpdateNext]_updateVars => []OneTransfer
  BY UpdateInvInit, UpdateStep, UpdateInvIsOneTransfer, PTL
<1>. QED
  BY <1>1, WindowImplementsPages, MarkedIsReplacedHolds, RunsHaveWorkers, TrReviewIsCurrentHolds,
     WaveformHolds, SavedDefaultIsKeptHolds, SavedIsOwnHolds, ReviewedIsApplied,
     CreatedFitsModelHolds, TestedIsApplied, PTL
=============================================================================
