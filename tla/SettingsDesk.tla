---------------------------- MODULE SettingsDesk ----------------------------
(* The settings page (SettingsPage.tsx, ProvidersPage.tsx) and the service    *)
(* that keeps the defaults of transcriptions (settings.py); the preferences   *)
(* the window keeps for itself, with their export (uiStore.ts).  Two parts    *)
(* that share no state.  The page's form is filled from what the settings     *)
(* query last returned, a save sends the whole form, and two other buttons    *)
(* send a part of it.                                                         *)
EXTENDS Integers

CONSTANTS LocalModels, Providers,  \* what a default can name
          Fields,        \* preferences
          Lenient,       \* those of them with a fallback: color and padding
          MaxTypes,      \* bound: changes of the form by hand
          MaxWrites      \* bound: saves

(* A name is neither the null nor the mark of a key that is left out.         *)
ASSUME SettingsAssumption ==
  /\ {"null", "keep"} \cap (LocalModels \cup Providers) = {}
  /\ Lenient \subseteq Fields /\ {MaxTypes, MaxWrites} \subseteq Nat

VARIABLES kept,        \* asr_settings
          settings,      \* settingsQuery.data: its stamp, or none yet
          settingsRead,  \* the query: step and what it saw
          form,          \* language, backend, default model and workers
          writes,        \* save, updateToolPaths and setDefault: step and patch
          chosen,        \* what the user last saved, once it is kept
          types, writeCount,  \* counters for the bounds
          prefs,         \* uiStore: field -> "a" or "b", its valid values
          exported       \* the file with preferences

formVars == <<kept, settings, settingsRead, form, writes, chosen, types, writeCount>>
prefVars == <<prefs, exported>>
settingsVars == <<formVars, prefVars>>

Null == "null"
Languages == {"zh-Hans", "en", "zh-Hant", "mixed", "auto"}   \* TranscriptionLanguage
Codes == {"zh", "en", "auto"}
Automatic == [kind |-> "auto", name |-> Null]
DefaultChoices == {Automatic} \cup [kind : {"local"}, name : LocalModels]
                       \cup [kind : {"provider"}, name : Providers]
Workers == {"one", "two", "none"}   \* what can be typed; the service takes 1 to 4
Buttons == {"save", "tools", "default", "model"}
Keep == "keep"           \* a key the patch leaves out

BackendLanguage(language) ==
  CASE language = "en" -> "en" [] language \in {"auto", "mixed"} -> "auto" [] OTHER -> "zh"
NormalizeLanguage(code) == IF code \in Languages THEN code ELSE "zh-Hans"

EncodeDefaultModel(s) ==
  LET name == IF s.backend = "provider" THEN s.provider ELSE s.model
  IN IF name = Null THEN Automatic ELSE [kind |-> s.backend, name |-> name]

(* The effect on settingsQuery.data.                                          *)
FormOf(s) == [language |-> NormalizeLanguage(s.language), backend |-> s.backend,
              choice |-> EncodeDefaultModel(s), workers |-> s.workers]

Unset == [backend |-> Keep, model |-> Keep, provider |-> Keep, language |-> Keep,
          workers |-> Keep, tools |-> Keep, stamp |-> 0]
Unasked == [step |-> "none", patch |-> Unset, chosen |-> Automatic, language |-> "auto"]
NoRead == [step |-> "none", saw |-> Unset]

FormInit ==
  /\ \E model \in LocalModels :
       kept = [backend |-> "local", model |-> model, provider |-> Null, language |-> "auto",
                 workers |-> "one", tools |-> "bundled", stamp |-> 0]
  /\ settings = -1 /\ settingsRead = NoRead
  /\ form = [language |-> "zh-Hans", backend |-> "local", choice |-> Automatic, workers |-> "one"]
  /\ writes = [b \in Buttons |-> Unasked]
  /\ chosen = [language |-> "auto", choice |-> EncodeDefaultModel(kept)]
  /\ types = 0 /\ writeCount = 0

(***************************************************************************)
(* The form.                                                               *)
(***************************************************************************)
Type(new) ==
  /\ types < MaxTypes /\ types' = types + 1
  /\ new # form /\ form' = new
  /\ UNCHANGED <<kept, settings, settingsRead, writes, chosen, writeCount>>

ChooseLanguage == \E language \in Languages : Type([form EXCEPT !.language = language])
(* Locked while a default model is chosen.                                    *)
ChooseBackend == /\ form.choice = Automatic
                 /\ \E b \in {"local", "provider"} : Type([form EXCEPT !.backend = b])
ChooseDefault == \E choice \in DefaultChoices : Type([form EXCEPT !.choice = choice])
TypeWorkers == \E n \in Workers : Type([form EXCEPT !.workers = n])

(* Variant: choosing a provider leaves the backend to its own select.         *)
SavePatchKeepingBackend ==
  LET choice == form.choice
  IN [backend |-> IF choice.kind = "local" THEN "local" ELSE form.backend,
      model |-> IF choice.kind = "local" THEN choice.name ELSE Null,
      provider |-> IF choice.kind = "provider" THEN choice.name ELSE Null,
      language |-> BackendLanguage(form.language), workers |-> form.workers, tools |-> Keep,
      stamp |-> 0]

(* The payload of save.                                                       *)
SavePatch ==
  LET choice == form.choice
      names == CASE choice.kind = "local" -> [backend |-> "local", model |-> choice.name,
                                              provider |-> Null]
                 [] choice.kind = "provider" -> [backend |-> "provider", model |-> Null,
                                                 provider |-> choice.name]
                 [] OTHER -> [backend |-> form.backend, model |-> Null, provider |-> Null]
  IN [backend |-> names.backend, model |-> names.model, provider |-> names.provider,
      language |-> BackendLanguage(form.language), workers |-> form.workers, tools |-> Keep,
      stamp |-> 0]

Press(button, patch, choice, language) ==
  /\ writes[button].step = "none" /\ writeCount < MaxWrites
  /\ writes' = [writes EXCEPT ![button] = [step |-> "asked", patch |-> patch,
                                           chosen |-> choice, language |-> language]]
  /\ writeCount' = writeCount + 1
  /\ UNCHANGED <<kept, settings, settingsRead, form, chosen, types>>

Save == Press("save", SavePatch, form.choice, form.language)

(* A tool is chosen, or the bundled ones again.                               *)
SetTools ==
  \E tools \in {"manual", "bundled"} :
    Press("tools", [Unset EXCEPT !.tools = tools], Automatic, "auto")

(* The Default button of a provider.                                          *)
SetDefaultProvider ==
  \E p \in Providers :
    Press("default", [Unset EXCEPT !.backend = "provider", !.provider = p],
          [kind |-> "provider", name |-> p], "auto")

(* The one of a model.                                                        *)
SetDefaultModel ==
  \E m \in LocalModels :
    Press("model", [Unset EXCEPT !.backend = "local", !.model = m, !.provider = Null],
          [kind |-> "local", name |-> m], "auto")

(* update_settings: a null is no value, but for the tools.                    *)
Patched(s, patch) ==
  [key \in DOMAIN s |-> IF key = "stamp" THEN s.stamp + 1
                        ELSE IF patch[key] \in {Keep, Null} THEN s[key] ELSE patch[key]]

(* Variant: the number of workers is stored as it comes.                      *)
AcceptedUnchecked(patch) == TRUE

AcceptedPatch(patch) == patch.workers # "none"

UpdateSettings ==
  \E b \in Buttons :
    /\ writes[b].step = "asked" /\ AcceptedPatch(writes[b].patch)
    /\ kept' = Patched(kept, writes[b].patch)
    /\ chosen' = CASE b = "save" -> [language |-> writes[b].language, choice |-> writes[b].chosen]
                   [] b \in {"default", "model"} -> [chosen EXCEPT !.choice = writes[b].chosen]
                   [] OTHER -> chosen
    /\ writes' = [writes EXCEPT ![b].step = "answered"]
    /\ UNCHANGED <<settings, settingsRead, form, types, writeCount>>

(* onSuccess: the settings are read again.                                    *)
Written ==
  \E b \in Buttons :
    /\ writes[b].step = "answered" /\ writes' = [writes EXCEPT ![b] = Unasked]
    /\ settingsRead' = [step |-> "asked", saw |-> Unset]
    /\ UNCHANGED <<kept, settings, form, chosen, types, writeCount>>

(* Refused, or not answered.                                                  *)
Refused ==
  \E b \in Buttons :
    /\ writes[b].step = "asked"
    /\ writes' = [writes EXCEPT ![b] = Unasked]
    /\ UNCHANGED <<kept, settings, settingsRead, form, chosen, types, writeCount>>

(* On mount, on focus and by Refresh.                                         *)
ReadSettings ==
  /\ settingsRead.step = "none"
  /\ settingsRead' = [step |-> "asked", saw |-> Unset]
  /\ UNCHANGED <<kept, settings, form, writes, chosen, types, writeCount>>

SettingsSeen ==
  /\ settingsRead.step = "asked"
  /\ settingsRead' = [step |-> "answered", saw |-> kept]
  /\ UNCHANGED <<kept, settings, form, writes, chosen, types, writeCount>>

(* Data with another stamp fills the form anew, whatever was typed.           *)
SettingsArrive ==
  /\ settingsRead.step = "answered" /\ settingsRead' = NoRead
  /\ settings' = settingsRead.saw.stamp
  /\ form' = IF settings' = settings THEN form ELSE FormOf(settingsRead.saw)
  /\ UNCHANGED <<kept, writes, chosen, types, writeCount>>

FormNext ==
  \/ ChooseLanguage \/ ChooseBackend \/ ChooseDefault \/ TypeWorkers
  \/ Save \/ SetTools \/ SetDefaultProvider \/ SetDefaultModel
  \/ UpdateSettings \/ Written \/ Refused
  \/ ReadSettings \/ SettingsSeen \/ SettingsArrive

(***************************************************************************)
(* Preferences.                                                            *)
(***************************************************************************)
Valid == {"a", "b"}
First == [f \in Fields |-> "a"]

(* A setter takes what the select offers.                                     *)
SetPref ==
  /\ \E f \in Fields, v \in Valid : prefs' = [prefs EXCEPT ![f] = v]
  /\ UNCHANGED exported

ExportSettings == exported' = prefs /\ UNCHANGED prefs

(* Somebody edits the file: other values, and fields left out.                *)
EditFile ==
  /\ \E f \in Fields, v \in {"other", "absent"} : exported' = [exported EXCEPT ![f] = v]
  /\ UNCHANGED prefs

(* Each field is taken when it is valid; some fall back to their default.     *)
ImportSettings ==
  /\ prefs' = [f \in Fields |-> IF exported[f] \in Valid THEN exported[f]
                                ELSE IF f \in Lenient /\ exported[f] = "other" THEN "a"
                                ELSE prefs[f]]
  /\ UNCHANGED exported

PrefNext == SetPref \/ ExportSettings \/ EditFile \/ ImportSettings

SettingsInit == FormInit /\ prefs = First /\ exported = First
SettingsNext == \/ FormNext /\ UNCHANGED prefVars
                \/ PrefNext /\ UNCHANGED formVars
SettingsSpec == SettingsInit /\ [][SettingsNext]_settingsVars

SettingsTypeOK ==
  /\ kept \in [backend : {"local", "provider"}, model : LocalModels,
                 provider : Providers \cup {Null}, language : Codes,
                 workers : Workers \ {"none"},
                 tools : {"manual", "bundled"}, stamp : Nat]
  /\ settingsRead.step \in {"none", "asked", "answered"}
  /\ form \in [language : Languages, backend : {"local", "provider"}, choice : DefaultChoices,
               workers : Workers]
  /\ \A b \in Buttons : writes[b].step \in {"none", "asked", "answered"}
  /\ chosen \in [language : Languages, choice : DefaultChoices]
  /\ types \in 0..MaxTypes /\ writeCount \in 0..MaxWrites
  /\ prefs \in [Fields -> Valid] /\ exported \in [Fields -> Valid \cup {"other", "absent"}]

(* The model or provider the user last saved as the default is the one the    *)
(* pages make of the kept settings, whichever button saved it, although a     *)
(* null that should clear the other name is dropped by the service.           *)
SavedDefaultIsKept ==
  chosen.choice # Automatic => EncodeDefaultModel(kept) = chosen.choice
=============================================================================
