---------------------------- MODULE MediaFolders ----------------------------
(* Where media are kept: media-storage.json (config.py, media_storage.py) and *)
(* the panel of the settings page that edits it (MediaStorageSettings.tsx),   *)
(* while another window, the disk and the environment also have a say.  The   *)
(* panel is filled from the last answer and saves only what differs from it.  *)
EXTENDS Integers, Sequences

CONSTANTS Folders,         \* directories that can be picked
          MaxFolderEdits,  \* bound: picks and toggles by hand
          MaxFolderSaves,  \* bound: saves of this window and of others
          MaxFolderFaults  \* bound: changes of the disk

ASSUME FoldersAssumption == {MaxFolderEdits, MaxFolderSaves, MaxFolderFaults} \subseteq Nat

VARIABLES file,      \* media-storage.json: each key, or absent
          readable,  \* whether it can be read and parsed
          place,     \* what each folder is on the disk
          enforced,  \* the directories the environment sets, and the runtime
          seen,      \* settingsQuery.data, or none yet
          folderDraft,  \* ingestMode, deleteDerived and pendingDirs
          touched,   \* the keys the user set since the panel was filled
          folderRead,  \* the query: step, and what it saw
          folderSave,    \* the save: step, payload, and what was touched
          folderEdits, folderSaves, faults  \* counters for the bounds

folderFileVars == <<file, readable, place, enforced>>
panelOfFolders == <<seen, folderDraft, touched>>
folderCounts == <<folderEdits, folderSaves, faults>>
folderVars == <<folderFileVars, panelOfFolders, folderRead, folderSave, folderCounts>>

Absent == "absent"
DirKeys == {"uploads_dir", "derived_audio_dir"}
Keys == DirKeys \cup {"ingest_mode", "delete_derived"}
Own == {"default", "enforced"}   \* directories the panel did not pick: there, usable
Offers(key) == CASE key \in DirKeys -> Folders
                 [] key = "ingest_mode" -> {"reference", "copy"}
                 [] OTHER -> {"yes", "no"}
Places == {"available", "read_only", "not_a_directory", "path_missing"}
NoKeys == [key \in Keys |-> Absent]
NoAnswer == [values |-> NoKeys, status |-> [key \in DirKeys |-> Absent]]
NoFolderSave == [step |-> "none", payload |-> NoKeys, touched |-> {}]

(* A file that cannot be read is taken for an empty one.                      *)
StoredKeys == IF readable THEN file ELSE NoKeys

(* The environment first, then the file, then the default.                    *)
Locked(key) == key \in enforced.keys
Resolve(key) ==
  CASE Locked(key) -> "enforced"
    [] ~Locked(key) /\ StoredKeys[key] # Absent -> StoredKeys[key]
    [] OTHER -> IF key \in DirKeys THEN "default"
                ELSE IF key = "ingest_mode" THEN "reference" ELSE "no"

LocationStatus(folder) == IF folder \in Own THEN "available" ELSE place[folder]

InspectMediaStorage ==
  LET values == [key \in Keys |-> Resolve(key)]
  IN [values |-> values, status |-> [key \in DirKeys |-> LocationStatus(values[key])]]

FoldersInit ==
  /\ file = NoKeys /\ readable = TRUE /\ place = [f \in Folders |-> "path_missing"]
  /\ enforced \in [keys : {{}, {"uploads_dir"}}, container : BOOLEAN]
  /\ seen = NoAnswer /\ folderDraft = [NoKeys EXCEPT !["ingest_mode"] = "reference",
                                                !["delete_derived"] = "no"]
  /\ touched = {} /\ folderRead = [step |-> "none", saw |-> NoAnswer]
  /\ folderSave = NoFolderSave
  /\ folderEdits = 0 /\ folderSaves = 0 /\ faults = 0

(***************************************************************************)
(* The panel.                                                              *)
(***************************************************************************)
Draft(key, value) ==
  /\ folderEdits < MaxFolderEdits /\ folderEdits' = folderEdits + 1
  /\ folderDraft' = [folderDraft EXCEPT ![key] = value] /\ touched' = touched \cup {key}
  /\ UNCHANGED <<folderFileVars, seen, folderRead, folderSave, folderSaves, faults>>

(* The buttons are off for a directory the environment sets and in a          *)
(* container, but only once an answer says so.                                *)
PickDirectory ==
  \E key \in DirKeys, folder \in Folders :
    /\ seen # NoAnswer => ~Locked(key) /\ ~enforced.container
    /\ Draft(key, folder)
ChooseMode == /\ seen # NoAnswer /\ ~enforced.container
              /\ \E mode \in Offers("ingest_mode") : Draft("ingest_mode", mode)
ToggleDelete == \E flag \in Offers("delete_derived") : Draft("delete_derived", flag)

(* Variant: the whole panel is sent.                                          *)
WholePanel == [key \in Keys |-> IF folderDraft[key] \in Own THEN Absent ELSE folderDraft[key]]

FolderPayload == [key \in Keys |-> IF folderDraft[key] # seen.values[key] THEN folderDraft[key] ELSE Absent]

SaveFolders ==
  /\ seen # NoAnswer /\ folderDraft # seen.values
  /\ folderSave.step = "none" /\ folderSaves < MaxFolderSaves
  /\ folderSave' = [step |-> "asked", payload |-> FolderPayload, touched |-> touched]
  /\ folderSaves' = folderSaves + 1
  /\ UNCHANGED <<folderFileVars, panelOfFolders, folderRead, folderEdits, faults>>

(* onSuccess reads the settings again; onError only reports.                  *)
FoldersSaved ==
  /\ folderSave.step \in {"answered", "refused"} /\ folderSave' = NoFolderSave
  /\ folderRead' = IF folderSave.step = "answered" THEN [step |-> "asked", saw |-> NoAnswer]
                   ELSE folderRead
  /\ UNCHANGED <<folderFileVars, panelOfFolders, folderCounts>>

(* On mount, on focus and by Refresh.                                         *)
ReadFolders ==
  /\ folderRead.step = "none" /\ folderRead' = [step |-> "asked", saw |-> NoAnswer]
  /\ UNCHANGED <<folderFileVars, panelOfFolders, folderSave, folderCounts>>

FoldersSeen ==
  /\ folderRead.step = "asked"
  /\ folderRead' = [step |-> "answered", saw |-> InspectMediaStorage]
  /\ UNCHANGED <<folderFileVars, panelOfFolders, folderSave, folderCounts>>

(* The effect: an answer unlike the last one fills the panel anew, and drops  *)
(* what was picked, even when only the state of a directory differs.          *)
FoldersArrive ==
  /\ folderRead.step = "answered" /\ folderRead' = [step |-> "none", saw |-> NoAnswer]
  /\ seen' = folderRead.saw
  /\ folderDraft' = IF seen' = seen THEN folderDraft ELSE seen'.values
  /\ touched' = IF seen' = seen THEN touched ELSE {}
  /\ UNCHANGED <<folderFileVars, folderSave, folderCounts>>

(***************************************************************************)
(* The service.  Directories are made and tested first, in this order, and *)
(* one that is made stays although a later check refuses the whole.        *)
(***************************************************************************)
Picked(payload) == SelectSeq(<<"uploads_dir", "derived_audio_dir">>,
                             LAMBDA key : payload[key] # Absent)
Usable(folder) == place[folder] \in {"available", "path_missing"}

(* What an update can leave of the file and the disk.  A refused one may also *)
(* never have arrived, or have failed to write the file.                      *)
Refusals(payload) ==
  LET keys == Picked(payload)
      made(n) == [f \in Folders |-> IF \E k \in 1..n : payload[keys[k]] = f THEN "available"
                                    ELSE place[f]]
      passes(n) == \A k \in 1..n : Usable(payload[keys[k]])
  IN {[file |-> file, readable |-> readable, place |-> made(n)] :
      n \in {0} \cup {m \in 0..Len(keys) : passes(m)
        /\ (m < Len(keys) => place[payload[keys[m + 1]]] # "available")}}

(* The whole file is written anew, from what could be read of it.             *)
AcceptedFolders(payload) ==
  [file |-> [key \in Keys |-> IF payload[key] # Absent THEN payload[key] ELSE StoredKeys[key]],
   readable |-> TRUE,
   place |-> [f \in Folders |-> IF \E key \in DirKeys : payload[key] = f THEN "available"
                                ELSE place[f]]]
AcceptableFolders(payload) ==
  \A k \in DOMAIN Picked(payload) : /\ Usable(payload[Picked(payload)[k]])
                                    /\ ~Locked(Picked(payload)[k])

UpdateMediaStorage(payload, outcome) ==
  LET results == IF outcome = "refused" THEN Refusals(payload)
                 ELSE IF AcceptableFolders(payload) THEN {AcceptedFolders(payload)} ELSE {}
  IN \E r \in results : file' = r.file /\ readable' = r.readable /\ place' = r.place

SaveHandled ==
  /\ folderSave.step = "asked"
  /\ \E outcome \in {"answered", "refused"} :
       /\ UpdateMediaStorage(folderSave.payload, outcome)
       /\ folderSave' = [folderSave EXCEPT !.step = outcome]
  /\ UNCHANGED <<enforced, panelOfFolders, folderRead, folderCounts>>

(* Another window saves one key.                                              *)
OtherSaves ==
  /\ folderSaves < MaxFolderSaves /\ folderSaves' = folderSaves + 1
  /\ \E key \in Keys : \E value \in Offers(key) :
       UpdateMediaStorage([NoKeys EXCEPT ![key] = value], "answered")
  /\ UNCHANGED <<enforced, panelOfFolders, folderRead, folderSave, folderEdits, faults>>

(* A folder comes, goes or changes; the file cannot be read, or can again.    *)
DiskChanges ==
  /\ faults < MaxFolderFaults /\ faults' = faults + 1
  /\ \/ \E f \in Folders, p \in Places : place' = [place EXCEPT ![f] = p] /\ UNCHANGED readable
     \/ readable' = ~readable /\ UNCHANGED place
  /\ UNCHANGED <<file, enforced, panelOfFolders, folderRead, folderSave, folderEdits, folderSaves>>

FoldersNext ==
  \/ PickDirectory \/ ChooseMode \/ ToggleDelete \/ SaveFolders \/ FoldersSaved
  \/ ReadFolders \/ FoldersSeen \/ FoldersArrive
  \/ SaveHandled \/ OtherSaves \/ DiskChanges

FoldersSpec == FoldersInit /\ [][FoldersNext]_folderVars

FoldersTypeOK ==
  /\ \A key \in Keys : file[key] \in Offers(key) \cup {Absent}
  /\ readable \in BOOLEAN /\ place \in [Folders -> Places]
  /\ \A key \in Keys : folderDraft[key] \in Offers(key) \cup Own \cup {Absent}
  /\ touched \subseteq Keys
  /\ folderRead.step \in {"none", "asked", "answered"}
  /\ folderSave.step \in {"none", "asked", "answered", "refused"}
  /\ folderEdits \in 0..MaxFolderEdits /\ folderSaves \in 0..MaxFolderSaves
  /\ faults \in 0..MaxFolderFaults

(* A save of this panel stores no key that its user did not set: what another *)
(* window stored in the meantime stays, however old the answer that filled    *)
(* the panel is.  A file that cannot be read is excepted: the save takes it    *)
(* for empty and drops what it held (update_media_storage_config).            *)
SavesOnlyTouched ==
  [][readable /\ folderSave.step = "asked" /\ folderSave'.step = "answered" =>
       \A key \in Keys \ folderSave.touched : file'[key] = file[key]]_folderVars
=============================================================================
