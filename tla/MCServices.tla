---- MODULE MCServices ----
(***************************************************************************)
(* The jobs that the server runs in threads of its own, beside the tasks:  *)
(* translation runs, the relocation of the models, the installation of the *)
(* CUDA kit; and the file with the media folders.  They share no variable: *)
(* a behaviour follows the one chosen at its start, and TLC explores the   *)
(* sum of the state spaces instead of their product.                       *)
(***************************************************************************)
EXTENDS MCTranslation, ModelStorage, MCKit, MediaFolders

VARIABLE service

servicesVars == <<service, vars, storageVars, kitVars, folderVars>>

(* Only its own service needs all the initial states of a component.       *)
ServicesInit ==
  /\ service \in {"translation", "storage", "cuda", "folders"}
  /\ Init /\ StorageInit /\ KitInit /\ FoldersInit
  /\ (service # "storage" => disk["b"] = {})
  /\ (service # "cuda" => kitRelease = 1)
  /\ (service # "folders" => enforced.keys = {} /\ enforced.container)

TranslationService ==
  /\ service = "translation" /\ Next
  /\ UNCHANGED <<service, storageVars, kitVars, folderVars>>
StorageService ==
  /\ service = "storage" /\ StorageNext
  /\ UNCHANGED <<service, vars, kitVars, folderVars>>
KitService ==
  /\ service = "cuda" /\ KitNext
  /\ UNCHANGED <<service, vars, storageVars, folderVars>>
FolderService ==
  /\ service = "folders" /\ FoldersNext
  /\ UNCHANGED <<service, vars, storageVars, kitVars>>

ServicesNext == TranslationService \/ StorageService \/ KitService \/ FolderService

ServicesSpec == ServicesInit /\ [][ServicesNext]_servicesVars

(* Every variable of every service has its type.                           *)
ServicesTypeOK ==
  /\ service = "translation" => TypeOK
  /\ service = "storage" => StorageTypeOK
  /\ service = "cuda" => KitTypeOK
  /\ service = "folders" => FoldersTypeOK
====
