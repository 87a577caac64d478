--------------------------- MODULE TranslationDesk ---------------------------
(* The translation panel of one task (TranslationPanel.tsx) beside a server   *)
(* whose runs other windows and clients start, cancel and revise as well: the *)
(* run that is shown, the saved version open in the editor, the edits of it   *)
(* that are not saved, and the calls under way.  Translation.tla models the   *)
(* server in detail; here a run only has a status and numbered revisions.     *)
EXTENDS Naturals, Sequences, SequencesExt

CONSTANTS MaxTrRuns,     \* bound: runs
          MaxRevisions,  \* bound: revisions of a run
          MaxOwnCalls    \* bound: calls of the panel

(* There is room for the run, and its revision, that may be there first.      *)
ASSUME TranslationDeskAssumption ==
  MaxTrRuns \in Nat \ {0} /\ MaxRevisions \in Nat \ {0} /\ MaxOwnCalls \in Nat

VARIABLES trRuns,        \* runs of the server, oldest first
          trShown,       \* the runs the panel was given last; "unknown" for a gap
          trAsking,      \* its request for them, with the answer
          trRoute,       \* ?run= of the address, 0 for none
          trReview,      \* the mounted review: run and version open in it
          trEdited,      \* the editor holds edits that are not saved
          trGuarded,     \* dirty of the panel: leaving asks, a start is locked
          trSaves,       \* saves under way
          trCalls,       \* starts, cancellations and retries under way
          trSent         \* calls sent so far

trVars == <<trRuns, trShown, trAsking, trRoute, trReview, trEdited, trGuarded, trSaves,
            trCalls, trSent>>

TrAsked == [step |-> "asked", answer |-> <<>>]
TrQuiet == [step |-> "none", answer |-> <<>>]
NoReview == [run |-> 0, version |-> 0]
TrActive(list) == \E r \in DOMAIN list : list[r].status = "active"

TrKnown(list) == {r \in DOMAIN list : list[r].status # "unknown"}

(* The run of the address, or the newest one. *)
TrCurrent(list, route) ==
  IF route = 0 THEN Len(list) ELSE IF route \in TrKnown(list) THEN route ELSE 0

(* Variant: the review is not keyed by its run.                               *)
TrMountedOnce(list, route) ==
  LET run == TrCurrent(list, route) IN
  IF run = 0 \/ list[run].revisions = 0 THEN NoReview
  ELSE IF trReview # NoReview THEN trReview
  ELSE [run |-> run, version |-> list[run].revisions]

(* TranslationReview is keyed by the run and takes the latest version of that *)
(* moment; it stays as it is while the same run is shown.                     *)
TrMounted(list, route) ==
  LET run == TrCurrent(list, route) IN
  IF run = 0 THEN NoReview
  ELSE IF list[run].revisions = 0 THEN NoReview
  ELSE IF trReview.run = run THEN trReview
  ELSE [run |-> run, version |-> list[run].revisions]

(* A save outlives its editor, and its review, when these are unmounted.      *)
TrOrphaned(saves, review) ==
  {[s EXCEPT !.here = @ /\ review = trReview, !.review = @ /\ review.run = trReview.run]
     : s \in saves}

TrShow(list, route) ==
  /\ trShown' = list /\ trRoute' = route
  /\ trReview' = TrMounted(list, route)
  /\ trEdited' = (trEdited /\ trReview' = trReview)
  /\ trGuarded' = (trGuarded /\ trReview' = trReview)

TrInit ==
  /\ trRuns \in {<<>>, <<[status |-> "ended", revisions |-> 1]>>}
  /\ trShown = <<>> /\ trAsking = TrAsked /\ trRoute \in {0, 1}
  /\ trReview = NoReview /\ trEdited = FALSE /\ trGuarded = FALSE
  /\ trSaves = {} /\ trCalls = {} /\ trSent = 0

(* Worker, other windows and clients of the server. *)
TrOthers ==
  /\ \/ \E r \in DOMAIN trRuns :
          \/ /\ trRuns[r].status = "active"
             /\ \E published \in {0, 1} :
                  trRuns' = [trRuns EXCEPT ![r] = [status |-> "ended",
                               revisions |-> IF @.revisions = 0 THEN published ELSE @.revisions]]
          \/ /\ trRuns[r].revisions \in 1..(MaxRevisions - 1)
             /\ trRuns' = [trRuns EXCEPT ![r].revisions = @ + 1]
     \/ /\ ~TrActive(trRuns) /\ Len(trRuns) < MaxTrRuns
        /\ trRuns' = Append(trRuns, [status |-> "active", revisions |-> 0])
  /\ UNCHANGED <<trShown, trAsking, trRoute, trReview, trEdited, trGuarded, trSaves, trCalls, trSent>>

(* Every 1.2 s while a shown run is active, else every 5 s. *)
TrPoll ==
  /\ trAsking.step = "none" /\ trAsking' = TrAsked
  /\ UNCHANGED <<trRuns, trShown, trRoute, trReview, trEdited, trGuarded, trSaves, trCalls, trSent>>

TrAnswer ==
  /\ trAsking.step = "asked"
  /\ trAsking' = [step |-> "answered", answer |-> trRuns]
  /\ UNCHANGED <<trRuns, trShown, trRoute, trReview, trEdited, trGuarded, trSaves, trCalls, trSent>>

TrArrives ==
  /\ trAsking.step = "answered" /\ trAsking' = TrQuiet
  /\ TrShow(trAsking.answer, trRoute)
  /\ trSaves' = TrOrphaned(trSaves, trReview')
  /\ UNCHANGED <<trRuns, trCalls, trSent>>

TrSend(call) ==
  /\ trSent < MaxOwnCalls /\ trSent' = trSent + 1
  /\ trCalls' = trCalls \cup {call}
  /\ UNCHANGED <<trRuns, trShown, trAsking, trRoute, trReview, trEdited, trGuarded, trSaves>>

(* Disabled while a shown run is active, a start is under way or the panel    *)
(* knows of edits that are not saved.                                         *)
TrStart ==
  /\ ~TrActive(trShown) /\ ~trGuarded /\ \A c \in trCalls : c.kind # "start"
  /\ TrSend([kind |-> "start", run |-> 0])

(* The answer is put in front of the cached runs and shown; an edit begun     *)
(* meanwhile makes the blocker ask, if the panel knows of it: the user may    *)
(* stay.                                                                      *)
TrStarted(c) ==
  /\ c \in trCalls /\ c.kind = "start"
  /\ ~TrActive(trRuns) /\ Len(trRuns) < MaxTrRuns
  /\ LET run == [status |-> "active", revisions |-> 0]
         id == Len(trRuns) + 1
     IN /\ trRuns' = Append(trRuns, run)
        /\ \E route \in {id} \cup (IF trGuarded THEN {trRoute} ELSE {}) :
             TrShow([r \in 1..id |-> CASE r = id -> run
                                       [] r \in DOMAIN trShown -> trShown[r]
                                       [] OTHER -> [run EXCEPT !.status = "unknown"]],
                    route)
  /\ trAsking' = TrAsked /\ trCalls' = trCalls \ {c}
  /\ trSaves' = TrOrphaned(trSaves, trReview')
  /\ UNCHANGED trSent

(* One action at a time, for the run on the screen. *)
TrAct(kind) ==
  LET run == TrCurrent(trShown, trRoute) IN
  /\ run # 0 /\ \A c \in trCalls : c.kind = "start"
  /\ (trShown[run].status = "active") = (kind = "cancel")
  /\ TrSend([kind |-> kind, run |-> run])

TrActed(c) ==
  /\ c \in trCalls /\ c.kind # "start" /\ c.run \in DOMAIN trRuns
  /\ IF c.kind = "cancel" THEN trRuns[c.run].status = "active"
                          ELSE ~TrActive(trRuns) /\ trRuns[c.run].revisions = 0
  /\ trRuns' = [trRuns EXCEPT ![c.run].status = IF c.kind = "cancel" THEN "ended" ELSE "active"]
  /\ trAsking' = TrAsked /\ trCalls' = trCalls \ {c}
  /\ UNCHANGED <<trShown, trRoute, trReview, trEdited, trGuarded, trSaves, trSent>>

TrRefused(c) ==
  /\ c \in trCalls /\ trCalls' = trCalls \ {c}
  /\ UNCHANGED <<trRuns, trShown, trAsking, trRoute, trReview, trEdited, trGuarded, trSaves, trSent>>

(* The history of runs navigates, and the blocker asks first. *)
TrChooseRun(r) ==
  /\ r \in TrKnown(trShown) /\ r # TrCurrent(trShown, trRoute)
  /\ TrShow(trShown, r)
  /\ trSaves' = TrOrphaned(trSaves, trReview')
  /\ UNCHANGED <<trRuns, trAsking, trCalls, trSent>>

(* Another saved version, after the same question. *)
TrChooseVersion(v) ==
  /\ trReview # NoReview /\ v \in 1..trRuns[trReview.run].revisions /\ v # trReview.version
  /\ trReview' = [trReview EXCEPT !.version = v] /\ trEdited' = FALSE /\ trGuarded' = FALSE
  /\ trSaves' = TrOrphaned(trSaves, trReview')
  /\ UNCHANGED <<trRuns, trShown, trAsking, trRoute, trCalls, trSent>>

(* Locked while the save of this very editor is under way. *)
TrEdit ==
  /\ trReview # NoReview /\ ~trEdited /\ \A s \in trSaves : ~s.here
  /\ trEdited' = TRUE /\ trGuarded' = TRUE
  /\ UNCHANGED <<trRuns, trShown, trAsking, trRoute, trReview, trSaves, trCalls, trSent>>

TrDiscard ==
  /\ trEdited /\ \A s \in trSaves : ~s.here
  /\ trEdited' = FALSE /\ trGuarded' = FALSE
  /\ UNCHANGED <<trRuns, trShown, trAsking, trRoute, trReview, trSaves, trCalls, trSent>>

TrSave ==
  /\ trEdited /\ \A s \in trSaves : ~s.here
  /\ trSent < MaxOwnCalls /\ trSent' = trSent + 1
  /\ trSaves' = trSaves \cup {[run |-> trReview.run, base |-> trReview.version,
                               here |-> TRUE, review |-> TRUE]}
  /\ UNCHANGED <<trRuns, trShown, trAsking, trRoute, trReview, trEdited, trGuarded, trCalls>>

(* The server takes a revision of the latest version only; onSaved opens the  *)
(* new version in the review the save came from.  It takes the panel's flag   *)
(* back in any case, also when that review is gone and another one is edited. *)
TrSaved(s) ==
  /\ s \in trSaves /\ trRuns[s.run].revisions = s.base /\ s.base < MaxRevisions
  /\ trRuns' = [trRuns EXCEPT ![s.run].revisions = s.base + 1]
  /\ IF s.review THEN trReview' = [trReview EXCEPT !.version = s.base + 1] /\ trEdited' = FALSE
                 ELSE UNCHANGED <<trReview, trEdited>>
  /\ trGuarded' = FALSE
  /\ trSaves' = TrOrphaned(trSaves \ {s}, trReview')
  /\ trAsking' = TrAsked
  /\ UNCHANGED <<trShown, trRoute, trCalls, trSent>>

(* A conflict, or a call that fails: the edits stay. *)
TrSaveFails(s) ==
  /\ s \in trSaves /\ trSaves' = trSaves \ {s}
  /\ UNCHANGED <<trRuns, trShown, trAsking, trRoute, trReview, trEdited, trGuarded, trCalls, trSent>>

TrNext ==
  \/ TrOthers
  \/ TrPoll
  \/ TrAnswer
  \/ TrArrives
  \/ TrStart
  \/ \E c \in trCalls : TrStarted(c)
  \/ \E kind \in {"cancel", "retry"} : TrAct(kind)
  \/ \E c \in trCalls : TrActed(c)
  \/ \E c \in trCalls : TrRefused(c)
  \/ \E r \in 1..MaxTrRuns : TrChooseRun(r)
  \/ \E v \in 1..MaxRevisions : TrChooseVersion(v)
  \/ TrEdit
  \/ TrDiscard
  \/ TrSave
  \/ \E s \in trSaves : TrSaved(s)
  \/ \E s \in trSaves : TrSaveFails(s)

TrSpec == TrInit /\ [][TrNext]_trVars

TrTypeOK ==
  /\ \A list \in {trRuns, trShown, trAsking.answer} :
       list \in Seq([status : {"active", "ended", "unknown"}, revisions : 0..MaxRevisions])
  /\ trAsking.step \in {"none", "asked", "answered"} /\ trRoute \in 0..MaxTrRuns
  /\ trReview \in [run : 0..MaxTrRuns, version : 0..MaxRevisions]
  /\ trEdited \in BOOLEAN /\ trGuarded \in BOOLEAN
  /\ trSaves \subseteq [run : 1..MaxTrRuns, base : 1..MaxRevisions, here : BOOLEAN,
                        review : BOOLEAN]
  /\ trCalls \subseteq [kind : {"start", "cancel", "retry"}, run : 0..MaxTrRuns]
  /\ trSent \in 0..MaxOwnCalls

(* The editor is open on a version that exists, of the run on the screen, and *)
(* nothing is edited without one: what a save is based on (trReview) is what  *)
(* the user has before his eyes, whatever run was on the screen before.       *)
TrReviewIsCurrent ==
  /\ trReview # NoReview => /\ trReview.run = TrCurrent(trShown, trRoute)
                            /\ trReview.version \in 1..trRuns[trReview.run].revisions
  /\ trEdited => trReview # NoReview
==============================================================================
