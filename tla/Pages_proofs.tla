----------------------------- MODULE Pages_proofs ------------------------------
(* Proofs about the pages that work on tasks and their transcripts, for       *)
(* every number of tasks, runs, versions, requests and segments. Each part    *)
(* is about one component, has an inductive invariant of its own and          *)
(* mentions no other.                                                         *)
EXTENDS Proofreading, TranslationDesk, AudioDesk, Ingest, TaskDesk, AiDesk,
        SequenceTheorems, FiniteSetTheorems, TLAPS

--------------------------------------------------------------------------------
(* TranslationDesk: the version in the editor is of the run on the screen.    *)

(* The runs as the server has them, and as the page shows them; one the       *)
(* page made a row of without having asked for it is unknown.                 *)
TrRun == [status : {"active", "ended", "unknown"}, revisions : Nat]

(* What the server said of its runs once: they become more, and so do the     *)
(* revisions of each.                                                         *)
OnceTrue(list, held) ==
  /\ list \in Seq(TrRun) /\ Len(list) <= Len(held)
  /\ \A r \in 1..Len(list) : list[r].revisions <= held[r].revisions

(* The list on show, and the answer on its way, were true once.               *)
TrListsTrue ==
  /\ trRuns \in Seq(TrRun) /\ OnceTrue(trShown, trRuns) /\ OnceTrue(trAsking.answer, trRuns)

(* The open version, and the one a save comes from, are of their run.         *)
TrOpenIsSaved(review, held) ==
  review = NoReview \/ /\ review.run \in 1..Len(held)
                       /\ review.version \in 1..held[review.run].revisions
TrSavesTrue ==
  /\ trRoute \in Nat /\ trReview \in [run : Nat, version : Nat]
  /\ trSaves \subseteq [run : Nat, base : Nat, here : BOOLEAN, review : BOOLEAN]
  /\ \A s \in trSaves : /\ s.run \in 1..Len(trRuns) /\ s.base >= 1
                        /\ s.review => s.run = trReview.run

(* The open version exists, of the run on the screen; nothing is edited       *)
(* without one.                                                               *)
TrReviewTrue ==
  /\ TrOpenIsSaved(trReview, trRuns)
  /\ trReview # NoReview => trReview.run = TrCurrent(trShown, trRoute)
  /\ trEdited => trReview # NoReview

TrInv == TrListsTrue /\ TrSavesTrue /\ TrReviewTrue

(* The server goes on: nothing it said before becomes untrue.                 *)
TrGoesOn(held, new) ==
  /\ new \in Seq(TrRun) /\ Len(held) <= Len(new)
  /\ \A r \in 1..Len(held) : held[r].revisions <= new[r].revisions

(* The inductive invariant is stronger than what it is for.                   *)
LEMMA TrInvIsReviewIsCurrent == TrInv => TrReviewIsCurrent
BY DEF TrInv, TrReviewTrue, TrReviewIsCurrent, TrOpenIsSaved

LEMMA RevisionsAreNumbers ==
  ASSUME NEW held \in Seq(TrRun), NEW r \in 1..Len(held)
  PROVE  held[r] \in TrRun /\ held[r].revisions \in Nat
<1>1. held[r] \in TrRun
  BY ElementOfSeq
<1>. QED
  BY <1>1 DEF TrRun

(* What was true once stays so while the server goes on.                      *)
LEMMA OnceTrueStays ==
  ASSUME NEW held \in Seq(TrRun), NEW new, TrGoesOn(held, new), NEW list, OnceTrue(list, held)
  PROVE  OnceTrue(list, new)
<1>1. Len(list) \in Nat /\ Len(held) \in Nat /\ Len(new) \in Nat
  BY LenProperties DEF OnceTrue, TrGoesOn
<1>2. ASSUME NEW r \in 1..Len(list) PROVE list[r].revisions <= new[r].revisions
  <2>1. r \in 1..Len(held) /\ r \in 1..Len(new)
    BY <1>1 DEF OnceTrue, TrGoesOn
  <2>2. list[r] \in TrRun /\ held[r] \in TrRun /\ new[r] \in TrRun
    BY <2>1, ElementOfSeq DEF OnceTrue, TrGoesOn
  <2>3. list[r].revisions <= held[r].revisions /\ held[r].revisions <= new[r].revisions
    BY <2>1 DEF OnceTrue, TrGoesOn
  <2>. QED
    BY <2>2, <2>3 DEF TrRun
<1>. QED
  BY <1>1, <1>2 DEF OnceTrue, TrGoesOn

(* A version that exists goes on existing.                                    *)
LEMMA OpenIsSavedStays ==
  ASSUME NEW held \in Seq(TrRun), NEW new, TrGoesOn(held, new),
         NEW review \in [run : Nat, version : Nat], TrOpenIsSaved(review, held)
  PROVE  TrOpenIsSaved(review, new)
<1>. SUFFICES ASSUME review # NoReview PROVE TrOpenIsSaved(review, new)
  BY DEF TrOpenIsSaved
<1>1. Len(held) \in Nat /\ Len(new) \in Nat
  BY LenProperties DEF TrGoesOn
<1>2. review.run \in 1..Len(held) /\ review.version \in 1..held[review.run].revisions
  BY DEF TrOpenIsSaved
<1>3. review.run \in 1..Len(new)
  BY <1>1, <1>2 DEF TrGoesOn
<1>4. held[review.run].revisions \in Nat /\ new[review.run].revisions \in Nat
  BY <1>2, <1>3, RevisionsAreNumbers DEF TrGoesOn
<1>5. held[review.run].revisions <= new[review.run].revisions
  BY <1>2 DEF TrGoesOn
<1>6. review.version \in 1..new[review.run].revisions
  BY <1>2, <1>4, <1>5
<1>. QED
  BY <1>3, <1>6 DEF TrOpenIsSaved

(* The editor on a list that was true once is open on a version that exists.  *)
LEMMA MountedIsSaved ==
  ASSUME NEW held \in Seq(TrRun), trReview \in [run : Nat, version : Nat],
         TrOpenIsSaved(trReview, held), NEW list, OnceTrue(list, held), NEW place \in Nat
  PROVE  /\ TrMounted(list, place) \in [run : Nat, version : Nat]
         /\ TrOpenIsSaved(TrMounted(list, place), held)
         /\ TrMounted(list, place) # NoReview =>
              TrMounted(list, place).run = TrCurrent(list, place)
<1>. DEFINE run == TrCurrent(list, place)
<1>0. Len(list) \in Nat /\ DOMAIN list = 1..Len(list) /\ Len(held) \in Nat
  BY LenProperties DEF OnceTrue
<1>1. run \in 0..Len(list)
  BY <1>0 DEF TrCurrent, TrKnown
<1>2. NoReview \in [run : Nat, version : Nat]
  BY DEF NoReview
<1>3. CASE run = 0 \/ list[run].revisions = 0
  <2>1. TrMounted(list, place) = NoReview
    BY <1>3 DEF TrMounted
  <2>2. TrOpenIsSaved(NoReview, held)
    BY DEF TrOpenIsSaved
  <2>. QED
    BY <1>2, <2>1, <2>2
<1>4. CASE run # 0 /\ list[run].revisions # 0
  <2>1. run \in 1..Len(list) /\ run \in 1..Len(held)
    BY <1>0, <1>1, <1>4 DEF OnceTrue
  <2>2. list[run].revisions \in Nat /\ held[run].revisions \in Nat
    BY <2>1, RevisionsAreNumbers DEF OnceTrue
  <2>3. CASE trReview.run = run
    <3>1. TrMounted(list, place) = trReview
      BY <1>4, <2>3 DEF TrMounted
    <3>. QED
      BY <2>3, <3>1
  <2>4. CASE trReview.run # run
    <3>1. TrMounted(list, place) = [run |-> run, version |-> list[run].revisions]
      BY <1>4, <2>4 DEF TrMounted
    <3>2. list[run].revisions <= held[run].revisions
      BY <2>1 DEF OnceTrue
    <3>. QED
      BY <1>4, <2>1, <2>2, <3>1, <3>2 DEF TrOpenIsSaved
  <2>. QED
    BY <2>3, <2>4
<1>. QED
  BY <1>3, <1>4

(* What is rendered for such a list keeps the review true, and the saves.     *)
LEMMA OrphanedStaysTrue ==
  ASSUME TrSavesTrue, trRoute' \in Nat, NEW saves, saves \subseteq trSaves,
         trReview' \in [run : Nat, version : Nat], trSaves' = TrOrphaned(saves, trReview'),
         Len(trRuns') \in Nat,
         Len(trRuns) \in Nat, Len(trRuns) <= Len(trRuns')
  PROVE  TrSavesTrue'
<1>1. ASSUME NEW s \in trSaves'
      PROVE  /\ s \in [run : Nat, base : Nat, here : BOOLEAN, review : BOOLEAN]
             /\ s.run \in 1..Len(trRuns') /\ s.base >= 1 /\ (s.review => s.run = trReview'.run)
  <2>1. PICK old \in saves :
           s = [old EXCEPT !.here = @ /\ trReview' = trReview, !.review = @ /\ trReview'.run = trReview.run]
    BY <1>1 DEF TrOrphaned
  <2>2. old \in [run : Nat, base : Nat, here : BOOLEAN, review : BOOLEAN]
        /\ old.run \in 1..Len(trRuns) /\ old.base >= 1 /\ (old.review => old.run = trReview.run)
    BY DEF TrSavesTrue
  <2>3. (old.here /\ trReview' = trReview) \in BOOLEAN
        /\ (old.review /\ trReview'.run = trReview.run) \in BOOLEAN
    OBVIOUS
  <2>4. s = [run |-> old.run, base |-> old.base, here |-> (old.here /\ trReview' = trReview),
             review |-> (old.review /\ trReview'.run = trReview.run)]
    BY <2>1, <2>2
  <2>5. s \in [run : Nat, base : Nat, here : BOOLEAN, review : BOOLEAN]
    BY <2>2, <2>3, <2>4, Zenon
  <2>6. s.run = old.run /\ s.base = old.base /\ s.review = (old.review /\ trReview'.run = trReview.run)
    BY <2>4
  <2>. QED
    BY <2>2, <2>5, <2>6
<1>. QED
  BY <1>1 DEF TrSavesTrue

LEMMA NothingIsTrue == ASSUME NEW held \in Seq(TrRun) PROVE OnceTrue(<<>>, held)
<1>1. Len(held) \in Nat /\ <<>> \in Seq(TrRun) /\ Len(<<>>) = 0
  BY LenProperties, EmptySeq
<1>. QED
  BY <1>1 DEF OnceTrue

LEMMA TrInvInit == TrInit => TrInv
<1>. SUFFICES ASSUME TrInit PROVE TrInv
  OBVIOUS
<1>0. [status |-> "ended", revisions |-> 1] \in TrRun
  BY DEF TrRun
<1>1. trRuns \in Seq(TrRun)
  <2>1. <<>> \in Seq(TrRun) /\ <<[status |-> "ended", revisions |-> 1]>> \in Seq(TrRun)
    BY <1>0
  <2>. QED
    BY <2>1 DEF TrInit
<1>2. TrListsTrue
  BY <1>1, NothingIsTrue DEF TrInit, TrAsked, TrListsTrue
<1>3. TrSavesTrue /\ TrReviewTrue
  BY DEF TrInit, TrSavesTrue, TrReviewTrue, TrOpenIsSaved, NoReview
<1>. QED
  BY <1>2, <1>3 DEF TrInv

LEMMA SameGoesOn == ASSUME NEW held \in Seq(TrRun) PROVE TrGoesOn(held, held)
<1>1. Len(held) \in Nat
  BY LenProperties
<1>2. \A r \in 1..Len(held) : held[r].revisions <= held[r].revisions
  BY RevisionsAreNumbers
<1>. QED
  BY <1>1, <1>2 DEF TrGoesOn

(* The server goes on, or a call is sent or refused: what is shown is as true *)
(* as before.                                                                 *)
LEMMA OthersKeepTrue ==
  ASSUME TrInv, TrGoesOn(trRuns, trRuns'), trAsking'.answer \in {trAsking.answer, <<>>, trRuns'},
         UNCHANGED <<trShown, trRoute, trReview, trEdited>>,
         TrSavesTrue'
  PROVE  TrInv'
<1>1. trRuns' \in Seq(TrRun)
  BY DEF TrGoesOn
<1>2. OnceTrue(trRuns', trRuns')
  BY <1>1, SameGoesOn DEF OnceTrue, TrGoesOn
<1>3. OnceTrue(<<>>, trRuns')
  BY <1>1, NothingIsTrue
<1>4. OnceTrue(trAsking.answer, trRuns') /\ OnceTrue(trShown, trRuns')
  BY OnceTrueStays DEF TrInv, TrListsTrue
<1>5. TrListsTrue'
  BY <1>1, <1>2, <1>3, <1>4 DEF TrListsTrue
<1>6. TrOpenIsSaved(trReview, trRuns')
  BY OpenIsSavedStays DEF TrInv, TrReviewTrue, TrListsTrue, TrSavesTrue
<1>. QED
  BY <1>5, <1>6 DEF TrInv, TrReviewTrue

(* A list is shown: the editor is open on a version that exists of the run    *)
(* on the screen, and the saves know the editors that are gone.               *)
LEMMA ShowKeepsTrue ==
  ASSUME TrInv, TrGoesOn(trRuns, trRuns'), trAsking'.answer \in {trAsking.answer, <<>>},
         NEW list, OnceTrue(list, trRuns'), NEW place \in Nat, TrShow(list, place),
         trSaves' = TrOrphaned(trSaves, trReview')
  PROVE  TrInv'
<1>1. trRuns' \in Seq(TrRun) /\ trRuns \in Seq(TrRun)
  BY DEF TrGoesOn, TrInv, TrListsTrue
<1>2. TrListsTrue'
  BY <1>1, NothingIsTrue, OnceTrueStays DEF TrShow, TrListsTrue, TrInv
<1>3. TrOpenIsSaved(trReview, trRuns') /\ trReview \in [run : Nat, version : Nat]
  BY <1>1, OpenIsSavedStays DEF TrInv, TrReviewTrue, TrSavesTrue
<1>4. /\ trReview' \in [run : Nat, version : Nat] /\ TrOpenIsSaved(trReview', trRuns')
      /\ trReview' # NoReview => trReview'.run = TrCurrent(list, place)
  BY <1>1, <1>3, MountedIsSaved DEF TrShow
<1>5. trEdited' => trReview' # NoReview
  BY DEF TrShow, TrInv, TrReviewTrue
<1>6. Len(trRuns) \in Nat /\ Len(trRuns') \in Nat /\ Len(trRuns) <= Len(trRuns')
  BY <1>1, LenProperties DEF TrGoesOn
<1>7. TrSavesTrue'
  BY <1>4, <1>6, OrphanedStaysTrue DEF TrInv, TrShow
<1>. QED
  BY <1>2, <1>4, <1>5, <1>7 DEF TrInv, TrReviewTrue, TrShow

(* One run changes and loses no version.                                      *)
LEMMA RunGoesOn ==
  ASSUME NEW held \in Seq(TrRun), NEW r \in 1..Len(held), NEW run \in TrRun,
         held[r].revisions <= run.revisions
  PROVE  TrGoesOn(held, [held EXCEPT ![r] = run])
<1>1. [held EXCEPT ![r] = run] \in Seq(TrRun) /\ Len([held EXCEPT ![r] = run]) = Len(held)
      /\ \A o \in 1..Len(held) : [held EXCEPT ![r] = run][o] = IF o = r THEN run ELSE held[o]
  BY ExceptSeq
<1>2. \A o \in 1..Len(held) : held[o].revisions <= held[o].revisions
  BY RevisionsAreNumbers
<1>3. Len(held) \in Nat
  BY LenProperties
<1>. QED
  BY <1>1, <1>2, <1>3 DEF TrGoesOn

(* A run more.                                                                *)
LEMMA NewRunGoesOn ==
  ASSUME NEW held \in Seq(TrRun), NEW run \in TrRun
  PROVE  TrGoesOn(held, Append(held, run))
<1>1. Append(held, run) \in Seq(TrRun) /\ Len(Append(held, run)) = Len(held) + 1
      /\ \A o \in 1..Len(held) : Append(held, run)[o] = held[o]
  BY AppendProperties
<1>2. \A o \in 1..Len(held) : held[o].revisions <= held[o].revisions
  BY RevisionsAreNumbers
<1>3. Len(held) \in Nat
  BY LenProperties
<1>. QED
  BY <1>1, <1>2, <1>3 DEF TrGoesOn

LEMMA SavesStayTrue ==
  ASSUME TrInv, TrGoesOn(trRuns, trRuns'), UNCHANGED <<trRoute, trReview>>, trSaves' \subseteq trSaves
  PROVE  TrSavesTrue'
<1>1. Len(trRuns) \in Nat /\ Len(trRuns') \in Nat /\ Len(trRuns) <= Len(trRuns')
  BY LenProperties DEF TrInv, TrListsTrue, TrGoesOn
<1>. QED
  BY <1>1 DEF TrInv, TrSavesTrue

(* One step per action of the page, of the server and of the other windows.   *)
LEMMA TrStep == TrInv /\ [TrNext]_trVars => TrInv'
<1>. SUFFICES ASSUME TrInv, [TrNext]_trVars PROVE TrInv'
  OBVIOUS
<1>0. /\ trRuns \in Seq(TrRun) /\ trShown \in Seq(TrRun)
      /\ Len(trRuns) \in Nat /\ Len(trShown) \in Nat /\ DOMAIN trRuns = 1..Len(trRuns)
      /\ DOMAIN trShown = 1..Len(trShown) /\ TrGoesOn(trRuns, trRuns)
      /\ Len(trShown) <= Len(trRuns)
  BY LenProperties, SameGoesOn DEF TrInv, TrListsTrue, OnceTrue
<1>1. CASE TrOthers
  <2>1. TrGoesOn(trRuns, trRuns')
    <3>1. ASSUME NEW r \in DOMAIN trRuns, NEW published \in {0, 1},
                 trRuns' = [trRuns EXCEPT ![r] = [status |-> "ended",
                               revisions |-> IF @.revisions = 0 THEN published ELSE @.revisions]]
          PROVE  TrGoesOn(trRuns, trRuns')
      <4>. DEFINE run == [status |-> "ended", revisions |-> IF trRuns[r].revisions = 0
                                                THEN published ELSE trRuns[r].revisions]
      <4>1. trRuns[r].revisions \in Nat
        BY <1>0, RevisionsAreNumbers
      <4>2. run \in TrRun /\ trRuns[r].revisions <= run.revisions
        BY <4>1 DEF TrRun
      <4>3. trRuns' = [trRuns EXCEPT ![r] = run]
        BY <3>1
      <4>. HIDE DEF run
      <4>. QED
        BY <1>0, <4>2, <4>3, RunGoesOn
    <3>2. ASSUME NEW r \in DOMAIN trRuns, trRuns' = [trRuns EXCEPT ![r].revisions = @ + 1]
          PROVE  TrGoesOn(trRuns, trRuns')
      <4>. DEFINE run == [trRuns[r] EXCEPT !.revisions = @ + 1]
      <4>1. trRuns[r] \in TrRun
        BY <1>0, RevisionsAreNumbers
      <4>2. run \in TrRun /\ trRuns[r].revisions <= run.revisions
        BY <4>1 DEF TrRun
      <4>3. trRuns' = [trRuns EXCEPT ![r] = run]
        BY <3>2
      <4>. HIDE DEF run
      <4>. QED
        BY <1>0, <4>2, <4>3, RunGoesOn
    <3>3. ASSUME trRuns' = Append(trRuns, [status |-> "active", revisions |-> 0])
          PROVE  TrGoesOn(trRuns, trRuns')
      <4>1. [status |-> "active", revisions |-> 0] \in TrRun
        BY DEF TrRun
      <4>. QED
        BY <1>0, <3>3, <4>1, NewRunGoesOn
    <3>. QED
      BY <1>1, <3>1, <3>2, <3>3 DEF TrOthers
  <2>. QED
    BY <1>1, <2>1, SavesStayTrue, OthersKeepTrue DEF TrOthers
<1>2. CASE TrPoll \/ TrAnswer \/ TrStart \/ (\E c \in trCalls : TrRefused(c))
           \/ \E kind \in {"cancel", "retry"} : TrAct(kind)
  <2>1. UNCHANGED <<trRuns, trShown, trRoute, trReview, trEdited, trSaves>>
        /\ trAsking'.answer \in {trAsking.answer, <<>>, trRuns'}
    BY <1>2 DEF TrPoll, TrAnswer, TrStart, TrRefused, TrAct, TrSend, TrAsked
  <2>. QED
    BY <1>0, <2>1, SavesStayTrue, OthersKeepTrue
<1>3. CASE TrArrives
  <2>1. OnceTrue(trAsking.answer, trRuns) /\ trRoute \in Nat
    BY DEF TrInv, TrListsTrue, TrSavesTrue
  <2>. QED
    BY <1>0, <1>3, <2>1, ShowKeepsTrue DEF TrArrives, TrQuiet
<1>4. ASSUME NEW c \in trCalls, TrStarted(c) PROVE TrInv'
  <2>. DEFINE run == [status |-> "active", revisions |-> 0]
              id == Len(trRuns) + 1
              list == [r \in 1..id |-> CASE r = id -> run
                                         [] r \in DOMAIN trShown -> trShown[r]
                                         [] OTHER -> [run EXCEPT !.status = "unknown"]]
  <2>1. trRuns' = Append(trRuns, run) /\ trAsking'.answer = <<>>
        /\ trSaves' = TrOrphaned(trSaves, trReview')
    BY <1>4 DEF TrStarted, TrAsked
  <2>2. PICK place \in {id, trRoute} : TrShow(list, place)
    BY <1>4 DEF TrStarted
  <2>3. place \in Nat
    BY <1>0 DEF TrInv, TrSavesTrue
  <2>4. run \in TrRun /\ [run EXCEPT !.status = "unknown"] \in TrRun
        /\ [run EXCEPT !.status = "unknown"].revisions = 0
    BY DEF TrRun
  <2>5. TrGoesOn(trRuns, trRuns') /\ trRuns' \in Seq(TrRun) /\ Len(trRuns') = id
    BY <1>0, <2>1, <2>4, NewRunGoesOn, AppendProperties
  <2>6. OnceTrue(trShown, trRuns')
    BY <1>0, <2>5, OnceTrueStays DEF TrInv, TrListsTrue
  <2>7. ASSUME NEW r \in 1..id
        PROVE  list[r] \in TrRun /\ list[r].revisions <= trRuns'[r].revisions
    <3>1. trRuns'[r].revisions \in Nat
      BY <2>5, RevisionsAreNumbers
    <3>2. CASE r = id
      <4>1. r \notin DOMAIN trShown
        BY <1>0, <3>2
      <4>2. list[r] = run
        BY <3>2, <4>1
      <4>. QED
        BY <2>4, <3>1, <4>2
    <3>3. CASE r # id /\ r \in DOMAIN trShown
      <4>1. list[r] = trShown[r] /\ trShown[r] \in TrRun
        BY <1>0, <3>3, RevisionsAreNumbers
      <4>2. trShown[r].revisions <= trRuns'[r].revisions
        BY <1>0, <2>6, <3>3 DEF OnceTrue
      <4>. QED
        BY <4>1, <4>2
    <3>4. CASE r # id /\ r \notin DOMAIN trShown
      <4>1. list[r] = [run EXCEPT !.status = "unknown"]
        BY <3>4
      <4>. QED
        BY <2>4, <3>1, <4>1
    <3>. QED
      BY <3>2, <3>3, <3>4
  <2>8. list \in Seq(TrRun) /\ Len(list) = id
    <3>1. list \in [1..id -> TrRun]
      BY <2>7
    <3>. HIDE DEF list
    <3>2. list \in Seq(TrRun)
      BY <1>0, <3>1, SeqDef
    <3>3. Len(list) \in Nat /\ 1..Len(list) = 1..id
      BY <3>1, <3>2, LenProperties
    <3>. QED
      BY <1>0, <3>2, <3>3
  <2>. HIDE DEF list
  <2>9. OnceTrue(list, trRuns')
    BY <2>5, <2>7, <2>8 DEF OnceTrue
  <2>. QED
    BY <2>1, <2>2, <2>3, <2>5, <2>9, ShowKeepsTrue
<1>5. ASSUME NEW c \in trCalls, TrActed(c) PROVE TrInv'
  <2>. DEFINE run == [trRuns[c.run] EXCEPT !.status = IF c.kind = "cancel" THEN "ended" ELSE "active"]
  <2>1. c.run \in 1..Len(trRuns) /\ trRuns[c.run] \in TrRun /\ trRuns[c.run].revisions \in Nat
    BY <1>0, <1>5, RevisionsAreNumbers DEF TrActed
  <2>2. run \in TrRun /\ trRuns[c.run].revisions <= run.revisions
    BY <2>1 DEF TrRun
  <2>3. trRuns' = [trRuns EXCEPT ![c.run] = run]
    BY <1>5 DEF TrActed
  <2>. HIDE DEF run
  <2>4. TrGoesOn(trRuns, trRuns')
    BY <1>0, <2>1, <2>2, <2>3, RunGoesOn
  <2>. QED
    BY <1>5, <2>4, SavesStayTrue, OthersKeepTrue DEF TrActed, TrAsked
<1>6. ASSUME NEW r \in 1..MaxTrRuns, TrChooseRun(r) PROVE TrInv'
  <2>1. OnceTrue(trShown, trRuns')
    BY <1>6 DEF TrInv, TrListsTrue, TrChooseRun
  <2>2. r \in Nat
    BY TranslationDeskAssumption
  <2>. QED
    BY <1>0, <1>6, <2>1, <2>2, ShowKeepsTrue DEF TrChooseRun
<1>7. ASSUME NEW v \in 1..MaxRevisions, TrChooseVersion(v) PROVE TrInv'
  <2>1. /\ trReview # NoReview /\ v \in 1..trRuns[trReview.run].revisions
        /\ trReview' = [trReview EXCEPT !.version = v] /\ trEdited' = FALSE
        /\ trSaves' = TrOrphaned(trSaves, trReview')
        /\ UNCHANGED <<trRuns, trShown, trAsking, trRoute>>
    BY <1>7 DEF TrChooseVersion
  <2>2. v \in Nat
    BY TranslationDeskAssumption
  <2>3. trReview' \in [run : Nat, version : Nat] /\ trReview'.run = trReview.run
        /\ trReview'.version = v
    BY <2>1, <2>2 DEF TrInv, TrSavesTrue
  <2>4. TrSavesTrue'
    <3>1. Len(trRuns') \in Nat /\ Len(trRuns) <= Len(trRuns') /\ trRoute' \in Nat
      BY <1>0, <2>1 DEF TrInv, TrSavesTrue
    <3>. QED
      BY <1>0, <2>1, <2>3, <3>1, OrphanedStaysTrue DEF TrInv
  <2>5. TrReviewTrue'
    BY <2>1, <2>3 DEF TrInv, TrReviewTrue, TrOpenIsSaved
  <2>. QED
    BY <2>1, <2>4, <2>5 DEF TrInv, TrListsTrue
<1>8. CASE TrEdit \/ TrDiscard \/ \E s \in trSaves : TrSaveFails(s)
  <2>1. TrSavesTrue'
    BY <1>0, <1>8, SavesStayTrue DEF TrEdit, TrDiscard, TrSaveFails
  <2>. QED
    BY <1>8, <2>1 DEF TrEdit, TrDiscard, TrSaveFails, TrInv, TrListsTrue, TrReviewTrue
<1>9. CASE TrSave
  <2>. DEFINE s == [run |-> trReview.run, base |-> trReview.version, here |-> TRUE, review |-> TRUE]
  <2>1. trReview # NoReview /\ trReview.run \in 1..Len(trRuns) /\ trReview.version \in Nat
        /\ trReview.version >= 1 /\ trReview.run \in Nat
    BY <1>9 DEF TrSave, TrInv, TrReviewTrue, TrOpenIsSaved, TrSavesTrue
  <2>2. s \in [run : Nat, base : Nat, here : BOOLEAN, review : BOOLEAN]
    BY <2>1
  <2>3. trSaves' = trSaves \cup {s} /\ UNCHANGED <<trRuns, trShown, trAsking, trRoute, trReview, trEdited>>
    BY <1>9 DEF TrSave
  <2>4. TrSavesTrue'
    <3>1. s.run \in 1..Len(trRuns') /\ s.base >= 1 /\ s.run = trReview'.run
      BY <2>1, <2>3
    <3>. HIDE DEF s
    <3>. QED
      BY <2>2, <2>3, <3>1 DEF TrInv, TrSavesTrue
  <2>. QED
    BY <2>3, <2>4 DEF TrInv, TrListsTrue, TrReviewTrue
<1>10. ASSUME NEW s \in trSaves, TrSaved(s) PROVE TrInv'
  <2>. DEFINE run == [trRuns[s.run] EXCEPT !.revisions = s.base + 1]
  <2>1. /\ s.run \in 1..Len(trRuns) /\ s.base \in Nat /\ s.base >= 1 /\ s.review \in BOOLEAN
        /\ s.review => s.run = trReview.run
    BY DEF TrInv, TrSavesTrue
  <2>2. trRuns[s.run] \in TrRun /\ trRuns[s.run].revisions = s.base
    BY <1>0, <1>10, <2>1, RevisionsAreNumbers DEF TrSaved
  <2>3. run \in TrRun /\ trRuns[s.run].revisions <= run.revisions /\ run.revisions = s.base + 1
    BY <2>1, <2>2 DEF TrRun
  <2>4. trRuns' = [trRuns EXCEPT ![s.run] = run]
    BY <1>10 DEF TrSaved
  <2>. HIDE DEF run
  <2>5. TrGoesOn(trRuns, trRuns') /\ trRuns' \in Seq(TrRun) /\ Len(trRuns') = Len(trRuns)
        /\ trRuns'[s.run].revisions = s.base + 1
    <3>1. /\ trRuns' \in Seq(TrRun) /\ Len(trRuns') = Len(trRuns)
          /\ \A o \in 1..Len(trRuns) : trRuns'[o] = IF o = s.run THEN run ELSE trRuns[o]
      BY <1>0, <2>1, <2>3, <2>4, ExceptSeq
    <3>2. TrGoesOn(trRuns, trRuns')
      BY <1>0, <2>1, <2>3, <2>4, RunGoesOn
    <3>. QED
      BY <2>1, <2>3, <3>1, <3>2
  <2>6. UNCHANGED <<trShown, trRoute>> /\ trAsking'.answer = <<>>
        /\ trSaves' = TrOrphaned(trSaves \ {s}, trReview')
    BY <1>10 DEF TrSaved, TrAsked
  <2>7. TrListsTrue'
    BY <1>0, <2>5, <2>6, OnceTrueStays, NothingIsTrue DEF TrInv, TrListsTrue
  <2>8. trReview' \in [run : Nat, version : Nat] /\ TrReviewTrue'
    <3>1. CASE s.review
      <4>1. trReview' = [trReview EXCEPT !.version = s.base + 1] /\ trEdited' = FALSE
        BY <1>10, <3>1 DEF TrSaved
      <4>2. trReview.run = s.run /\ trReview.run # 0 /\ trReview # NoReview
        BY <1>0, <2>1, <3>1 DEF NoReview
      <4>3. trReview' \in [run : Nat, version : Nat] /\ trReview'.run = s.run
            /\ trReview'.version = s.base + 1
        BY <2>1, <4>1, <4>2 DEF TrInv, TrSavesTrue
      <4>4. TrOpenIsSaved(trReview', trRuns')
        BY <2>1, <2>5, <4>3 DEF TrOpenIsSaved
      <4>. QED
        BY <2>6, <4>1, <4>2, <4>3, <4>4 DEF TrInv, TrReviewTrue
    <3>2. CASE ~s.review
      <4>1. UNCHANGED <<trReview, trEdited>>
        BY <1>10, <3>2 DEF TrSaved
      <4>2. TrOpenIsSaved(trReview, trRuns')
        BY <1>0, <2>5, OpenIsSavedStays DEF TrInv, TrReviewTrue, TrSavesTrue
      <4>. QED
        BY <2>6, <4>1, <4>2 DEF TrInv, TrReviewTrue, TrSavesTrue
    <3>. QED
      BY <3>1, <3>2
  <2>9. TrSavesTrue'
    <3>1. Len(trRuns') \in Nat /\ Len(trRuns) <= Len(trRuns') /\ trRoute' \in Nat
      BY <1>0, <2>5, <2>6 DEF TrInv, TrSavesTrue
    <3>2. trSaves \ {s} \subseteq trSaves
      OBVIOUS
    <3>. QED
      BY <1>0, <2>6, <2>8, <3>1, <3>2, OrphanedStaysTrue DEF TrInv
  <2>. QED
    BY <2>7, <2>8, <2>9 DEF TrInv
<1>11. CASE UNCHANGED trVars
  BY <1>11 DEF trVars, TrInv, TrListsTrue, TrSavesTrue, TrReviewTrue
<1>. QED
  BY <1>1, <1>2, <1>3, <1>4, <1>5, <1>6, <1>7, <1>8, <1>9, <1>10, <1>11 DEF TrNext

(* The version open in the editor of translations is one the server has of    *)
(* the run on the screen, and there are edits only with one open: whatever    *)
(* polls, starts, retries and saves are answered in between, an answer of     *)
(* another run never puts its version under the text on the screen.           *)
THEOREM TrReviewIsCurrentHolds == TrSpec => []TrReviewIsCurrent
BY TrInvInit, TrStep, TrInvIsReviewIsCurrent, PTL DEF TrSpec

(* TranslationDesk: beside what the review needs, the bounds.                 *)
TrBoundedRun == [status : {"active", "ended", "unknown"}, revisions : 0..MaxRevisions]

TrRunsBounded(held) ==
  Len(held) <= MaxTrRuns /\ \A r \in 1..Len(held) : held[r].revisions <= MaxRevisions

TrPanelBounded ==
  /\ trAsking.step \in {"none", "asked", "answered"} /\ trRoute <= MaxTrRuns
  /\ trEdited \in BOOLEAN /\ trGuarded \in BOOLEAN
  /\ \A s \in trSaves : s.base <= MaxRevisions
  /\ trCalls \subseteq [kind : {"start", "cancel", "retry"}, run : 0..MaxTrRuns]
  /\ trSent \in 0..MaxOwnCalls

TrBounds == TrRunsBounded(trRuns) /\ TrPanelBounded

LEMMA TrBoundsInit == TrInit => TrBounds
<1>. SUFFICES ASSUME TrInit PROVE TrBounds
  OBVIOUS
<1>1. TrRunsBounded(<<>>)
  BY TranslationDeskAssumption DEF TrRunsBounded
<1>2. TrRunsBounded(<<[status |-> "ended", revisions |-> 1]>>)
  <2>. DEFINE list == <<[status |-> "ended", revisions |-> 1]>>
  <2>1. Len(list) = 1 /\ list[1].revisions = 1
    OBVIOUS
  <2>. HIDE DEF list
  <2>2. TrRunsBounded(list)
    BY <2>1, TranslationDeskAssumption DEF TrRunsBounded
  <2>. QED
    BY <2>2 DEF list
<1>3. TrPanelBounded
  <2>1. trRoute \in {0, 1} /\ trSent = 0 /\ trAsking.step = "asked" /\ trEdited = FALSE
        /\ trGuarded = FALSE /\ trSaves = {} /\ trCalls = {}
    BY DEF TrInit, TrAsked
  <2>2. trRoute <= MaxTrRuns /\ trSent \in 0..MaxOwnCalls
    BY <2>1, TranslationDeskAssumption
  <2>. QED
    BY <2>1, <2>2 DEF TrPanelBounded
<1>. QED
  BY <1>1, <1>2, <1>3 DEF TrInit, TrBounds

LEMMA ListsAreBounded ==
  ASSUME NEW held \in Seq(TrRun), NEW list, OnceTrue(list, held), TrRunsBounded(held)
  PROVE  list \in Seq(TrBoundedRun) /\ Len(list) <= MaxTrRuns
<1>1. list \in Seq(TrRun) /\ Len(list) \in Nat /\ Len(held) \in Nat /\ Len(list) <= Len(held)
  BY LenProperties DEF OnceTrue
<1>2. Len(list) <= MaxTrRuns
  BY <1>1, TranslationDeskAssumption DEF TrRunsBounded
<1>3. ASSUME NEW r \in 1..Len(list) PROVE list[r] \in TrBoundedRun
  <2>1. list[r] \in TrRun /\ list[r].revisions \in Nat
    BY <1>1, RevisionsAreNumbers
  <2>2. r \in 1..Len(held) /\ held[r].revisions \in Nat
    BY <1>1, RevisionsAreNumbers
  <2>3. list[r].revisions <= MaxRevisions
    BY <1>1, <2>1, <2>2, TranslationDeskAssumption DEF OnceTrue, TrRunsBounded
  <2>4. list[r].revisions \in 0..MaxRevisions
    BY <2>1, <2>3, TranslationDeskAssumption
  <2>. QED
    BY <2>1, <2>4 DEF TrRun, TrBoundedRun
<1>4. list \in [1..Len(list) -> TrBoundedRun]
  BY <1>1, <1>3, LenProperties
<1>. QED
  BY <1>1, <1>2, <1>4, SeqDef

LEMMA TrIsTyped == TrInv /\ TrBounds => TrTypeOK
<1>. SUFFICES ASSUME TrInv, TrBounds PROVE TrTypeOK
  OBVIOUS
<1>1. trRuns \in Seq(TrRun) /\ TrRunsBounded(trRuns) /\ Len(trRuns) \in Nat
  BY LenProperties DEF TrInv, TrListsTrue, TrBounds
<1>2. OnceTrue(trRuns, trRuns)
  <2>1. \A r \in 1..Len(trRuns) : trRuns[r].revisions <= trRuns[r].revisions
    BY <1>1, RevisionsAreNumbers
  <2>. QED
    BY <1>1, <2>1 DEF OnceTrue
<1>3. \A list \in {trRuns, trShown, trAsking.answer} : list \in Seq(TrBoundedRun)
  BY <1>1, <1>2, ListsAreBounded DEF TrInv, TrListsTrue
<1>4. trReview \in [run : 0..MaxTrRuns, version : 0..MaxRevisions]
  <2>1. trReview \in [run : Nat, version : Nat]
    BY DEF TrInv, TrSavesTrue
  <2>2. CASE trReview = NoReview
    BY <2>2, TranslationDeskAssumption DEF NoReview
  <2>3. CASE trReview.run \in 1..Len(trRuns) /\ trReview.version \in 1..trRuns[trReview.run].revisions
    <3>1. trRuns[trReview.run].revisions \in Nat
      BY <1>1, <2>3, RevisionsAreNumbers
    <3>2. trReview.run \in 0..MaxTrRuns /\ trReview.version \in 0..MaxRevisions
      BY <1>1, <2>3, <3>1, TranslationDeskAssumption DEF TrRunsBounded
    <3>. QED
      BY <2>1, <3>2
  <2>. QED
    BY <2>2, <2>3 DEF TrInv, TrReviewTrue, TrOpenIsSaved
<1>5. ASSUME NEW s \in trSaves
      PROVE  s \in [run : 1..MaxTrRuns, base : 1..MaxRevisions, here : BOOLEAN, review : BOOLEAN]
  <2>1. s \in [run : Nat, base : Nat, here : BOOLEAN, review : BOOLEAN]
        /\ s.run \in 1..Len(trRuns) /\ s.base >= 1
    BY DEF TrInv, TrSavesTrue
  <2>2. s.base <= MaxRevisions
    BY DEF TrBounds, TrPanelBounded
  <2>3. s.run \in 1..MaxTrRuns /\ s.base \in 1..MaxRevisions
    BY <1>1, <2>1, <2>2, TranslationDeskAssumption DEF TrRunsBounded
  <2>. QED
    BY <2>1, <2>3
<1>6. trRoute \in 0..MaxTrRuns
  BY TranslationDeskAssumption DEF TrInv, TrSavesTrue, TrBounds, TrPanelBounded
<1>. QED
  BY <1>3, <1>4, <1>5, <1>6 DEF TrTypeOK, TrBounds, TrPanelBounded, TrBoundedRun

LEMMA TrRunsStayBounded == TrInv /\ TrBounds /\ [TrNext]_trVars => TrRunsBounded(trRuns')
<1>. SUFFICES ASSUME TrInv, TrBounds, [TrNext]_trVars PROVE TrRunsBounded(trRuns')
  OBVIOUS
<1>0. trRuns \in Seq(TrRun) /\ TrRunsBounded(trRuns) /\ Len(trRuns) \in Nat
      /\ DOMAIN trRuns = 1..Len(trRuns)
      /\ \A r \in 1..Len(trRuns) : trRuns[r] \in TrRun /\ trRuns[r].revisions \in Nat
  BY LenProperties, RevisionsAreNumbers DEF TrInv, TrListsTrue, TrBounds
<1>1. ASSUME NEW r \in DOMAIN trRuns, NEW run \in TrRun, run.revisions <= MaxRevisions,
             trRuns' = [trRuns EXCEPT ![r] = run]
      PROVE  TrRunsBounded(trRuns')
  <2>1. /\ trRuns' \in Seq(TrRun) /\ Len(trRuns') = Len(trRuns)
        /\ \A o \in 1..Len(trRuns) : trRuns'[o] = IF o = r THEN run ELSE trRuns[o]
    BY <1>0, <1>1, ExceptSeq
  <2>. QED
    BY <1>0, <1>1, <2>1 DEF TrRunsBounded
<1>2. ASSUME Len(trRuns) < MaxTrRuns, trRuns' = Append(trRuns, [status |-> "active", revisions |-> 0])
      PROVE  TrRunsBounded(trRuns')
  <2>. DEFINE run == [status |-> "active", revisions |-> 0]
  <2>1. run \in TrRun /\ run.revisions = 0
    BY DEF TrRun
  <2>. HIDE DEF run
  <2>2. Len(trRuns') = Len(trRuns) + 1 /\ \A o \in 1..Len(trRuns') :
          trRuns'[o] = IF o = Len(trRuns) + 1 THEN run ELSE trRuns[o]
    BY <1>0, <1>2, <2>1, AppendProperties DEF run
  <2>3. \A o \in 1..Len(trRuns') : trRuns'[o].revisions <= MaxRevisions
    BY <1>0, <2>1, <2>2, TranslationDeskAssumption DEF TrRunsBounded
  <2>. QED
    BY <1>0, <1>2, <2>2, <2>3, TranslationDeskAssumption DEF TrRunsBounded
<1>3. CASE TrOthers
  <2>1. ASSUME NEW r \in DOMAIN trRuns, NEW published \in {0, 1},
               trRuns' = [trRuns EXCEPT ![r] = [status |-> "ended",
                             revisions |-> IF @.revisions = 0 THEN published ELSE @.revisions]]
        PROVE  TrRunsBounded(trRuns')
    <3>. DEFINE run == [status |-> "ended", revisions |-> IF trRuns[r].revisions = 0
                                              THEN published ELSE trRuns[r].revisions]
    <3>1. trRuns[r].revisions \in Nat /\ trRuns[r].revisions <= MaxRevisions
      BY <1>0 DEF TrRunsBounded
    <3>3. run \in TrRun
      BY <3>1 DEF TrRun
    <3>4. run.revisions <= MaxRevisions
      BY <3>1, TranslationDeskAssumption
    <3>2. trRuns' = [trRuns EXCEPT ![r] = run]
      BY <2>1
    <3>. HIDE DEF run
    <3>. QED
      BY <1>1, <3>2, <3>3, <3>4
  <2>2. ASSUME NEW r \in DOMAIN trRuns, trRuns[r].revisions \in 1..(MaxRevisions - 1),
               trRuns' = [trRuns EXCEPT ![r].revisions = @ + 1]
        PROVE  TrRunsBounded(trRuns')
    <3>. DEFINE run == [trRuns[r] EXCEPT !.revisions = @ + 1]
    <3>1. trRuns[r] \in TrRun /\ trRuns[r].revisions + 1 \in Nat
          /\ trRuns[r].revisions + 1 <= MaxRevisions
      BY <1>0, <2>2, TranslationDeskAssumption
    <3>2. run \in TrRun /\ run.revisions = trRuns[r].revisions + 1
      BY <3>1 DEF TrRun
    <3>3. trRuns' = [trRuns EXCEPT ![r] = run]
      BY <2>2
    <3>. HIDE DEF run
    <3>. QED
      BY <1>1, <3>1, <3>2, <3>3
  <2>. QED
    BY <1>2, <1>3, <2>1, <2>2 DEF TrOthers
<1>4. ASSUME NEW c \in trCalls, TrStarted(c) PROVE TrRunsBounded(trRuns')
  BY <1>2, <1>4 DEF TrStarted
<1>5. ASSUME NEW c \in trCalls, TrActed(c) PROVE TrRunsBounded(trRuns')
  <2>. DEFINE run == [trRuns[c.run] EXCEPT !.status = IF c.kind = "cancel" THEN "ended" ELSE "active"]
  <2>1. c.run \in DOMAIN trRuns /\ trRuns' = [trRuns EXCEPT ![c.run] = run]
    BY <1>5 DEF TrActed
  <2>2. trRuns[c.run] \in TrRun /\ trRuns[c.run].revisions <= MaxRevisions
    BY <1>0, <2>1 DEF TrRunsBounded
  <2>3. run \in TrRun /\ run.revisions = trRuns[c.run].revisions
    BY <2>2 DEF TrRun
  <2>. HIDE DEF run
  <2>. QED
    BY <1>1, <2>1, <2>2, <2>3
<1>6. ASSUME NEW s \in trSaves, TrSaved(s) PROVE TrRunsBounded(trRuns')
  <2>. DEFINE run == [trRuns[s.run] EXCEPT !.revisions = s.base + 1]
  <2>1. s.run \in DOMAIN trRuns /\ s.base \in Nat
    BY <1>0 DEF TrInv, TrSavesTrue
  <2>2. trRuns' = [trRuns EXCEPT ![s.run] = run] /\ s.base < MaxRevisions
    BY <1>6 DEF TrSaved
  <2>3. s.base + 1 \in Nat /\ s.base + 1 <= MaxRevisions /\ trRuns[s.run] \in TrRun
    BY <1>0, <2>1, <2>2, TranslationDeskAssumption
  <2>4. run \in TrRun /\ run.revisions = s.base + 1
    BY <2>3 DEF TrRun
  <2>. HIDE DEF run
  <2>. QED
    BY <1>1, <2>1, <2>2, <2>3, <2>4
<1>7. CASE UNCHANGED trRuns
  BY <1>0, <1>7
<1>. QED
  BY <1>3, <1>4, <1>5, <1>6, <1>7 DEF TrNext, TrPoll, TrAnswer, TrArrives, TrStart, TrAct, TrSend,
     TrRefused, TrChooseRun, TrChooseVersion, TrEdit, TrDiscard, TrSave, TrSaveFails, trVars

LEMMA OrphansAreBounded ==
  ASSUME NEW saves, saves \subseteq trSaves, TrInv, TrBounds, NEW review
  PROVE  \A s \in TrOrphaned(saves, review) : s.base <= MaxRevisions
<1>. SUFFICES ASSUME NEW s \in saves
              PROVE  [s EXCEPT !.here = @ /\ review = trReview,
                               !.review = @ /\ review.run = trReview.run].base <= MaxRevisions
  BY DEF TrOrphaned
<1>1. s \in [run : Nat, base : Nat, here : BOOLEAN, review : BOOLEAN]
  BY DEF TrInv, TrSavesTrue
<1>2. s.base <= MaxRevisions
  BY DEF TrBounds, TrPanelBounded
<1>3. \A x, y : [s EXCEPT !.here = x, !.review = y].base = s.base
  BY <1>1
<1>. QED
  BY <1>2, <1>3

LEMMA TrStaysBounded == TrInv /\ TrBounds /\ [TrNext]_trVars => TrBounds'
<1>. SUFFICES ASSUME TrInv, TrBounds, [TrNext]_trVars PROVE TrPanelBounded'
  BY TrRunsStayBounded DEF TrBounds
<1>0. trRuns \in Seq(TrRun) /\ Len(trRuns) \in Nat /\ Len(trRuns) <= MaxTrRuns
      /\ trShown \in Seq(TrRun) /\ Len(trShown) \in Nat /\ Len(trShown) <= MaxTrRuns
      /\ DOMAIN trShown = 1..Len(trShown) /\ DOMAIN trRuns = 1..Len(trRuns)
      /\ trRoute \in Nat /\ trRoute <= MaxTrRuns
  BY LenProperties, TranslationDeskAssumption
     DEF TrInv, TrListsTrue, OnceTrue, TrSavesTrue, TrBounds, TrRunsBounded, TrPanelBounded
<1>1. CASE TrOthers \/ TrPoll \/ TrAnswer \/ TrEdit \/ TrDiscard \/ UNCHANGED trVars
  <2>1. UNCHANGED <<trRoute, trSaves, trCalls, trSent>>
        /\ trAsking'.step \in {trAsking.step, "asked", "answered"}
    BY <1>1 DEF TrOthers, TrPoll, TrAnswer, TrEdit, TrDiscard, trVars, TrAsked
  <2>2. trEdited' \in {trEdited, TRUE, FALSE} /\ trGuarded' \in {trGuarded, TRUE, FALSE}
    BY <1>1 DEF TrOthers, TrPoll, TrAnswer, TrEdit, TrDiscard, trVars
  <2>. QED
    BY <2>1, <2>2 DEF TrBounds, TrPanelBounded
<1>2. CASE TrArrives
  <2>1. \A s \in trSaves' : s.base <= MaxRevisions
    BY <1>2, OrphansAreBounded DEF TrArrives
  <2>2. trEdited' \in BOOLEAN /\ trGuarded' \in BOOLEAN
    BY <1>2 DEF TrArrives, TrShow
  <2>. QED
    BY <1>2, <2>1, <2>2 DEF TrArrives, TrShow, TrQuiet, TrBounds, TrPanelBounded
<1>3. ASSUME NEW c \in [kind : {"start", "cancel", "retry"}, run : 0..MaxTrRuns], TrSend(c)
      PROVE  TrPanelBounded'
  <2>1. trSent' \in 0..MaxOwnCalls
    BY <1>3, TranslationDeskAssumption DEF TrSend, TrBounds, TrPanelBounded
  <2>. QED
    BY <1>3, <2>1 DEF TrSend, TrBounds, TrPanelBounded
<1>4. CASE TrStart
  <2>1. [kind |-> "start", run |-> 0] \in [kind : {"start", "cancel", "retry"}, run : 0..MaxTrRuns]
    BY TranslationDeskAssumption
  <2>. QED
    BY <1>3, <1>4, <2>1 DEF TrStart
<1>5. ASSUME NEW c \in trCalls, TrStarted(c) PROVE TrPanelBounded'
  <2>1. \A s \in trSaves' : s.base <= MaxRevisions
    BY <1>5, OrphansAreBounded DEF TrStarted
  <2>2. trEdited' \in BOOLEAN /\ trGuarded' \in BOOLEAN
    BY <1>5 DEF TrStarted, TrShow
  <2>3. trRoute' \in {Len(trRuns) + 1, trRoute} /\ Len(trRuns) < MaxTrRuns
    BY <1>5 DEF TrStarted, TrShow
  <2>4. trRoute' <= MaxTrRuns
    BY <1>0, <2>3, TranslationDeskAssumption
  <2>5. trAsking' = TrAsked /\ trCalls' \subseteq trCalls /\ UNCHANGED trSent
    BY <1>5 DEF TrStarted
  <2>. QED
    BY <2>1, <2>2, <2>4, <2>5 DEF TrAsked, TrBounds, TrPanelBounded
<1>6. ASSUME NEW kind \in {"cancel", "retry"}, TrAct(kind) PROVE TrPanelBounded'
  <2>. DEFINE run == TrCurrent(trShown, trRoute)
  <2>1. run \in 0..MaxTrRuns
    BY <1>0, TranslationDeskAssumption DEF TrCurrent, TrKnown
  <2>2. TrSend([kind |-> kind, run |-> run])
    BY <1>6 DEF TrAct
  <2>. HIDE DEF run
  <2>3. [kind |-> kind, run |-> run] \in [kind : {"start", "cancel", "retry"}, run : 0..MaxTrRuns]
    BY <2>1
  <2>. QED
    BY <1>3, <2>2, <2>3
<1>7. ASSUME NEW c \in trCalls, TrActed(c) \/ TrRefused(c) PROVE TrPanelBounded'
  BY <1>7 DEF TrActed, TrRefused, TrAsked, TrBounds, TrPanelBounded
<1>8. ASSUME NEW r \in 1..MaxTrRuns, TrChooseRun(r) PROVE TrPanelBounded'
  <2>1. \A s \in trSaves' : s.base <= MaxRevisions
    BY <1>8, OrphansAreBounded DEF TrChooseRun
  <2>2. trEdited' \in BOOLEAN /\ trGuarded' \in BOOLEAN /\ trRoute' = r /\ r <= MaxTrRuns
    BY <1>8, TranslationDeskAssumption DEF TrChooseRun, TrShow
  <2>. QED
    BY <1>8, <2>1, <2>2 DEF TrChooseRun, TrBounds, TrPanelBounded
<1>9. ASSUME NEW v \in 1..MaxRevisions, TrChooseVersion(v) PROVE TrPanelBounded'
  <2>1. \A s \in trSaves' : s.base <= MaxRevisions
    BY <1>9, OrphansAreBounded DEF TrChooseVersion
  <2>. QED
    BY <1>9, <2>1 DEF TrChooseVersion, TrBounds, TrPanelBounded
<1>10. CASE TrSave
  <2>. DEFINE s == [run |-> trReview.run, base |-> trReview.version, here |-> TRUE, review |-> TRUE]
  <2>1. trReview.version \in 0..MaxRevisions
    BY TrIsTyped DEF TrTypeOK
  <2>2. s.base <= MaxRevisions
    BY <2>1, TranslationDeskAssumption
  <2>3. trSaves' = trSaves \cup {s}
        /\ UNCHANGED <<trRuns, trShown, trAsking, trRoute, trReview, trEdited, trGuarded, trCalls>>
    BY <1>10 DEF TrSave
  <2>4. trSent' \in 0..MaxOwnCalls
    BY <1>10, TranslationDeskAssumption DEF TrSave, TrBounds, TrPanelBounded
  <2>. HIDE DEF s
  <2>. QED
    BY <2>2, <2>3, <2>4 DEF TrBounds, TrPanelBounded
<1>11. ASSUME NEW s \in trSaves, TrSaved(s) PROVE TrPanelBounded'
  <2>1. \A o \in trSaves' : o.base <= MaxRevisions
    BY <1>11, OrphansAreBounded DEF TrSaved
  <2>2. trEdited' \in BOOLEAN /\ trGuarded' \in BOOLEAN
    BY <1>11 DEF TrSaved, TrBounds, TrPanelBounded
  <2>. QED
    BY <1>11, <2>1, <2>2 DEF TrSaved, TrAsked, TrBounds, TrPanelBounded
<1>12. ASSUME NEW s \in trSaves, TrSaveFails(s) PROVE TrPanelBounded'
  BY <1>12 DEF TrSaveFails, TrBounds, TrPanelBounded
<1>. QED
  BY <1>1, <1>2, <1>4, <1>5, <1>6, <1>7, <1>8, <1>9, <1>10, <1>11, <1>12 DEF TrNext

LEMMA TrTypeHolds == TrInit /\ [][TrNext]_trVars => []TrTypeOK
<1>1. TrInv /\ TrBounds /\ [TrNext]_trVars => TrInv' /\ TrBounds'
  BY TrStep, TrStaysBounded
<1>. QED
  BY <1>1, TrInvInit, TrBoundsInit, TrIsTyped, PTL

--------------------------------------------------------------------------------
(* AudioDesk: the waveform shown as ready is that of the audio that plays.    *)

Fetch == [step : {"unused", "asked", "ended"}, track : Tracks \cup {NoTrack},
          kind : {"url", "wave"}, wanted : BOOLEAN]

Wave == [track : Tracks \cup {NoTrack}, url : Tracks \cup {NoTrack},
         status : {"idle", "loading", "ready", "error"}, drawn : Tracks \cup {NoTrack},
         playing : BOOLEAN]

WaveType ==
  /\ wave \in Wave
  /\ fetches \in [Fetches -> Fetch]

(* A request that is still wanted is one for the audio shown; one for the     *)
(* waveform is made after the address is known.                               *)
Serves(fetch, shown) ==
  fetch.step = "asked" /\ fetch.wanted =>
    fetch.track = shown.track /\ (fetch.kind = "wave" => shown.url = shown.track)
WantedIsShown == \A f \in Fetches : Serves(fetches[f], wave)

WaveInv == WaveType /\ WantedIsShown /\ WaveformIsCurrent

LEMMA AudioInitSound == AudioInit => WaveInv
  BY DEF AudioInit, WaveInv, Wave, WaveType, WantedIsShown, Serves, WaveformIsCurrent, Fetch,
         NoFetch

LEMMA StartType ==
  ASSUME NEW kind \in {"url", "wave"}, NEW track \in Tracks \cup {NoTrack}
  PROVE  /\ AskedStart(kind, track) \in Fetch
         /\ AskedStart(kind, track).kind = kind /\ AskedStart(kind, track).track = track
  BY DEF AskedStart, Fetch

(* Other audio: nothing asked before is wanted.                               *)
LEMMA LoadKeeps ==
  ASSUME WaveInv, NEW track \in Tracks \cup {NoTrack}, LoadTrack(track)
  PROVE  WaveInv'
  <1> PICK f \in Fetches : fetches' = [Dropped EXCEPT ![f] = AskedStart("url", track)]
    BY DEF LoadTrack
  <1>1. wave' \in Wave /\ wave'.track = track /\ wave'.status # "ready"
    BY DEF LoadTrack, WaveInv, WaveType, Wave
  <1>2. Dropped \in [Fetches -> Fetch] /\ \A g \in Fetches : ~Dropped[g].wanted
    BY DEF WaveInv, WaveType, Dropped, Fetch
  <1> DEFINE start == AskedStart("url", track)
  <1>3. start \in Fetch /\ start.kind = "url" /\ start.track = track
    BY StartType
  <1> HIDE DEF start
  <1>4. fetches' = [Dropped EXCEPT ![f] = start]
    BY DEF start
  <1>5. fetches' \in [Fetches -> Fetch]
    BY <1>2, <1>3, <1>4
  <1>6. WantedIsShown'
    BY <1>1, <1>2, <1>3, <1>4 DEF WantedIsShown, Serves
  <1> QED
    BY <1>1, <1>5, <1>6 DEF WaveInv, WaveType, WaveformIsCurrent

(* A request ends: the others are as they were.                               *)
LEMMA EndFetch ==
  ASSUME WaveInv, NEW f \in Fetches
  PROVE  LET done == [fetches EXCEPT ![f].step = "ended"]
         IN /\ done \in [Fetches -> Fetch]
            /\ \A g \in Fetches : Serves(done[g], wave)
  <1> DEFINE ended == [fetches[f] EXCEPT !.step = "ended"]
  <1>1. ended \in Fetch /\ ended.step = "ended"
    BY DEF WaveInv, WaveType, Fetch
  <1>2. [fetches EXCEPT ![f].step = "ended"] = [fetches EXCEPT ![f] = ended]
    OBVIOUS
  <1> HIDE DEF ended
  <1>3. Serves(ended, wave)
    BY <1>1 DEF Serves
  <1> QED
    BY <1>1, <1>2, <1>3 DEF WaveInv, WaveType, WantedIsShown

LEMMA UrlKeeps == WaveInv /\ TrackUrlAnswered => WaveInv'
  <1> SUFFICES ASSUME WaveInv, TrackUrlAnswered PROVE WaveInv'
    OBVIOUS
  <1> PICK f \in Fetches :
         /\ fetches[f].step = "asked" /\ fetches[f].kind = "url"
         /\ LET done == [fetches EXCEPT ![f].step = "ended"]
            IN \/ /\ fetches[f].wanted
                  /\ wave' = [wave EXCEPT !.url = fetches[f].track, !.status = "loading"]
                  /\ \E g \in Fetches :
                       /\ FirstUnused(g)
                       /\ fetches' = [done EXCEPT ![g] = AskedStart("wave", fetches[f].track)]
               \/ /\ fetches[f].wanted /\ wave' = [wave EXCEPT !.status = "error"]
                  /\ fetches' = done
               \/ ~fetches[f].wanted /\ fetches' = done /\ UNCHANGED wave
    BY DEF TrackUrlAnswered
  <1> DEFINE done == [fetches EXCEPT ![f].step = "ended"]
  <1>1. done \in [Fetches -> Fetch] /\ \A g \in Fetches : Serves(done[g], wave)
    BY EndFetch
  <1> HIDE DEF done
  <1>2. CASE /\ fetches[f].wanted
             /\ wave' = [wave EXCEPT !.url = fetches[f].track, !.status = "loading"]
             /\ \E g \in Fetches :
                  fetches' = [done EXCEPT ![g] = AskedStart("wave", fetches[f].track)]
    <2> PICK g \in Fetches : fetches' = [done EXCEPT ![g] = AskedStart("wave", fetches[f].track)]
      BY <1>2
    <2> DEFINE track == fetches[f].track
               start == AskedStart("wave", track)
    <2>1. track = wave.track /\ track \in Tracks \cup {NoTrack}
      BY <1>2 DEF WaveInv, WaveType, WantedIsShown, Serves, Fetch
    <2>2. start \in Fetch /\ start.track = track
      BY <2>1, StartType
    <2>3. fetches' = [done EXCEPT ![g] = start] /\ wave' = [wave EXCEPT !.url = track,
                                                                        !.status = "loading"]
      BY <1>2
    <2> HIDE DEF track, start
    <2>4. WaveType' /\ wave'.track = track /\ wave'.url = track /\ wave'.status = "loading"
      <3>1. wave \in Wave
        BY DEF WaveInv, WaveType
      <3>2. /\ wave' \in Wave /\ wave'.track = wave.track /\ wave'.url = track
            /\ wave'.status = "loading"
        BY <2>1, <2>3, <3>1 DEF Wave
      <3>3. fetches' \in [Fetches -> Fetch]
        BY <1>1, <2>2, <2>3
      <3> QED
        BY <2>1, <3>2, <3>3 DEF WaveType
    <2>5. WantedIsShown'
      BY <1>1, <2>1, <2>2, <2>3, <2>4 DEF WantedIsShown, Serves
    <2> QED
      BY <2>4, <2>5 DEF WaveInv, WaveformIsCurrent
  <1>3. CASE /\ wave' = [wave EXCEPT !.status = "error"] \/ wave' = wave
             /\ fetches' = done
    BY <1>1, <1>3 DEF WaveInv, WaveType, Wave, WantedIsShown, Serves, WaveformIsCurrent
  <1> QED
    BY <1>2, <1>3 DEF done

LEMMA DrawKeeps == WaveInv /\ WaveformAnswered => WaveInv'
  <1> SUFFICES ASSUME WaveInv, WaveformAnswered PROVE WaveInv'
    OBVIOUS
  <1> PICK f \in Fetches :
         /\ fetches[f].step = "asked" /\ fetches[f].kind = "wave"
         /\ fetches' = [fetches EXCEPT ![f].step = "ended"]
         /\ \/ /\ fetches[f].wanted
               /\ wave' = [wave EXCEPT !.status = "ready", !.drawn = fetches[f].track]
            \/ fetches[f].wanted /\ wave' = [wave EXCEPT !.status = "error"]
            \/ ~fetches[f].wanted /\ UNCHANGED wave
    BY DEF WaveformAnswered
  <1>1. fetches' \in [Fetches -> Fetch] /\ \A g \in Fetches : Serves(fetches'[g], wave)
    BY EndFetch
  <1>2. wave'.track = wave.track /\ wave'.url = wave.url
    BY DEF WaveInv, WaveType, Wave
  <1>3. WantedIsShown'
    BY <1>1, <1>2 DEF WantedIsShown, Serves
  <1> DEFINE track == fetches[f].track
  <1>4. track \in Tracks \cup {NoTrack} /\ wave \in Wave
    BY DEF WaveInv, WaveType, Fetch
  <1>5. fetches[f].wanted => track = wave.track /\ wave.url = wave.track
    BY DEF WaveInv, WantedIsShown, Serves
  <1>6. WaveType' /\ WaveformIsCurrent'
    <2>1. CASE fetches[f].wanted /\ wave' = [wave EXCEPT !.status = "ready", !.drawn = track]
      <3> HIDE DEF track
      <3>1. /\ wave' \in Wave /\ wave'.status = "ready" /\ wave'.drawn = track
            /\ wave'.url = wave.url /\ wave'.track = wave.track
        BY <1>4, <2>1 DEF Wave
      <3> QED
        BY <1>1, <1>5, <2>1, <3>1 DEF WaveType, WaveformIsCurrent
    <2>2. CASE wave' = [wave EXCEPT !.status = "error"] \/ UNCHANGED wave
      BY <1>1, <1>4, <2>2 DEF WaveInv, WaveType, Wave, WaveformIsCurrent
    <2> QED
      BY <2>1, <2>2
  <1> QED
    BY <1>3, <1>6 DEF WaveInv

LEMMA WaveUntouched == WaveInv /\ UNCHANGED waveVars => WaveInv'
  BY DEF WaveInv, WaveType, WantedIsShown, Serves, WaveformIsCurrent, waveVars

LEMMA WaveStep == WaveInv /\ [AudioNext]_audioVars => WaveInv'
  <1> SUFFICES ASSUME WaveInv, [AudioNext]_audioVars PROVE WaveInv'
    OBVIOUS
  <1>1. CASE ShowTrack
    <2>1. PICK track \in Tracks : LoadTrack(track)
      BY <1>1 DEF ShowTrack
    <2> QED
      BY <2>1, LoadKeeps
  <1>2. CASE RelinkSource
    <2>1. wave.track \in Tracks \cup {NoTrack} /\ LoadTrack(wave.track)
      BY <1>2 DEF RelinkSource, WaveInv, WaveType, Wave
    <2> QED
      BY <2>1, LoadKeeps
  <1>3. CASE TrackUrlAnswered
    BY <1>3, UrlKeeps
  <1>4. CASE WaveformAnswered
    BY <1>4, DrawKeeps
  <1>5. CASE PlayWave
    BY <1>5 DEF PlayWave, WaveInv, WaveType, Wave, WantedIsShown, Serves, WaveformIsCurrent
  <1>6. CASE PlayerNext
    BY <1>6, WaveUntouched
    DEF PlayerNext, OpenSegment, PlayOrPause, Seek, SetLoop, CloseAudio, LoadedMetadata,
        MediaError, PlayRefused, PlayKept, Advance, PlaysToEnd, TimeUpdate, HearSignal, waveVars
  <1>7. CASE UNCHANGED audioVars
    BY <1>7, WaveUntouched DEF audioVars, waveVars
  <1> QED
    BY <1>1, <1>2, <1>3, <1>4, <1>5, <1>6, <1>7 DEF AudioNext, WaveNext

(* The waveform shown as ready is that of the audio that plays, for any       *)
(* recordings, any number of requests and any order of their answers.         *)
THEOREM WaveformHolds == AudioSpec => []WaveformIsCurrent
  <1>1. AudioSpec => []WaveInv
    BY AudioInitSound, WaveStep, PTL DEF AudioSpec
  <1>2. WaveInv => WaveformIsCurrent
    BY DEF WaveInv
  <1> QED
    BY <1>1, <1>2, PTL

(* AudioDesk: the player and its element.                                     *)
Store == [url : Tracks \cup {NoTrack}, time : Ticks, end : Ticks \cup {NoEnd},
          loop : BOOLEAN, open : BOOLEAN, should : BOOLEAN, unavailable : BOOLEAN]
Sound == [url : Tracks \cup {NoTrack}, ready : BOOLEAN, broken : BOOLEAN, time : Ticks,
          playing : BOOLEAN]
Said == Seq({"play", "pause"})

PlayTyped ==
  /\ player \in Store /\ element \in Sound /\ signals \in Said /\ moved \in BOOLEAN
  /\ unsettled \in BOOLEAN /\ touches \in 0..MaxTouches

LEMMA TicksAreNumbers ==
  0 \in Ticks /\ Length \in Ticks /\ Ticks \subseteq Nat /\ \A t \in Nat : t <= Length => t \in Ticks
BY AudioAssumption DEF Ticks

LEMMA NoMediaTyped == NoMedia \in Sound
BY TicksAreNumbers DEF NoMedia, Sound

LEMMA PlayTypedInit == AudioInit => PlayTyped
<1>. SUFFICES ASSUME AudioInit PROVE PlayTyped
  OBVIOUS
<1>1. player \in Store
  BY TicksAreNumbers DEF AudioInit, Store
<1>2. touches \in 0..MaxTouches
  BY AudioAssumption DEF AudioInit
<1>3. element = NoMedia /\ signals = <<>> /\ moved = FALSE /\ unsettled = FALSE
  BY DEF AudioInit
<1>4. signals \in Said
  BY <1>3 DEF Said
<1>. QED
  BY <1>1, <1>2, <1>3, <1>4, NoMediaTyped DEF PlayTyped

(* What the effects make of the element.                                      *)
LEMMA DrivenTyped ==
  ASSUME NEW m \in Sound, NEW old, NEW new \in Store, NEW allowed
  PROVE  Driven(m, old, new, allowed) \in Sound
<1>1. (new.should /\ ~m.broken /\ allowed) \in BOOLEAN
  OBVIOUS
<1>2. \A x \in BOOLEAN : [m EXCEPT !.playing = x] \in Sound
  BY DEF Sound
<1>. QED
  BY <1>1, <1>2 DEF Driven

LEMMA SeenTyped ==
  ASSUME NEW m \in Sound, NEW old, NEW new \in Store, NEW allowed
  PROVE  Driven(SoughtMedia(Mounted(m, new), old, new), old, new, allowed) \in Sound
<1>1. Mounted(m, new) \in Sound
  <2>1. [NoMedia EXCEPT !.url = new.url] \in Sound
    BY NoMediaTyped DEF Sound, Store
  <2>. QED
    BY <2>1, NoMediaTyped DEF Mounted
<1>2. SoughtMedia(Mounted(m, new), old, new) \in Sound
  <2>. DEFINE k == Mounted(m, new)
  <2>. HIDE DEF k
  <2>1. [k EXCEPT !.time = new.time] \in Sound
    BY <1>1 DEF Sound, Store, k
  <2>. QED
    BY <1>1, <2>1 DEF SoughtMedia, k
<1>. QED
  BY <1>2, DrivenTyped

LEMMA SaidTyped ==
  ASSUME NEW list \in Said, NEW x \in {"play", "pause"}
  PROVE  Append(list, x) \in Said
BY AppendProperties DEF Said

LEMMA RenderedTyped ==
  ASSUME PlayTyped, NEW m \in Sound, NEW new \in Store, NEW allowed, RenderedAs(m, new, allowed),
         unsettled' \in BOOLEAN, touches' \in 0..MaxTouches
  PROVE  PlayTyped'
<1>. DEFINE kept == Mounted(m, new)
            seen == Driven(SoughtMedia(kept, player, new), player, new, allowed)
<1>1. player' = new /\ element' = seen
      /\ signals' = (IF new.open THEN Signal([playing |-> m.playing /\ kept = m], seen) ELSE <<>>)
      /\ moved' = (moved /\ kept = m)
  BY DEF RenderedAs
<1>2. seen \in Sound
  BY SeenTyped
<1>. HIDE DEF seen, kept
<1>3. signals' \in Said
  <2>1. signals \in Said /\ <<>> \in Said
    BY DEF PlayTyped, Said
  <2>2. \A old : Signal(old, seen) \in Said
    BY <2>1, SaidTyped DEF Signal
  <2>. QED
    BY <1>1, <2>1, <2>2
<1>4. moved' \in BOOLEAN
  BY <1>1
<1>. QED
  BY <1>1, <1>2, <1>3, <1>4 DEF PlayTyped

LEMMA RenderTyped ==
  ASSUME PlayTyped, NEW m \in Sound, NEW new \in Store, Render(m, new), touches' \in 0..MaxTouches
  PROVE  PlayTyped'
<1>1. unsettled' \in BOOLEAN
  BY DEF Render, Promised
<1>2. PICK allowed \in BOOLEAN : RenderedAs(m, new, allowed)
  BY DEF Render
<1>. QED
  BY <1>1, <1>2, RenderedTyped

LEMMA PlayerEdits ==
  ASSUME NEW p \in Store
  PROVE  /\ \A u \in Tracks \cup {NoTrack}, t \in Ticks, e \in Ticks \cup {NoEnd}, l \in BOOLEAN :
              [p EXCEPT !.url = u, !.time = t, !.end = e, !.loop = l, !.open = TRUE,
                        !.should = TRUE, !.unavailable = FALSE] \in Store
         /\ Released(p) \in Store
         /\ \A x \in BOOLEAN : [p EXCEPT !.should = x] \in Store /\ [p EXCEPT !.loop = x] \in Store
         /\ \A t \in Ticks : /\ [p EXCEPT !.time = t] \in Store
                             /\ [p EXCEPT !.time = t, !.should = FALSE] \in Store
                             /\ [p EXCEPT !.open = FALSE, !.should = FALSE, !.time = t] \in Store
         /\ [p EXCEPT !.unavailable = TRUE, !.should = FALSE] \in Store
BY DEF Store, Released

LEMMA SoundEdits ==
  ASSUME NEW m \in Sound
  PROVE  /\ \A t \in Ticks : /\ [m EXCEPT !.time = t] \in Sound
                             /\ [m EXCEPT !.ready = TRUE, !.time = t] \in Sound
                             /\ [m EXCEPT !.playing = FALSE, !.time = t] \in Sound
         /\ [m EXCEPT !.broken = TRUE, !.playing = FALSE] \in Sound
         /\ [m EXCEPT !.playing = FALSE] \in Sound
BY DEF Sound

LEMMA PlayStaysTyped == PlayTyped /\ [AudioNext]_audioVars => PlayTyped'
<1>. SUFFICES ASSUME PlayTyped, [AudioNext]_audioVars PROVE PlayTyped'
  OBVIOUS
<1>0. /\ player \in Store /\ element \in Sound /\ signals \in Said /\ moved \in BOOLEAN
      /\ unsettled \in BOOLEAN /\ touches \in 0..MaxTouches
  BY DEF PlayTyped
<1>a. /\ player.time \in Ticks /\ player.end \in Ticks \cup {NoEnd} /\ player.loop \in BOOLEAN
      /\ player.should \in BOOLEAN /\ element.time \in Ticks
  BY <1>0 DEF Store, Sound
<1>b. Touch => touches' \in 0..MaxTouches
  BY <1>0, AudioAssumption DEF Touch
<1>1. CASE OpenSegment
  <2>1. PICK url \in Tracks, start \in Ticks, end \in Ticks :
          Render(element, [player EXCEPT
            !.url = url, !.time = start, !.end = IF end > start THEN end ELSE NoEnd,
            !.loop = IF end > start THEN FALSE ELSE @, !.open = TRUE, !.should = TRUE,
            !.unavailable = FALSE])
    BY <1>1 DEF OpenSegment
  <2>. DEFINE e == IF end > start THEN end ELSE NoEnd
              l == IF end > start THEN FALSE ELSE player.loop
              new == [player EXCEPT !.url = url, !.time = start, !.end = e, !.loop = l,
                                    !.open = TRUE, !.should = TRUE, !.unavailable = FALSE]
  <2>2. e \in Ticks \cup {NoEnd} /\ l \in BOOLEAN /\ url \in Tracks \cup {NoTrack}
    BY <1>a
  <2>3. Render(element, new)
    BY <2>1, Zenon
  <2>. HIDE DEF e, l
  <2>4. new \in Store
    BY <1>0, <2>2, PlayerEdits
  <2>. HIDE DEF new
  <2>. QED
    BY <1>0, <1>1, <1>b, <2>3, <2>4, RenderTyped DEF OpenSegment
<1>2. CASE PlayOrPause
  <2>. DEFINE p == IF player.should THEN player ELSE Released(player)
              new == [p EXCEPT !.should = ~player.should]
  <2>1. p \in Store
    BY <1>0, PlayerEdits
  <2>2. Render(element, new)
    BY <1>2 DEF PlayOrPause
  <2>. HIDE DEF p
  <2>3. (~player.should) \in BOOLEAN
    OBVIOUS
  <2>4. new \in Store
    BY <2>1, <2>3, PlayerEdits
  <2>. HIDE DEF new
  <2>. QED
    BY <1>0, <1>2, <1>b, <2>2, <2>4, RenderTyped DEF PlayOrPause
<1>3. CASE Seek
  <2>1. PICK time \in Ticks : Render([element EXCEPT !.time = time],
                                     [Released(player) EXCEPT !.time = time])
    BY <1>3 DEF Seek
  <2>2. [element EXCEPT !.time = time] \in Sound /\ [Released(player) EXCEPT !.time = time] \in Store
    BY <1>0, PlayerEdits, SoundEdits
  <2>. QED
    BY <1>3, <1>b, <2>1, <2>2, RenderTyped DEF Seek
<1>4. CASE SetLoop
  <2>1. (~player.loop) \in BOOLEAN
    OBVIOUS
  <2>2. player' \in Store
    BY <1>0, <1>4, <2>1, PlayerEdits DEF SetLoop
  <2>. QED
    BY <1>0, <1>4, <1>b, <2>2 DEF SetLoop, PlayTyped
<1>5. CASE CloseAudio
  <2>1. [Released(player) EXCEPT !.open = FALSE, !.should = FALSE, !.time = 0] \in Store
    BY <1>0, PlayerEdits, TicksAreNumbers
  <2>. QED
    BY <1>0, <1>5, <1>b, <2>1, RenderTyped DEF CloseAudio
<1>6. CASE LoadedMetadata
  <2>1. element' \in Sound
    BY <1>0, <1>6, <1>a, SoundEdits DEF LoadedMetadata
  <2>. QED
    BY <1>0, <1>6, <2>1 DEF LoadedMetadata, PlayTyped
<1>7. CASE MediaError
  <2>1. [player EXCEPT !.unavailable = TRUE, !.should = FALSE] \in Store
        /\ [element EXCEPT !.broken = TRUE, !.playing = FALSE] \in Sound
    BY <1>0, PlayerEdits, SoundEdits
  <2>. QED
    BY <1>0, <1>7, <2>1, RenderTyped DEF MediaError
<1>8. CASE PlayRefused
  <2>1. [player EXCEPT !.should = FALSE] \in Store
    BY <1>0, PlayerEdits
  <2>. QED
    BY <1>0, <1>8, <2>1, RenderedTyped DEF PlayRefused
<1>9. CASE Advance
  <2>1. PICK step \in 1..Jump :
       \/ element.time + step <= Length /\ element' = [element EXCEPT !.time = @ + step]
       \/ /\ element.time + step > Length
          /\ element' = [element EXCEPT !.time = element.time + step - Length - 1]
    BY <1>9 DEF Advance
  <2>2. element.time + step <= Length => element.time + step \in Ticks
    BY <1>a, AudioAssumption DEF Ticks
  <2>3. element.time + step > Length => element.time + step - Length - 1 \in Ticks
    BY <1>a, AudioAssumption DEF Ticks
  <2>4. element' \in Sound
    BY <1>0, <2>1, <2>2, <2>3, SoundEdits
  <2>. QED
    BY <1>0, <1>9, <2>4 DEF Advance, PlayTyped
<1>10. CASE PlaysToEnd
  <2>1. [player EXCEPT !.should = FALSE] \in Store /\ [element EXCEPT !.playing = FALSE] \in Sound
    BY <1>0, PlayerEdits, SoundEdits
  <2>. QED
    BY <1>0, <1>10, <2>1, RenderTyped DEF PlaysToEnd
<1>11. CASE TimeUpdate
  <2>. DEFINE heard == [element EXCEPT !.playing = FALSE, !.time = player.end]
  <2>0. moved' = FALSE /\ UNCHANGED <<unsettled, touches>>
    BY <1>11 DEF TimeUpdate
  <2>1. CASE ClipReachedEnd(element.time, player.end)
    <3>1. player.end \in Ticks
      BY <1>a, <2>1 DEF ClipReachedEnd
    <3>2. player' = [player EXCEPT !.time = player.end, !.should = FALSE]
          /\ element' = heard /\ signals' = Signal(element, heard)
      BY <1>11, <2>1 DEF TimeUpdate
    <3>3. player' \in Store /\ heard \in Sound
      BY <1>0, <3>1, <3>2, PlayerEdits, SoundEdits
    <3>. HIDE DEF heard
    <3>4. signals' \in Said
      BY <1>0, <3>2, SaidTyped DEF Signal
    <3>. QED
      BY <1>0, <2>0, <3>2, <3>3, <3>4 DEF PlayTyped
  <2>2. CASE ~ClipReachedEnd(element.time, player.end)
    <3>1. player' = [player EXCEPT !.time = element.time] /\ UNCHANGED <<element, signals>>
      BY <1>11, <2>2 DEF TimeUpdate
    <3>2. player' \in Store
      BY <1>0, <1>a, <3>1, PlayerEdits
    <3>. QED
      BY <1>0, <2>0, <3>1, <3>2 DEF PlayTyped
  <2>. QED
    BY <2>1, <2>2
<1>12. CASE HearSignal
  <2>. DEFINE new == [player EXCEPT !.should = Head(signals) = "play"]
  <2>0. PICK allowed \in BOOLEAN : LET seen == Driven(element, player, new, allowed) IN
          /\ player' = new /\ element' = seen /\ Promised(player, new)
          /\ signals' = IF element.playing = seen.playing THEN Tail(signals)
                        ELSE Append(Tail(signals), IF seen.playing THEN "play" ELSE "pause")
    BY <1>12 DEF HearSignal
  <2>. DEFINE seen == Driven(element, player, new, allowed)
  <2>1. /\ signals # <<>> /\ player' = new /\ element' = seen /\ unsettled' \in BOOLEAN
        /\ signals' = IF element.playing = seen.playing THEN Tail(signals)
                      ELSE Append(Tail(signals), IF seen.playing THEN "play" ELSE "pause")
        /\ UNCHANGED <<moved, touches>>
    BY <1>12, <2>0 DEF HearSignal, Promised
  <2>2. (Head(signals) = "play") \in BOOLEAN
    OBVIOUS
  <2>3. new \in Store
    BY <1>0, <2>2, PlayerEdits
  <2>. HIDE DEF new
  <2>4. seen \in Sound
    BY <1>0, <2>3, DrivenTyped
  <2>. HIDE DEF seen
  <2>5. Tail(signals) \in Said
    BY <1>0, <2>1, HeadTailProperties DEF Said
  <2>6. signals' \in Said
    BY <2>1, <2>5, SaidTyped
  <2>. QED
    BY <1>0, <2>1, <2>3, <2>4, <2>6 DEF PlayTyped
<1>14. CASE PlayKept
  BY <1>0, <1>14 DEF PlayKept, PlayTyped
<1>13. CASE WaveNext \/ UNCHANGED audioVars
  <2>1. UNCHANGED playVars
    BY <1>13 DEF WaveNext, ShowTrack, RelinkSource, TrackUrlAnswered, WaveformAnswered, PlayWave,
       audioVars
  <2>. QED
    BY <2>1 DEF playVars, PlayTyped
<1>. QED
  BY <1>1, <1>2, <1>3, <1>4, <1>5, <1>6, <1>7, <1>8, <1>9, <1>10, <1>11, <1>12, <1>13, <1>14
     DEF AudioNext, PlayerNext

LEMMA AudioTypeHolds == AudioInit /\ [][AudioNext]_audioVars => []AudioTypeOK
<1>1. WaveInv /\ PlayTyped => AudioTypeOK
  BY DEF WaveInv, WaveType, Wave, Fetch, PlayTyped, Store, Sound, Said, AudioTypeOK
<1>. QED
  BY <1>1, AudioInitSound, WaveStep, PlayTypedInit, PlayStaysTyped, PTL

--------------------------------------------------------------------------------
(* Ingest: what the creation page sends fits the model.                       *)

RequestType == [backend : {"local", "provider"}, model : ListedModels \cup {FirstModel},
                provider : ListedProviders \cup {"none"}, language : Spoken]

(* What the page may ask for, once the models are known.                      *)
Fits(r, known) ==
  known # Unanswered /\ Compatible # {} =>
    r.model \in Compatible /\ r.language \in LanguageOptions(r.backend, r.model, known)

(* The check of the models names compatible ones only, and the request fits   *)
(* what is known of them.                                                     *)
IngestInv == /\ modelsKnown = Unanswered \/ modelsKnown \subseteq Compatible
             /\ request \in RequestType /\ Fits(request, modelsKnown)

(* The effect on the model leaves a compatible one, when there is any.        *)
LEMMA FitModelFits ==
  ASSUME NEW r \in RequestType, NEW known, known = Unanswered \/ known \subseteq Compatible
  PROVE  /\ FitModel(r, known) \in RequestType
         /\ known # Unanswered /\ Compatible # {} => FitModel(r, known).model \in Compatible
<1>. DEFINE ready == IF known # {} THEN known ELSE Compatible
            corrects == known # Unanswered /\ ready # {} /\ r.model \notin Compatible
<1>1. CASE corrects
  <2>1. (CHOOSE m \in ready : TRUE) \in Compatible
    BY <1>1
  <2>2. FitModel(r, known) = [r EXCEPT !.model = CHOOSE m \in ready : TRUE]
    BY <1>1 DEF FitModel
  <2>. QED
    BY <2>1, <2>2, IngestAssumption DEF RequestType
<1>2. CASE ~corrects
  <2>1. FitModel(r, known) = r
    BY <1>2 DEF FitModel
  <2>. QED
    BY <1>2, <2>1
<1>. QED
  BY <1>1, <1>2

(* The effect on the language leaves one the select offers.                   *)
LEMMA FitLanguageFits ==
  ASSUME NEW r \in RequestType, NEW known
  PROVE  /\ FitLanguage(r, known) \in RequestType
         /\ FitLanguage(r, known).model = r.model
         /\ FitLanguage(r, known).language
              \in LanguageOptions(r.backend, r.model, known)
         /\ FitLanguage(r, known).backend = r.backend
<1>1. "zh-Hans" \in LanguageOptions(r.backend, r.model, known) /\ "zh-Hans" \in Spoken
  BY DEF LanguageOptions, Spoken
<1>. QED
  BY <1>1 DEF FitLanguage, RequestType

LEMMA FitProviderFits ==
  ASSUME NEW r \in RequestType, NEW loaded
  PROVE  /\ FitProvider(r, loaded) \in RequestType
         /\ FitProvider(r, loaded).model = r.model
         /\ FitProvider(r, loaded).language = r.language
         /\ FitProvider(r, loaded).backend = r.backend
BY DEF FitProvider, RequestType

(* A render: after the last effect the request fits, the language with the    *)
(* model the second effect may have put.                                      *)
LEMMA FittedFits ==
  ASSUME NEW r \in RequestType, NEW known, known = Unanswered \/ known \subseteq Compatible,
         NEW loaded
  PROVE  Fitted(r, known, loaded) \in RequestType /\ Fits(Fitted(r, known, loaded), known)
<1>. DEFINE r1 == FitLanguage(r, known)
            r2 == FitModel(r1, known)
            r3 == FitLanguage(r2, known)
<1>1. r1 \in RequestType
  BY FitLanguageFits
<1>2. r2 \in RequestType /\ (known # Unanswered /\ Compatible # {} => r2.model \in Compatible)
  BY <1>1, FitModelFits
<1>3. /\ r3 \in RequestType /\ r3.model = r2.model /\ r3.backend = r2.backend
      /\ r3.language \in LanguageOptions(r2.backend, r2.model, known)
  BY <1>2, FitLanguageFits
<1>4. Fitted(r, known, loaded) = FitProvider(r3, loaded)
  BY DEF Fitted
<1>. HIDE DEF r3
<1>. QED
  BY <1>2, <1>3, <1>4, FitProviderFits DEF Fits

LEMMA IngestInvInit == IngestInit => IngestInv
BY DEF IngestInit, IngestInv, Fits, RequestType, Spoken

(* Every answer and every choice ends in a render that makes the request      *)
(* fit.                                                                       *)
LEMMA IngestStep == IngestInv /\ [IngestNext]_ingestVars => IngestInv'
<1>. SUFFICES ASSUME IngestInv, [IngestNext]_ingestVars PROVE IngestInv'
  OBVIOUS
<1>. USE DEF IngestInv
<1>1. ASSUME NEW r \in RequestType, request' = Fitted(r, modelsKnown', providersKnown'),
             (modelsKnown = Unanswered \/ modelsKnown \subseteq Compatible)'
      PROVE  IngestInv'
  BY <1>1, FittedFits
<1>2. ASSUME UNCHANGED <<modelsKnown, request>> PROVE IngestInv'
  BY <1>2
<1>3. CASE ModelsArrive
  BY <1>1, <1>3 DEF ModelsArrive
<1>4. CASE ProvidersArrive
  BY <1>1, <1>4 DEF ProvidersArrive
<1>5. CASE SettingsArrived
  <2>1. PICK d \in Defaults :
           request' = Fitted(WithDefaults(request, d), modelsKnown, providersKnown)
    BY <1>5 DEF SettingsArrived
  <2>2. WithDefaults(request, d) \in RequestType
    BY <2>1, IngestAssumption DEF WithDefaults, RequestType, Spoken
  <2>. QED
    BY <1>1, <1>5, <2>1, <2>2 DEF SettingsArrived
<1>6. CASE PickBackend
  <2>1. PICK b \in {"local", "provider"} : Choose("backend", b)
    BY <1>6 DEF PickBackend
  <2>2. [request EXCEPT !["backend"] = b] \in RequestType
    BY DEF RequestType
  <2>. QED
    BY <1>1, <2>1, <2>2 DEF Choose
<1>7. CASE PickModel
  <2>1. PICK m \in Compatible : Choose("model", m)
    BY <1>7 DEF PickModel
  <2>2. [request EXCEPT !["model"] = m] \in RequestType
    BY IngestAssumption DEF RequestType
  <2>. QED
    BY <1>1, <2>1, <2>2 DEF Choose
<1>8. CASE PickProvider
  <2>1. PICK p \in ListedProviders : Choose("provider", p)
    BY <1>8 DEF PickProvider
  <2>2. [request EXCEPT !["provider"] = p] \in RequestType
    BY DEF RequestType
  <2>. QED
    BY <1>1, <2>1, <2>2 DEF Choose
<1>9. CASE PickLanguage
  <2>1. PICK language \in Spoken : Choose("language", language)
    BY <1>9 DEF PickLanguage, LanguageOptions
  <2>2. [request EXCEPT !["language"] = language] \in RequestType
    BY DEF RequestType
  <2>. QED
    BY <1>1, <2>1, <2>2 DEF Choose
<1>10. CASE \/ SelectMedia \/ ClearMedia \/ RunPreflight \/ PreflightAnswers
            \/ StartCreation \/ CreateTasks \/ CreationAnswered
            \/ TasksArrive \/ AskStop \/ ConfirmStop \/ ClearTasks
            \/ \E t \in TaskIds : ShowRecent(t) \/ JobChanges(t)
  BY <1>2, <1>10 DEF SelectMedia, ClearMedia, RunPreflight, PreflightAnswers, StartCreation,
     CreateTasks, CreationAnswered, TasksArrive, AskStop, ConfirmStop, ClearTasks, ShowRecent,
     JobChanges, chosenVars
<1>11. CASE UNCHANGED ingestVars
  BY <1>2, <1>11 DEF ingestVars
<1>. QED
  BY <1>3, <1>4, <1>5, <1>6, <1>7, <1>8, <1>9, <1>10, <1>11 DEF IngestNext, ChoiceNext, RecentNext

(* What the creation page sends for the local backend, once the models are    *)
(* known, names a compatible model, and asks to detect the language only of   *)
(* a model that can: whatever order the answers to its three queries and      *)
(* the choices of the user come in, useIngestRequest has corrected the        *)
(* request before the button can send it.                                     *)
THEOREM CreatedFitsModelHolds == IngestSpec => CreatedFitsModel
<1>. DEFINE created ==
       (StartCreation /\ request.backend = "local" /\ modelsKnown # Unanswered /\ Compatible # {})
         => /\ creating'.sent.model \in Compatible
            /\ creating'.sent.language = "auto" => creating'.sent.model \in Detecting
<1>1. IngestInv /\ [IngestNext]_ingestVars => [created]_ingestVars
  <2>. SUFFICES ASSUME IngestInv, StartCreation, request.backend = "local",
                       modelsKnown # Unanswered, Compatible # {}
                PROVE  /\ creating'.sent.model \in Compatible
                       /\ creating'.sent.language = "auto" => creating'.sent.model \in Detecting
    OBVIOUS
  <2>1. creating'.sent.model = request.model
        /\ creating'.sent.language = SentLanguage(request.language)
    BY DEF StartCreation, Payload
  <2>2. SentLanguage(request.language) = "auto" => request.language \in {"auto", "mixed"}
    BY DEF SentLanguage
  <2>. QED
    BY <2>1, <2>2, IngestAssumption DEF IngestInv, Fits, LanguageOptions
<1>. QED
  BY <1>1, IngestInvInit, IngestStep, PTL DEF IngestSpec, CreatedFitsModel

(* Ingest: the selection, the creation under way and the recent tasks.        *)
JobsType == [TaskIds -> {"unmade", "active", "done", "gone"}]

PickedTyped ==
  /\ defaultsDirty \subseteq {"backend", "model", "provider", "language"}
  /\ providersKnown \in BOOLEAN
  /\ media \subseteq Media /\ preflighting \in Media \cup {"none"}

(* What is asked for is of some file, and what was made is some task.         *)
CreatingTyped ==
  /\ creating.step = "asked" => creating.files \subseteq Media /\ creating.files # {}
  /\ creating.step = "made" => creating.files \subseteq TaskIds /\ creating.files # {}

RecentTyped ==
  /\ jobs \in JobsType /\ recent \in JobsType
  /\ focus \in 0..MaxTasks /\ stopping \in 0..MaxTasks

LEMMA IngestTypedInit == IngestInit => PickedTyped /\ CreatingTyped /\ RecentTyped
<1>. SUFFICES ASSUME IngestInit PROVE PickedTyped /\ CreatingTyped /\ RecentTyped
  OBVIOUS
<1>1. PickedTyped /\ CreatingTyped
  BY DEF IngestInit, PickedTyped, CreatingTyped, NotCreating
<1>2. RecentTyped
  BY IngestAssumption DEF IngestInit, RecentTyped, NoJobs, JobsType
<1>. QED
  BY <1>1, <1>2

LEMMA FirstIsAmong == ASSUME NEW files, files # {} PROVE Head1(files) \in files
BY DEF Head1

LEMMA PickedStaysTyped == PickedTyped /\ [IngestNext]_ingestVars => PickedTyped'
<1>. SUFFICES ASSUME PickedTyped, [IngestNext]_ingestVars PROVE PickedTyped'
  OBVIOUS
<1>1. CASE ModelsArrive \/ ProvidersArrive \/ SettingsArrived
  BY <1>1 DEF ModelsArrive, ProvidersArrive, SettingsArrived, mediaVars, PickedTyped
<1>2. ASSUME NEW key \in {"backend", "model", "provider", "language"}, NEW value, Choose(key, value)
      PROVE  PickedTyped'
  BY <1>2 DEF Choose, mediaVars, PickedTyped
<1>3. CASE PickBackend \/ PickModel \/ PickProvider \/ PickLanguage
  BY <1>2, <1>3 DEF PickBackend, PickModel, PickProvider, PickLanguage
<1>4. CASE SelectMedia \/ ClearMedia
  BY <1>4 DEF SelectMedia, ClearMedia, chosenVars, PickedTyped
<1>5. CASE RunPreflight
  BY <1>5, FirstIsAmong DEF RunPreflight, chosenVars, PickedTyped
<1>6. CASE PreflightAnswers
  BY <1>6 DEF PreflightAnswers, chosenVars, PickedTyped
<1>7. CASE \/ StartCreation \/ CreateTasks \/ CreationAnswered
           \/ TasksArrive \/ AskStop \/ ConfirmStop \/ ClearTasks
           \/ \E t \in TaskIds : ShowRecent(t) \/ JobChanges(t)
           \/ UNCHANGED ingestVars
  BY <1>7 DEF StartCreation, CreateTasks, CreationAnswered, TasksArrive, AskStop, ConfirmStop,
     ClearTasks, ShowRecent, JobChanges, ingestVars, chosenVars, mediaVars, PickedTyped
<1>. QED
  BY <1>1, <1>3, <1>4, <1>5, <1>6, <1>7 DEF IngestNext, ChoiceNext, RecentNext

(* As many tasks are made as files were sent: some, when some were sent.      *)
LEMMA SomeAreMade ==
  ASSUME NEW files, files \subseteq Media, files # {},
         NEW new, Cardinality(new) = Cardinality(files)
  PROVE  new # {}
<1>1. IsFiniteSet(files)
  BY IngestAssumption, FS_Subset
<1>. QED
  BY <1>1, FS_EmptySet

LEMMA CreatingStaysTyped ==
  PickedTyped /\ CreatingTyped /\ [IngestNext]_ingestVars => CreatingTyped'
<1>. SUFFICES ASSUME PickedTyped, CreatingTyped, [IngestNext]_ingestVars PROVE CreatingTyped'
  OBVIOUS
<1>1. CASE StartCreation
  BY <1>1 DEF StartCreation, PickedTyped, CreatingTyped
<1>2. CASE CreateTasks
  <2>1. CASE creating' = NotCreating
    BY <2>1 DEF NotCreating, CreatingTyped
  <2>2. ASSUME NEW new \in SUBSET {t \in TaskIds : jobs[t] = "unmade"},
               Cardinality(new) = Cardinality(creating.files),
               creating' = [step |-> "made", files |-> new, sent |-> "none"]
        PROVE  CreatingTyped'
    BY <1>2, <2>2, SomeAreMade DEF CreateTasks, CreatingTyped
  <2>. QED
    BY <1>2, <2>1, <2>2 DEF CreateTasks
<1>3. CASE CreationAnswered
  BY <1>3 DEF CreationAnswered, NotCreating, CreatingTyped
<1>4. CASE UNCHANGED creating
  BY <1>4 DEF CreatingTyped
<1>. QED
  BY <1>1, <1>2, <1>3, <1>4 DEF IngestNext, ChoiceNext, RecentNext, ModelsArrive, ProvidersArrive,
     SettingsArrived, PickBackend, PickModel, PickProvider, PickLanguage, Choose, SelectMedia,
     ClearMedia, RunPreflight, PreflightAnswers, TasksArrive, AskStop, ConfirmStop, ClearTasks,
     ShowRecent, JobChanges, ingestVars

(* What is shown of a list is a task, or none.                                *)
LEMMA ShownIsTask ==
  ASSUME NEW list, NEW task \in 0..MaxTasks
  PROVE  Shown(list, task) \in 0..MaxTasks
<1>1. Listed(list) \subseteq 0..MaxTasks /\ 0 \in 0..MaxTasks
  BY IngestAssumption DEF Listed, TaskIds
<1>. QED
  BY <1>1, FirstIsAmong DEF Shown

LEMMA AskedIsTask ==
  ASSUME RecentTyped, NEW list, NEW task
  PROVE  Asking(list, task) \in 0..MaxTasks
BY IngestAssumption DEF RecentTyped, Asking

LEMMA RecentStaysTyped ==
  CreatingTyped /\ RecentTyped /\ [IngestNext]_ingestVars => RecentTyped'
<1>. SUFFICES ASSUME CreatingTyped, RecentTyped, [IngestNext]_ingestVars PROVE RecentTyped'
  OBVIOUS
<1>0. TaskIds \subseteq 0..MaxTasks /\ 0 \in 0..MaxTasks
  BY IngestAssumption DEF TaskIds
<1>1. CASE CreateTasks
  <2>1. jobs' \in JobsType
    BY <1>1 DEF CreateTasks, RecentTyped, JobsType
  <2>. QED
    BY <1>1, <2>1 DEF CreateTasks, RecentTyped
<1>2. CASE CreationAnswered
  <2>1. focus' \in 0..MaxTasks
    BY <1>0, <1>2, FirstIsAmong DEF CreationAnswered, CreatingTyped
  <2>2. stopping' \in 0..MaxTasks
    BY <1>2, AskedIsTask DEF CreationAnswered
  <2>. QED
    BY <1>2, <2>1, <2>2 DEF CreationAnswered, RecentTyped
<1>3. CASE TasksArrive
  <2>1. Listed(jobs) \subseteq 0..MaxTasks
    BY <1>0 DEF Listed
  <2>2. focus' \in 0..MaxTasks
    BY <1>3, <2>1, FirstIsAmong DEF TasksArrive, RecentTyped
  <2>3. stopping' \in 0..MaxTasks
    BY <1>3, AskedIsTask DEF TasksArrive
  <2>. QED
    BY <1>3, <2>2, <2>3 DEF TasksArrive, RecentTyped
<1>4. ASSUME NEW t \in TaskIds, ShowRecent(t) PROVE RecentTyped'
  <2>1. stopping' \in 0..MaxTasks
    BY <1>4, AskedIsTask DEF ShowRecent
  <2>. QED
    BY <1>0, <1>4, <2>1 DEF ShowRecent, RecentTyped
<1>5. CASE AskStop
  <2>1. SelectedTask \in 0..MaxTasks
    BY ShownIsTask DEF SelectedTask, RecentTyped
  <2>. QED
    BY <1>5, <2>1 DEF AskStop, RecentTyped
<1>6. CASE ConfirmStop
  <2>1. jobs' \in JobsType
    BY <1>6 DEF ConfirmStop, RecentTyped, JobsType
  <2>. QED
    BY <1>0, <1>6, <2>1 DEF ConfirmStop, RecentTyped
<1>7. ASSUME NEW t \in TaskIds, JobChanges(t) PROVE RecentTyped'
  <2>1. jobs' \in JobsType
    BY <1>7 DEF JobChanges, RecentTyped, JobsType
  <2>. QED
    BY <1>7, <2>1 DEF JobChanges, RecentTyped
<1>8. CASE ClearTasks
  <2>1. jobs' \in JobsType
    BY <1>8 DEF ClearTasks, RecentTyped, JobsType
  <2>2. stopping' \in 0..MaxTasks
    BY <1>8, AskedIsTask DEF ClearTasks
  <2>. QED
    BY <1>0, <1>8, <2>1, <2>2 DEF ClearTasks, RecentTyped
<1>9. CASE UNCHANGED recentVars
  BY <1>9 DEF recentVars, RecentTyped
<1>. QED
  BY <1>1, <1>2, <1>3, <1>4, <1>5, <1>6, <1>7, <1>8, <1>9 DEF IngestNext, ChoiceNext, RecentNext,
     ModelsArrive, ProvidersArrive, SettingsArrived, PickBackend, PickModel, PickProvider,
     PickLanguage, Choose, SelectMedia, ClearMedia, RunPreflight, PreflightAnswers, StartCreation,
     ingestVars, recentVars

LEMMA IngestTypeHolds == IngestInit /\ [][IngestNext]_ingestVars => []IngestTypeOK
<1>1. IngestInv /\ PickedTyped /\ RecentTyped => IngestTypeOK
  BY DEF IngestInv, RequestType, PickedTyped, RecentTyped, JobsType, IngestTypeOK
<1>. QED
  BY <1>1, IngestInvInit, IngestStep, IngestTypedInit, PickedStaysTyped, CreatingStaysTyped,
     RecentStaysTyped, PTL

--------------------------------------------------------------------------------
(* TaskDesk: what is confirmed is what was asked.                             *)

(* A dialog of a single task, opened on the page that follows no link, was    *)
(* opened on the selected task; the selected task is listed.                  *)
DialogIsOnSelected ==
  /\ dialog.of \in Guarded /\ route = NoTask => dialog.on = selected
  /\ selected # NoTask => selected \in Present(listed)

(* Settling on a task chooses a listed one, and moves from a listed one       *)
(* only for the link.                                                         *)
LEMMA SettledIsPresent ==
  ASSUME NEW list, NEW sel, NEW mode, NEW link, NEW shift
  PROVE  /\ Settled(list, sel, mode, link, shift) # NoTask =>
              Settled(list, sel, mode, link, shift) \in Present(list)
         /\ sel \in Present(list) /\ link \notin Present(list) /\ sel # NoTask =>
              Settled(list, sel, mode, link, shift) = sel
BY DEF Settled

LEMMA DialogInit == DeskInit => DialogIsOnSelected
BY DeskAssumption DEF DeskInit, DialogIsOnSelected, Closed

LEMMA NobodyIsAsked == Closed.of \notin Guarded /\ "batch" \notin Guarded
BY DeskAssumption DEF Closed

LEMMA NoTaskIsAbsent == ASSUME NEW list PROVE NoTask \notin Present(list)
BY DeskAssumption DEF Present

(* A list that no longer has the selected task closes the dialog, and so      *)
(* does another selection.                                                    *)
LEMMA DialogStep == DialogIsOnSelected /\ [DeskNext]_deskVars => DialogIsOnSelected'
<1>. SUFFICES ASSUME DialogIsOnSelected, [DeskNext]_deskVars PROVE DialogIsOnSelected'
  OBVIOUS
<1>1. CASE ListArrives
  <2>1. CASE asking.answer = listed
    BY <1>1, <2>1 DEF ListArrives, DialogIsOnSelected
  <2>2. CASE asking.answer # listed
    <3>1. /\ listed' = asking.answer /\ route' = route
          /\ selected' = Settled(listed', selected, selecting, route, TRUE)
          /\ dialog' = IF dialog.of = "batch" /\ Present(listed') = {} THEN Closed
                       ELSE DialogAfter(listed', selected)
      BY <1>1, <2>2 DEF ListArrives
    <3>2. selected' # NoTask => selected' \in Present(listed')
      BY <3>1, SettledIsPresent
    <3>3. ASSUME dialog'.of \in Guarded, route' = NoTask PROVE dialog'.on = selected'
      <4>0. dialog' # Closed
        BY <3>3, NobodyIsAsked
      <4>1. dialog' = dialog /\ selected \in Present(listed')
        BY <3>1, <3>3, <4>0 DEF DialogAfter
      <4>2. selected' = selected
        <5>1. route \notin Present(listed') /\ selected # NoTask
          BY <3>1, <3>3, <4>1, NoTaskIsAbsent
        <5>. QED
          BY <3>1, <4>1, <5>1, SettledIsPresent
      <4>. QED
        BY <3>1, <3>3, <4>1, <4>2 DEF DialogIsOnSelected
    <3>. QED
      BY <3>2, <3>3 DEF DialogIsOnSelected
  <2>. QED
    BY <2>1, <2>2
<1>2. ASSUME NEW sel, NEW mode, NEW link, NEW shift, dialog = Closed, UNCHANGED listed,
             ShowTask(listed, sel, mode, link, shift)
      PROVE  DialogIsOnSelected'
  <2>1. dialog' = Closed
    BY <1>2 DEF ShowTask, DialogAfter
  <2>2. selected' # NoTask => selected' \in Present(listed')
    BY <1>2, SettledIsPresent DEF ShowTask
  <2>. QED
    BY <2>1, <2>2, NobodyIsAsked DEF DialogIsOnSelected
<1>3. ASSUME NEW t, ClickRow(t) PROVE DialogIsOnSelected'
  <2>1. CASE selecting
    BY <1>3, <2>1 DEF ClickRow, DialogIsOnSelected
  <2>2. CASE ~selecting
    BY <1>2, <1>3, <2>2 DEF ClickRow
  <2>. QED
    BY <2>1, <2>2
<1>4. CASE CloseDetail
  <2>1. dialog' = Closed /\ listed' = listed
        /\ selected' = Settled(listed, NoTask, selecting, route, FALSE)
    BY <1>4 DEF CloseDetail
  <2>2. selected' # NoTask => selected' \in Present(listed')
    BY <2>1, SettledIsPresent
  <2>. QED
    BY <2>1, <2>2, NobodyIsAsked DEF DialogIsOnSelected
<1>5. CASE ToggleSelectionMode \/ \E t \in Links : FollowLink(t)
  BY <1>2, <1>5 DEF ToggleSelectionMode, FollowLink
<1>6. CASE \E op \in Guarded : OpenDialog(op)
  BY <1>6 DEF OpenDialog, DialogIsOnSelected
<1>7. ASSUME UNCHANGED <<route, selected, listed>>, dialog'.of \notin Guarded \/ dialog' = dialog
      PROVE  DialogIsOnSelected'
  BY <1>7 DEF DialogIsOnSelected
<1>8. CASE OpenBatchDialog \/ Dismiss \/ Confirm \/ \E op \in BatchOps : StartBatch(op)
  <2>1. UNCHANGED <<route, selected, listed>>
        /\ (dialog' = Closed \/ dialog' = [of |-> "batch", on |-> NoTask])
    BY <1>8 DEF OpenBatchDialog, Dismiss, Confirm, StartBatch
  <2>. QED
    BY <1>7, <2>1, NobodyIsAsked
<1>9. CASE \/ \E t \in Tasks : OthersChange(t)
           \/ PollList \/ AnswerList
           \/ \E F \in SUBSET Tasks : ToggleFilteredSelection(F)
           \/ \E op \in Direct : PressDirect(op)
           \/ \E c \in calls : CallEnds(c)
           \/ \E t \in Tasks : BatchServed(t)
           \/ \E t \in Tasks : BatchRefused(t)
           \/ UNCHANGED deskVars
  BY <1>7, <1>9 DEF OthersChange, PollList, AnswerList, ToggleFilteredSelection, PressDirect,
     CallEnds, BatchServed, BatchRefused, pageVars, deskVars
<1>. QED
  BY <1>1, <1>3, <1>4, <1>5, <1>6, <1>8, <1>9 DEF DeskNext

(* Only a confirmation sends a call while it closes, on the selected task.    *)
LEMMA ConfirmationSends ==
  ASSUME DialogIsOnSelected, [DeskNext]_deskVars, dialog.of \in Guarded, calls' # calls,
         dialog' = Closed, route = NoTask
  PROVE  \A c \in calls' \ calls : c.quiet \/ c.on = dialog.on
<1>1. CASE Confirm
  <2>1. calls' = calls \cup {Call(dialog.of, selected, FALSE)}
    BY <1>1 DEF Confirm
  <2>. QED
    BY <2>1 DEF Call, DialogIsOnSelected
<1>2. ASSUME NEW t \in Tasks, BatchRefused(t) PROVE FALSE
  BY <1>2, NobodyIsAsked DEF BatchRefused
<1>3. CASE \E op \in Direct : PressDirect(op)
  BY <1>3, NobodyIsAsked DEF PressDirect
<1>4. CASE \E c \in calls : CallEnds(c)
  BY <1>4 DEF CallEnds
<1>5. CASE \/ \E t \in Tasks : OthersChange(t)
           \/ PollList \/ AnswerList \/ ListArrives
           \/ \E t \in Tasks : ClickRow(t)
           \/ CloseDetail \/ ToggleSelectionMode \/ OpenBatchDialog \/ Dismiss
           \/ \E t \in Links : FollowLink(t)
           \/ \E F \in SUBSET Tasks : ToggleFilteredSelection(F)
           \/ \E op \in Guarded : OpenDialog(op)
           \/ \E op \in BatchOps : StartBatch(op)
           \/ \E t \in Tasks : BatchServed(t)
           \/ UNCHANGED deskVars
  BY <1>5 DEF OthersChange, PollList, AnswerList, ListArrives, ClickRow, CloseDetail,
     ToggleSelectionMode, OpenBatchDialog, Dismiss, FollowLink, ToggleFilteredSelection,
     OpenDialog, StartBatch, BatchServed, pageVars, deskVars
<1>. QED
  BY <1>1, <1>2, <1>3, <1>4, <1>5 DEF DeskNext

(* A confirmation sends the call for the task its dialog was opened on,       *)
(* whatever list has arrived while it was open; TasksPage takes the           *)
(* selected task when the button is pressed, and the dialog may not outlive   *)
(* a change of it.                                                            *)
THEOREM ConfirmedIsAskedHolds == DeskSpec => ConfirmedIsAsked
<1>. DEFINE asked == dialog.of \in Guarded /\ calls' # calls /\ dialog' = Closed /\ route = NoTask
                       => \A c \in calls' \ calls : c.quiet \/ c.on = dialog.on
<1>1. DialogIsOnSelected /\ [DeskNext]_deskVars => [asked]_deskVars
  BY ConfirmationSends
<1>. QED
  BY <1>1, DialogInit, DialogStep, PTL DEF DeskSpec, ConfirmedIsAsked

--------------------------------------------------------------------------------
(* AiDesk: a list that arrives does not change the task on show.              *)

(* The address names the task on show as soon as there is one.                *)
AddressNamesTask ==
  /\ Named(library, libraryRead, address) = address
  /\ ~libraryRead => \A t \in AiTasks : library[t].state = "absent"

(* Naming the task on show in the address is done at once.                    *)
LEMMA NamedOnce ==
  ASSUME NEW list, NEW read, NEW addr
  PROVE  Named(list, read, Named(list, read, addr)) = Named(list, read, addr)
<1>1. CASE Named(list, read, addr) = addr
  BY <1>1
<1>2. CASE Named(list, read, addr) # addr
  <2>1. /\ Named(list, read, addr) = AiAddress(ShownTask(list, addr), addr.mode, NoAiTask)
        /\ ShownTask(list, addr) # NoAiTask
    BY <1>2 DEF Named
  <2>2. AiAddress(ShownTask(list, addr), addr.mode, NoAiTask).task # NoAiTask
    BY <2>1 DEF AiAddress
  <2>. QED
    BY <2>1, <2>2 DEF Named
<1>. QED
  BY <1>1, <1>2

LEMMA AddressInit == AiInit => AddressNamesTask
<1>. SUFFICES ASSUME AiInit PROVE AddressNamesTask
  OBVIOUS
<1>1. libraryRead = FALSE /\ \A t \in AiTasks : library[t].state = "absent"
  BY DEF AiInit
<1>. QED
  BY <1>1 DEF AddressNamesTask, Named

(* Every address the page goes to is named, and so is every list that         *)
(* arrives.                                                                   *)
LEMMA AddressStep == AddressNamesTask /\ [AiNext]_aiVars => AddressNamesTask'
<1>. SUFFICES ASSUME AddressNamesTask, [AiNext]_aiVars PROVE AddressNamesTask'
  OBVIOUS
<1>1. CASE LibraryArrives
  <2>1. libraryRead' = TRUE /\ address' = Named(library', libraryRead', address)
    BY <1>1 DEF LibraryArrives
  <2>2. Named(library', libraryRead', address') = address'
    BY <2>1, NamedOnce
  <2>. QED
    BY <2>1, <2>2 DEF AddressNamesTask
<1>2. ASSUME UNCHANGED <<library, libraryRead>>, NEW addr, NEW starts, GoTo(addr, starts)
      PROVE  AddressNamesTask'
  BY <1>2, NamedOnce DEF GoTo, AddressNamesTask
<1>3. ASSUME UNCHANGED <<library, libraryRead, address>> PROVE AddressNamesTask'
  BY <1>3 DEF AddressNamesTask
<1>4. CASE \/ SelectAiTask \/ SwitchMode \/ FollowSideBar \/ FollowTaskLink \/ ChooseTranslation
  BY <1>2, <1>4 DEF SelectAiTask, SwitchMode, FollowSideBar, FollowTaskLink, ChooseTranslation
<1>5. CASE \/ SearchAiTasks \/ StartTranslation \/ UNCHANGED aiVars
           \/ \E s \in starting : TranslationRefused(s)
  BY <1>3, <1>5 DEF SearchAiTasks, StartTranslation, TranslationRefused, aiVars
<1>6. ASSUME NEW s \in starting, TranslationStarted(s) PROVE AddressNamesTask'
  BY <1>2, <1>3, <1>6 DEF TranslationStarted
<1>. QED
  BY <1>1, <1>4, <1>5, <1>6 DEF AiNext

(* Without a name in the address there is nothing on show.                    *)
LEMMA ShownIsNamed ==
  ASSUME AddressNamesTask, OnShow # NoAiTask
  PROVE  /\ address.page = "ai" /\ address.mode # "chat"
         /\ address.task # NoAiTask /\ OnShow = address.task
<1>1. address.page = "ai" /\ address.mode # "chat" /\ ShownTask(library, address) = OnShow
  BY DEF OnShow
<1>2. address.task # NoAiTask
  <2>. SUFFICES ASSUME address.task = NoAiTask PROVE FALSE
    OBVIOUS
  <2>1. CASE libraryRead
    <3>1. Named(library, libraryRead, address) = AiAddress(OnShow, address.mode, NoAiTask)
      BY <1>1, <2>1 DEF Named
    <3>. QED
      BY <3>1 DEF AddressNamesTask, AiAddress
  <2>2. CASE ~libraryRead
    <3>1. Eligible(library, address) = {}
      BY <2>2 DEF AddressNamesTask, Eligible
    <3>. QED
      BY <1>1, <3>1 DEF ShownTask, Newest
  <2>. QED
    BY <2>1, <2>2
<1>. QED
  BY <1>1, <1>2 DEF ShownTask

(* A list of tasks that arrives on the AI page takes the task on show away    *)
(* when it is gone and never puts another one in its place: the page has      *)
(* named it in the address, so that newer tasks do not take over.             *)
THEOREM AiTaskIsKeptHolds == AiSpec => AiTaskIsKept
<1>. DEFINE keeps == OnShow # NoAiTask /\ library' # library => OnShow' \in {OnShow, NoAiTask}
<1>1. AddressNamesTask /\ [AiNext]_aiVars => [keeps]_aiVars
  <2>. SUFFICES ASSUME AddressNamesTask, [AiNext]_aiVars, OnShow # NoAiTask, library' # library
                PROVE  OnShow' \in {OnShow, NoAiTask}
    BY DEF aiVars
  <2>1. LibraryArrives
    BY DEF AiNext, SelectAiTask, SearchAiTasks, SwitchMode, FollowSideBar, FollowTaskLink,
       ChooseTranslation, StartTranslation, TranslationStarted, TranslationRefused, aiVars
  <2>2. address' = address
    BY <2>1, ShownIsNamed DEF LibraryArrives, Named
  <2>3. OnShow' = IF address.task \in Eligible(library', address) THEN address.task ELSE NoAiTask
    BY <2>2, ShownIsNamed DEF OnShow, ShownTask
  <2>. QED
    BY <2>3, ShownIsNamed
<1>. QED
  BY <1>1, AddressInit, AddressStep, PTL DEF AiSpec, AiTaskIsKept

--------------------------------------------------------------------------------
(* Proofreading: what an applied run makes of the transcript, and that        *)
(* every active run has somebody to execute it. Only the service matters to   *)
(* both; the panel may send whatever it likes.                                *)

Text == ({"typed"} \X Nat) \cup ({"suggested"} \X Nat)
Texts == [1..Segments -> Text]
Run == [status : Active \cup Ended, source : Nat, base : Texts,
        advice : [1..Segments -> Resolutions]]

ServiceType ==
  /\ words \in Texts /\ version \in Nat /\ edits \in Nat /\ settled \in BOOLEAN
  /\ runs \in Seq(Run) /\ pending \in Seq(Nat) /\ entering \in Nat
  /\ job \in [run : Nat, next : Nat, collected : SUBSET Nat]

(* A run whose source is the latest version has the texts of the transcript.  *)
SourceIsKept ==
  \A r \in 1..Len(runs) : /\ runs[r].source <= version
                          /\ runs[r].source = version => runs[r].base = words

(* What is queued are runs, each once, and none of them is anywhere else;     *)
(* what is about to be queued, executed or lost is active, and only one of    *)
(* these; what is active is queued or one of these.                           *)
Elsewhere == {entering, job.run} \cup unserved
QueueIsSound ==
  /\ \A k \in 1..Len(pending) : pending[k] \in 1..Len(runs) /\ pending[k] \notin Elsewhere
  /\ \A j, k \in 1..Len(pending) : pending[j] = pending[k] => j = k
  /\ \A r \in Elsewhere : r # 0 => r \in 1..Len(runs) /\ runs[r].status \in Active
  /\ 0 \notin unserved /\ job.run \notin unserved
  /\ entering # 0 => entering \notin {job.run} \cup unserved
  /\ \A r \in 1..Len(runs) : runs[r].status \in Active => r \in Elsewhere \/ InQueue(r)

ServiceInv == ServiceType /\ SourceIsKept /\ QueueIsSound

USE ProofreadingAssumption
USE DEF Active, Ended, Resolutions

LEMMA InitSound == ProofInit => ServiceInv
  <1> SUFFICES ASSUME ProofInit PROVE ServiceInv
    OBVIOUS
  <1>1. words \in Texts
    BY DEF ProofInit, Texts, Text
  <1>2. ServiceType
    BY <1>1 DEF ProofInit, ServiceType, NoJob
  <1>3. SourceIsKept /\ QueueIsSound
    BY DEF ProofInit, SourceIsKept, QueueIsSound, Elsewhere, NoJob
  <1> QED
    BY <1>2, <1>3 DEF ServiceInv

(* Steps of the panel leave the service alone.                                *)
LEMMA PanelKeeps == ServiceInv /\ UNCHANGED serviceVars => ServiceInv'
  BY DEF ServiceInv, ServiceType, SourceIsKept, QueueIsSound, Elsewhere, InQueue, serviceVars,
         queueVars

LEMMA TextTypes == \A n \in Nat : <<"typed", n>> \in Text /\ Suggested(n) \in Text
  BY DEF Text, Suggested

(* A run keeps its fields apart from one; what follows for sequences of runs. *)
LEMMA RunTypes ==
  ASSUME runs \in Seq(Run), NEW r \in 1..Len(runs)
  PROVE  /\ runs[r] \in Run /\ runs[r].source \in Nat /\ runs[r].base \in Texts
         /\ runs[r].status \in Active \cup Ended
         /\ runs[r].advice \in [1..Segments -> Resolutions]
  <1>1. runs[r] \in Run
    OBVIOUS
  <1>2. \A S, T : runs[r] \in [status : S, source : Nat, base : Texts, advice : T]
          => /\ runs[r].source \in Nat /\ runs[r].base \in Texts
             /\ runs[r].status \in S /\ runs[r].advice \in T
    OBVIOUS
  <1> QED
    BY <1>1, <1>2 DEF Run

(* Another version leaves no run with the latest one.                         *)
LEMMA NewVersionKeeps ==
  ASSUME ServiceInv, words' \in Texts, version' = version + 1, edits' \in Nat,
         settled' \in BOOLEAN, UNCHANGED <<runs, queueVars>>
  PROVE  ServiceInv'
  <1>1. ServiceType'
    BY DEF ServiceInv, ServiceType, queueVars
  <1>2. SourceIsKept'
    <2> SUFFICES ASSUME NEW r \in 1..Len(runs)
                 PROVE  runs[r].source <= version + 1 /\ runs[r].source # version + 1
      BY DEF SourceIsKept
    <2>1. runs[r].source \in Nat /\ version \in Nat
      BY RunTypes DEF ServiceInv, ServiceType
    <2>2. runs[r].source <= version
      BY DEF ServiceInv, SourceIsKept
    <2> QED
      BY <2>1, <2>2
  <1>3. QueueIsSound'
    BY DEF ServiceInv, QueueIsSound, Elsewhere, InQueue, queueVars
  <1> QED
    BY <1>1, <1>2, <1>3 DEF ServiceInv

LEMMA OthersEditKeeps == ServiceInv /\ OthersEdit => ServiceInv'
  <1> SUFFICES ASSUME ServiceInv, OthersEdit PROVE ServiceInv'
    OBVIOUS
  <1>1. edits' \in Nat /\ settled' \in BOOLEAN /\ version' = version + 1
    BY DEF ServiceInv, ServiceType, OthersEdit
  <1>2. PICK s \in 1..Segments : words' = [words EXCEPT ![s] = <<"typed", edits'>>]
    BY DEF OthersEdit
  <1>3. <<"typed", edits'>> \in Text
    BY <1>1, TextTypes
  <1>4. words' \in Texts
    BY <1>2, <1>3, Zenon DEF ServiceInv, ServiceType, Texts
  <1> QED
    BY <1>1, <1>4, NewVersionKeeps DEF OthersEdit

LEMMA RetranscriptionStartsKeeps == ServiceInv /\ RetranscriptionStarts => ServiceInv'
  <1> SUFFICES ASSUME ServiceInv, RetranscriptionStarts PROVE ServiceInv'
    OBVIOUS
  <1>1. ServiceType'
    <2>1. settled' \in BOOLEAN
      BY DEF RetranscriptionStarts
    <2>2. edits' \in Nat
      BY DEF ServiceInv, ServiceType, RetranscriptionStarts
    <2> QED
      BY <2>1, <2>2 DEF ServiceInv, ServiceType, RetranscriptionStarts, queueVars
  <1> QED
    BY <1>1 DEF ServiceInv, RetranscriptionStarts, SourceIsKept, QueueIsSound, Elsewhere, InQueue,
                queueVars

LEMMA RetranscriptionEndsKeeps == ServiceInv /\ RetranscriptionEnds => ServiceInv'
  <1> SUFFICES ASSUME ServiceInv, RetranscriptionEnds PROVE ServiceInv'
    OBVIOUS
  <1>1. edits' \in Nat /\ settled' \in BOOLEAN /\ version' = version + 1
    BY DEF ServiceInv, ServiceType, RetranscriptionEnds
  <1>2. <<"typed", edits>> \in Text
    BY TextTypes DEF ServiceInv, ServiceType
  <1>3. words' \in Texts
    BY <1>2, Zenon DEF RetranscriptionEnds, Texts
  <1> QED
    BY <1>1, <1>3, NewVersionKeeps DEF RetranscriptionEnds

(* The front of the queue, and what stays behind it.                          *)
LEMMA QueueFront ==
  ASSUME pending \in Seq(Nat), pending # <<>>
  PROVE  /\ Head(pending) = pending[1] /\ Len(pending) \in Nat \ {0}
         /\ Tail(pending) \in Seq(Nat) /\ Len(Tail(pending)) = Len(pending) - 1
         /\ \A k \in 1..Len(Tail(pending)) : Tail(pending)[k] = pending[k + 1]
  OBVIOUS

(* A change of one run that leaves its source, texts and advice.              *)
LEMMA StatusChange ==
  ASSUME runs \in Seq(Run), NEW r \in 1..Len(runs), NEW s \in Active \cup Ended,
         runs' = [runs EXCEPT ![r].status = s]
  PROVE  /\ runs' \in Seq(Run) /\ Len(runs') = Len(runs)
         /\ \A q \in 1..Len(runs) : q # r => runs'[q] = runs[q]
         /\ runs'[r].status = s /\ runs'[r].source = runs[r].source
         /\ runs'[r].base = runs[r].base /\ runs'[r].advice = runs[r].advice
  <1>1. runs[r] \in Run
    BY RunTypes
  <1>2. [runs[r] EXCEPT !.status = s] \in Run
    BY <1>1 DEF Run
  <1>3. runs' = [runs EXCEPT ![r] = [runs[r] EXCEPT !.status = s]]
    OBVIOUS
  <1>4. runs' \in Seq(Run) /\ Len(runs') = Len(runs)
    BY <1>2, <1>3
  <1>5. \A q \in 1..Len(runs) : q # r => runs'[q] = runs[q]
    BY <1>3
  <1>6. runs'[r] = [runs[r] EXCEPT !.status = s]
    BY <1>3
  <1>7. [runs[r] EXCEPT !.status = s].status = s
    BY <1>1 DEF Run
  <1>8. LET n == [runs[r] EXCEPT !.status = s]
        IN n.source = runs[r].source /\ n.base = runs[r].base /\ n.advice = runs[r].advice
    OBVIOUS
  <1> QED
    BY <1>4, <1>5, <1>6, <1>7, <1>8

(* One run is replaced.                                                       *)
LEMMA PutRun ==
  ASSUME runs \in Seq(Run), NEW r \in 1..Len(runs), NEW n \in Run,
         runs' = [runs EXCEPT ![r] = n]
  PROVE  /\ runs' \in Seq(Run) /\ Len(runs') = Len(runs)
         /\ \A q \in 1..Len(runs) : q # r => runs'[q] = runs[q]
         /\ runs'[r] = n
  OBVIOUS

(* The worker is through with its run, which is ended or lost.                *)
LEMMA JobEnds ==
  ASSUME ServiceInv, job.run # 0, job' = NoJob, Len(runs') = Len(runs),
         UNCHANGED <<entering, pending>>,
         \/ unserved' = unserved /\ runs'[job.run].status \notin Active
         \/ unserved' = unserved \cup {job.run} /\ runs' = runs,
         \A q \in 1..Len(runs) : q # job.run => runs'[q] = runs[q]
  PROVE  QueueIsSound'
  <1>0. job'.run = 0
    BY DEF NoJob
  <1>1. Elsewhere' \subseteq Elsewhere \cup {0}
    BY <1>0 DEF Elsewhere
  <1>2. \A k \in 1..Len(pending) : pending[k] \in 1..Len(runs) /\ pending[k] \notin Elsewhere'
    BY <1>1 DEF ServiceInv, ServiceType, QueueIsSound
  <1>3. \A j, k \in 1..Len(pending) : pending[j] = pending[k] => j = k
    BY DEF ServiceInv, QueueIsSound
  <1>4. ASSUME NEW r \in Elsewhere', r # 0
        PROVE  r \in 1..Len(runs) /\ runs'[r].status \in Active
    <2>1. r \in Elsewhere /\ r \in 1..Len(runs) /\ runs[r].status \in Active
      BY <1>1, <1>4 DEF ServiceInv, QueueIsSound
    <2>2. CASE r # job.run
      BY <2>1, <2>2
    <2>3. CASE r = job.run
      BY <1>0, <1>4, <2>1, <2>3 DEF ServiceInv, QueueIsSound, Elsewhere
    <2> QED
      BY <2>2, <2>3
  <1>5. /\ 0 \notin unserved' /\ job'.run \notin unserved'
        /\ entering # 0 => entering \notin {job'.run} \cup unserved'
    BY <1>0 DEF ServiceInv, QueueIsSound
  <1>6. ASSUME NEW r \in 1..Len(runs), runs'[r].status \in Active
        PROVE  r \in Elsewhere' \/ InQueue(r)
    <2>1. CASE r = job.run
      BY <1>6, <2>1 DEF Elsewhere
    <2>2. CASE r # job.run
      BY <1>6, <2>2 DEF ServiceInv, QueueIsSound, Elsewhere
    <2> QED
      BY <2>1, <2>2
  <1>7. \A r : InQueue(r)' <=> InQueue(r)
    BY DEF InQueue
  <1> QED
    BY <1>2, <1>3, <1>4, <1>5, <1>6, <1>7 DEF QueueIsSound

LEMMA NoJobType == NoJob \in [run : Nat, next : Nat, collected : SUBSET Nat]
  BY DEF NoJob

LEMMA TakeRunKeeps == ServiceInv /\ TakeRun => ServiceInv'
  <1> SUFFICES ASSUME ServiceInv, TakeRun PROVE ServiceInv'
    OBVIOUS
  <1> DEFINE h == Head(pending)
  <1>1. /\ runs \in Seq(Run) /\ pending \in Seq(Nat) /\ pending # <<>> /\ job.run = 0
        /\ UNCHANGED <<words, version, edits, settled, runs, entering, unserved>>
    BY DEF ServiceInv, ServiceType, TakeRun, NoJob
  <1>2. /\ h = pending[1] /\ Len(pending) \in Nat \ {0}
        /\ pending' \in Seq(Nat) /\ Len(pending') = Len(pending) - 1
        /\ \A k \in 1..Len(pending') : pending'[k] = pending[k + 1]
    BY <1>1, QueueFront DEF TakeRun
  <1>3. h \in 1..Len(runs) /\ h \notin Elsewhere
    BY <1>2 DEF ServiceInv, QueueIsSound
  <1>4. \A j, k \in 1..Len(pending) : pending[j] = pending[k] => j = k
    BY DEF ServiceInv, QueueIsSound
  <1>5. \A k \in 1..Len(pending') :
          pending'[k] # h /\ pending'[k] \in 1..Len(runs) /\ pending'[k] \notin Elsewhere
    <2> TAKE k \in 1..Len(pending')
    <2>1. k + 1 \in 1..Len(pending) /\ k + 1 # 1 /\ 1 \in 1..Len(pending)
      BY <1>2
    <2>2. pending[k + 1] # pending[1]
      BY <2>1, <1>4
    <2> QED
      BY <2>1, <2>2, <1>2 DEF ServiceInv, QueueIsSound
  <1>6. \A j, k \in 1..Len(pending') : pending'[j] = pending'[k] => j = k
    BY <1>2, <1>4
  <1>7. ASSUME NEW r \in 1..Len(runs), r # h, r \notin Elsewhere, runs[r].status \in Active
        PROVE  InQueue(r)'
    <2>1. PICK k \in 1..Len(pending) : pending[k] = r
      BY <1>7 DEF ServiceInv, QueueIsSound, InQueue
    <2>2. k - 1 \in 1..Len(pending') /\ pending'[k - 1] = r
      BY <2>1, <1>7, <1>2
    <2> QED
      BY <2>2 DEF InQueue
  <1> HIDE DEF h
  <1>8. /\ job' = [run |-> IF runs[h].status \in Active THEN h ELSE 0, next |-> 0,
                  collected |-> {}]
    BY DEF TakeRun, NoJob, h
  <1>9. /\ job' \in [run : Nat, next : Nat, collected : SUBSET Nat]
        /\ job'.run = IF runs[h].status \in Active THEN h ELSE 0
    BY <1>3, <1>8
  <1>10. ServiceType' /\ SourceIsKept'
    BY <1>1, <1>2, <1>9 DEF ServiceInv, ServiceType, SourceIsKept
  <1>11. Elsewhere' = {entering, job'.run} \cup unserved /\ Elsewhere = {entering, 0} \cup unserved
    BY <1>1 DEF Elsewhere
  <1>12. \A k \in 1..Len(pending') : pending'[k] \in 1..Len(runs) /\ pending'[k] \notin Elsewhere'
    BY <1>5, <1>9, <1>11
  <1>13. /\ \A r \in Elsewhere' : r # 0 => r \in 1..Len(runs) /\ runs[r].status \in Active
         /\ 0 \notin unserved /\ job'.run \notin unserved
         /\ entering # 0 => entering \notin {job'.run} \cup unserved
    BY <1>3, <1>9, <1>11 DEF ServiceInv, QueueIsSound
  <1>14. \A r \in 1..Len(runs) : runs[r].status \in Active => r \in Elsewhere' \/ InQueue(r)'
    BY <1>3, <1>7, <1>9, <1>11
  <1>15. QueueIsSound'
    BY <1>1, <1>6, <1>12, <1>13, <1>14 DEF QueueIsSound
  <1> QED
    BY <1>10, <1>15 DEF ServiceInv

LEMMA BeginRunKeeps == ServiceInv /\ BeginRun => ServiceInv'
  <1> SUFFICES ASSUME ServiceInv, BeginRun PROVE ServiceInv'
    OBVIOUS
  <1>1. /\ runs \in Seq(Run) /\ job.run \in 1..Len(runs) /\ job' = [job EXCEPT !.next = 1]
        /\ job \in [run : Nat, next : Nat, collected : SUBSET Nat]
        /\ runs' = [runs EXCEPT ![job.run].status = "running"]
        /\ UNCHANGED <<words, version, edits, settled, entering, pending, unserved>>
    BY DEF ServiceInv, ServiceType, QueueIsSound, Elsewhere, BeginRun
  <1>2. /\ runs' \in Seq(Run) /\ Len(runs') = Len(runs)
        /\ \A q \in 1..Len(runs) : q # job.run => runs'[q] = runs[q]
        /\ runs'[job.run].status = "running" /\ runs'[job.run].source = runs[job.run].source
        /\ runs'[job.run].base = runs[job.run].base
    BY <1>1, StatusChange
  <1>3. job' \in [run : Nat, next : Nat, collected : SUBSET Nat] /\ job'.run = job.run
    BY <1>1
  <1>4. ServiceType' /\ SourceIsKept'
    <2>1. ServiceType'
      BY <1>1, <1>2, <1>3 DEF ServiceInv, ServiceType
    <2>2. SourceIsKept'
      BY <1>1, <1>2 DEF ServiceInv, SourceIsKept
    <2> QED
      BY <2>1, <2>2
  <1>5. Elsewhere' = Elsewhere /\ \A r : InQueue(r)' <=> InQueue(r)
    BY <1>1, <1>3 DEF Elsewhere, InQueue
  <1>6. \A r \in 1..Len(runs) : runs'[r].status \in Active <=> runs[r].status \in Active
    <2>1. job.run # 0 /\ job.run \in Elsewhere
      BY DEF BeginRun, Elsewhere
    <2>2. runs[job.run].status \in Active
      BY <2>1 DEF ServiceInv, QueueIsSound
    <2> QED
      BY <1>2, <2>2
  <1>7. QueueIsSound'
    BY <1>1, <1>2, <1>3, <1>5, <1>6 DEF ServiceInv, QueueIsSound
  <1> QED
    BY <1>4, <1>7 DEF ServiceInv

LEMMA AnswerBatchKeeps == ServiceInv /\ AnswerBatch => ServiceInv'
  <1> SUFFICES ASSUME ServiceInv, AnswerBatch PROVE ServiceInv'
    OBVIOUS
  <1>1. PICK some \in {{}, {job.next}} :
          job' = [job EXCEPT !.next = @ + 1, !.collected = @ \cup some]
    BY DEF AnswerBatch
  <1>2. /\ job \in [run : Nat, next : Nat, collected : SUBSET Nat]
        /\ job.collected \cup some \in SUBSET Nat
    BY <1>1 DEF ServiceInv, ServiceType
  <1>4. /\ job.next + 1 \in Nat
        /\ job' = [job EXCEPT !.next = job.next + 1, !.collected = job.collected \cup some]
    BY <1>1, <1>2
  <1>5. job' \in [run : Nat, next : Nat, collected : SUBSET Nat] /\ job'.run = job.run
    BY <1>2, <1>4
  <1>3. UNCHANGED <<words, version, edits, settled, runs, entering, pending, unserved>>
    BY DEF AnswerBatch
  <1> QED
    BY <1>5, <1>3 DEF ServiceInv, ServiceType, SourceIsKept, QueueIsSound, Elsewhere, InQueue

LEMMA FinishRunKeeps == ServiceInv /\ FinishRun => ServiceInv'
  <1> SUFFICES ASSUME ServiceInv, FinishRun PROVE ServiceInv'
    OBVIOUS
  <1> DEFINE a == [s \in 1..Segments |-> IF s \in job.collected THEN "pending" ELSE "none"]
  <1>1. /\ runs \in Seq(Run) /\ job.run \in 1..Len(runs) /\ job.run # 0
        /\ job' = NoJob /\ runs' = [runs EXCEPT ![job.run] =
                                        [@ EXCEPT !.status = "completed", !.advice = a]]
        /\ UNCHANGED <<words, version, edits, settled, entering, pending, unserved>>
    BY DEF ServiceInv, ServiceType, QueueIsSound, Elsewhere, FinishRun
  <1>2. a \in [1..Segments -> Resolutions] /\ \A s \in 1..Segments : a[s] # "applied"
    OBVIOUS
  <1> DEFINE w == runs[job.run]
             n == [w EXCEPT !.status = "completed", !.advice = a]
  <1>8. /\ n \in Run /\ n.status = "completed" /\ n.advice = a
        /\ n.source = runs[job.run].source /\ n.base = runs[job.run].base
    <2>1. w \in Run
      BY <1>1
    <2> HIDE DEF a, w
    <2>2. n \in Run /\ n.status = "completed" /\ n.advice = a
          /\ n.source = w.source /\ n.base = w.base
      BY <1>2, <2>1 DEF Run
    <2> QED
      BY <2>2 DEF w
  <1>9. runs' = [runs EXCEPT ![job.run] = n]
    BY <1>1
  <1> HIDE DEF a, n
  <1>3. /\ runs' \in Seq(Run) /\ Len(runs') = Len(runs)
        /\ \A q \in 1..Len(runs) : q # job.run => runs'[q] = runs[q]
        /\ runs'[job.run] = n
    BY <1>1, <1>8, <1>9, PutRun
  <1>4. ServiceType'
    BY <1>1, <1>3, NoJobType DEF ServiceInv, ServiceType
  <1>5. SourceIsKept'
    BY <1>1, <1>3, <1>8 DEF ServiceInv, SourceIsKept
  <1>7. QueueIsSound'
    BY <1>1, <1>3, <1>8, JobEnds
  <1> QED
    BY <1>4, <1>5, <1>7 DEF ServiceInv

LEMMA FailRunKeeps == ServiceInv /\ FailRun => ServiceInv'
  <1> SUFFICES ASSUME ServiceInv, FailRun PROVE ServiceInv'
    OBVIOUS
  <1>1. /\ runs \in Seq(Run) /\ job.run \in 1..Len(runs) /\ job.run # 0 /\ job' = NoJob
        /\ UNCHANGED <<words, version, edits, settled, entering, pending>>
    BY DEF ServiceInv, ServiceType, QueueIsSound, Elsewhere, FailRun
  <1>2. CASE runs' = [runs EXCEPT ![job.run].status = "failed"] /\ UNCHANGED unserved
    <2>1. /\ runs' \in Seq(Run) /\ Len(runs') = Len(runs)
          /\ \A q \in 1..Len(runs) : q # job.run => runs'[q] = runs[q]
          /\ runs'[job.run].status = "failed" /\ runs'[job.run].source = runs[job.run].source
          /\ runs'[job.run].base = runs[job.run].base
      BY <1>1, <1>2, StatusChange
    <2>2. ServiceType' /\ SourceIsKept'
      BY <1>1, <2>1, NoJobType DEF ServiceInv, ServiceType, SourceIsKept
    <2>3. QueueIsSound'
      BY <1>1, <1>2, <2>1, JobEnds
    <2> QED
      BY <2>2, <2>3 DEF ServiceInv
  <1>3. CASE unserved' = unserved \cup {job.run} /\ UNCHANGED runs
    <2>1. ServiceType' /\ SourceIsKept'
      BY <1>1, <1>3, NoJobType DEF ServiceInv, ServiceType, SourceIsKept
    <2>2. QueueIsSound'
      BY <1>1, <1>3, JobEnds
    <2> QED
      BY <2>1, <2>2 DEF ServiceInv
  <1> QED
    BY <1>2, <1>3 DEF FailRun

(* A start empties the queue and leaves no row active.                        *)
LEMMA RestartKeeps == ServiceInv /\ Restart => ServiceInv'
  <1> SUFFICES ASSUME ServiceInv, Restart PROVE ServiceInv'
    OBVIOUS
  <1> DEFINE n(r) == IF runs[r].status \in Active THEN [runs[r] EXCEPT !.status = "interrupted"]
                                                  ELSE runs[r]
  <1>1. /\ runs \in Seq(Run) /\ Len(runs) \in Nat
        /\ UNCHANGED <<words, version, edits, settled>>
        /\ entering' = 0 /\ pending' = <<>> /\ job' = NoJob /\ unserved' = {}
        /\ runs' = [r \in 1..Len(runs) |-> n(r)]
    BY DEF ServiceInv, ServiceType, Restart
  <1>2. ASSUME NEW r \in 1..Len(runs)
        PROVE  /\ n(r) \in Run /\ n(r).status \notin Active
               /\ n(r).source = runs[r].source /\ n(r).base = runs[r].base
    <2>1. runs[r] \in Run
      BY <1>1
    <2> QED
      BY <2>1 DEF Run
  <1> HIDE DEF n
  <1>3. runs' \in Seq(Run) /\ Len(runs') = Len(runs)
    BY <1>1, <1>2
  <1>4. \A r \in 1..Len(runs) : runs'[r] = n(r)
    BY <1>1
  <1>5. ServiceType'
    BY <1>1, <1>3, NoJobType DEF ServiceInv, ServiceType
  <1>6. SourceIsKept'
    BY <1>1, <1>2, <1>3, <1>4 DEF ServiceInv, SourceIsKept
  <1>7. QueueIsSound'
    BY <1>1, <1>2, <1>3, <1>4 DEF QueueIsSound, Elsewhere, NoJob
  <1> QED
    BY <1>5, <1>6, <1>7 DEF ServiceInv

(* Something is put behind the queue, and behind the rows.                    *)
LEMMA QueueBack ==
  ASSUME NEW S, NEW q \in Seq(S), NEW e \in S
  PROVE  /\ Append(q, e) \in Seq(S) /\ Len(Append(q, e)) = Len(q) + 1 /\ Len(q) \in Nat
         /\ \A k \in 1..Len(q) : Append(q, e)[k] = q[k]
         /\ Append(q, e)[Len(q) + 1] = e
  OBVIOUS

LEMMA StartRunKeeps == ServiceInv /\ StartRun => ServiceInv'
  <1> SUFFICES ASSUME ServiceInv, StartRun PROVE ServiceInv'
    OBVIOUS
  <1> DEFINE new == Len(runs) + 1
  <1>1. /\ runs \in Seq(Run) /\ Len(runs) \in Nat /\ entering = 0 /\ entering' = new
        /\ UNCHANGED <<words, version, edits, settled, pending, job, unserved>>
        /\ runs' = Append(runs, NewRun)
        /\ \A r \in 1..Len(runs) : runs[r].status \notin Active
    BY DEF ServiceInv, ServiceType, StartRun, MayCreate
  <1>2. /\ NewRun \in Run /\ NewRun.source = version /\ NewRun.base = words
        /\ NewRun.status \in Active
    BY DEF ServiceInv, ServiceType, NewRun, Run, NoAdvice
  <1>3. /\ runs' \in Seq(Run) /\ Len(runs') = new
        /\ \A r \in 1..Len(runs) : runs'[r] = runs[r]
        /\ runs'[new] = NewRun
    BY <1>1, <1>2, QueueBack
  <1>4. ServiceType'
    BY <1>1, <1>3 DEF ServiceInv, ServiceType
  <1>5. \A r \in 1..new : r = new \/ r \in 1..Len(runs)
    BY <1>1
  <1>6. SourceIsKept'
    <2> SUFFICES ASSUME NEW r \in 1..new
                 PROVE  /\ runs'[r].source <= version
                        /\ runs'[r].source = version => runs'[r].base = words
      BY <1>1, <1>3 DEF SourceIsKept
    <2>1. CASE r = new
      BY <1>2, <1>3, <2>1 DEF ServiceInv, ServiceType
    <2>2. CASE r \in 1..Len(runs)
      BY <1>3, <2>2 DEF ServiceInv, SourceIsKept
    <2> QED
      BY <1>5, <2>1, <2>2
  <1>7. job.run = 0 /\ unserved = {}
    <2>1. \A r \in Elsewhere : r = 0
      BY <1>1 DEF ServiceInv, QueueIsSound
    <2> QED
      BY <2>1 DEF ServiceInv, QueueIsSound, Elsewhere
  <1>8. Elsewhere' = {new, 0}
    BY <1>1, <1>7 DEF Elsewhere
  <1>9. /\ new \in 1..new /\ new \notin 1..Len(runs) /\ 1..Len(runs) \subseteq 1..new /\ new # 0
    BY <1>1
  <1>10. \A k \in 1..Len(pending) : pending[k] \in 1..new /\ pending[k] \notin Elsewhere'
    <2>1. \A k \in 1..Len(pending) : pending[k] \in 1..Len(runs)
      BY DEF ServiceInv, QueueIsSound
    <2> QED
      BY <1>8, <1>9, <2>1
  <1>11. \A r \in 1..new : runs'[r].status \in Active => r \in Elsewhere'
    BY <1>1, <1>3, <1>5, <1>8
  <1>12. \A j, k \in 1..Len(pending) : pending[j] = pending[k] => j = k
    BY DEF ServiceInv, QueueIsSound
  <1> HIDE DEF new
  <1>13. QueueIsSound'
    BY <1>1, <1>2, <1>3, <1>7, <1>8, <1>9, <1>10, <1>11, <1>12 DEF QueueIsSound
  <1> QED
    BY <1>4, <1>6, <1>13 DEF ServiceInv

LEMMA EnqueueRunKeeps == ServiceInv /\ EnqueueRun => ServiceInv'
  <1> SUFFICES ASSUME ServiceInv, EnqueueRun PROVE ServiceInv'
    OBVIOUS
  <1> DEFINE new == entering
  <1>1. /\ pending \in Seq(Nat) /\ new \in Nat /\ new # 0 /\ entering' = 0
        /\ UNCHANGED <<words, version, edits, settled, runs, job, unserved>>
        /\ pending' = Append(pending, new)
    BY DEF ServiceInv, ServiceType, EnqueueRun
  <1>2. new \in Elsewhere /\ Elsewhere' = {0, job.run} \cup unserved
    BY <1>1 DEF Elsewhere
  <1>3. /\ new \in 1..Len(runs) /\ new \notin {job.run} \cup unserved
        /\ \A k \in 1..Len(pending) : pending[k] # new
    BY <1>1, <1>2 DEF ServiceInv, QueueIsSound
  <1>4. /\ pending' \in Seq(Nat) /\ Len(pending') = Len(pending) + 1 /\ Len(pending) \in Nat
        /\ \A k \in 1..Len(pending) : pending'[k] = pending[k]
        /\ pending'[Len(pending) + 1] = new
    BY <1>1, QueueBack
  <1>5. ServiceType' /\ SourceIsKept'
    BY <1>1, <1>4 DEF ServiceInv, ServiceType, SourceIsKept
  <1>6. Elsewhere' \subseteq Elsewhere \cup {0} /\ new \notin Elsewhere'
    BY <1>1, <1>2, <1>3 DEF Elsewhere
  <1> HIDE DEF new
  <1>7. \A k \in 1..Len(pending') : k \in 1..Len(pending) \/ k = Len(pending) + 1
    BY <1>4
  <1>8. \A k \in 1..Len(pending') : pending'[k] \in 1..Len(runs) /\ pending'[k] \notin Elsewhere'
    <2>1. \A k \in 1..Len(pending) : pending[k] \in 1..Len(runs) /\ pending[k] \notin Elsewhere'
      BY <1>6 DEF ServiceInv, QueueIsSound
    <2> QED
      BY <1>3, <1>4, <1>6, <1>7, <2>1
  <1>9. \A j, k \in 1..Len(pending') : pending'[j] = pending'[k] => j = k
    <2>1. \A j, k \in 1..Len(pending) : pending[j] = pending[k] => j = k
      BY DEF ServiceInv, QueueIsSound
    <2> QED
      BY <1>3, <1>4, <1>7, <2>1
  <1>10. ASSUME NEW r \in 1..Len(runs), runs[r].status \in Active
         PROVE  r \in Elsewhere' \/ InQueue(r)'
    <2>1. CASE r = new
      BY <1>4, <2>1 DEF InQueue
    <2>2. CASE r \in Elsewhere /\ r # new
      BY <1>2, <2>2 DEF Elsewhere, new
    <2>3. CASE InQueue(r)
      <3>1. PICK k \in 1..Len(pending) : pending[k] = r
        BY <2>3 DEF InQueue
      <3>2. k \in 1..Len(pending') /\ pending'[k] = r
        BY <1>4, <3>1
      <3> QED
        BY <3>2 DEF InQueue
    <2> QED
      BY <1>10, <2>1, <2>2, <2>3 DEF ServiceInv, QueueIsSound
  <1>11. \A r \in Elsewhere' : r # 0 => r \in 1..Len(runs) /\ runs[r].status \in Active
    BY <1>6 DEF ServiceInv, QueueIsSound
  <1>12. 0 \notin unserved /\ job.run \notin unserved
    BY DEF ServiceInv, QueueIsSound
  <1>13. QueueIsSound'
    BY <1>1, <1>8, <1>9, <1>10, <1>11, <1>12 DEF QueueIsSound
  <1> QED
    BY <1>5, <1>13 DEF ServiceInv

LEMMA EnqueueFailsKeeps == ServiceInv /\ EnqueueFails => ServiceInv'
  <1> SUFFICES ASSUME ServiceInv, EnqueueFails PROVE ServiceInv'
    OBVIOUS
  <1>1. /\ entering # 0 /\ entering' = 0 /\ unserved' = unserved \cup {entering}
        /\ UNCHANGED <<words, version, edits, settled, runs, pending, job>>
    BY DEF EnqueueFails
  <1>2. ServiceType' /\ SourceIsKept'
    BY <1>1 DEF ServiceInv, ServiceType, SourceIsKept
  <1>3. Elsewhere' = Elsewhere \cup {0}
    BY <1>1 DEF Elsewhere
  <1>4. \A k \in 1..Len(pending) : pending[k] \in 1..Len(runs) /\ pending[k] \notin Elsewhere'
    BY <1>3 DEF ServiceInv, QueueIsSound
  <1>5. 0 \notin unserved' /\ job.run \notin unserved'
    BY <1>1 DEF ServiceInv, QueueIsSound
  <1>6. \A r : InQueue(r)' <=> InQueue(r)
    BY <1>1 DEF InQueue
  <1>7. QueueIsSound'
    BY <1>1, <1>3, <1>4, <1>5, <1>6 DEF ServiceInv, QueueIsSound
  <1> QED
    BY <1>2, <1>7 DEF ServiceInv

(* The suggestions of a run that may be applied are put into the transcript   *)
(* the run read.                                                              *)
LEMMA ApplyFits ==
  ASSUME ServiceInv, NEW r, NEW ids, Applicable(r, ids), Apply(r, ids)
  PROVE  /\ r \in 1..Len(runs) /\ ids \in SUBSET (1..Segments)
         /\ runs[r].source = version /\ runs[r].base = words
         /\ runs' \in Seq(Run) /\ Len(runs') = Len(runs)
         /\ \A q \in 1..Len(runs) : q # r => runs'[q] = runs[q]
         /\ runs'[r].status = "applied" /\ runs'[r].source = version
         /\ runs'[r].advice \in [1..Segments -> Resolutions]
         /\ \A s \in 1..Segments : runs'[r].advice[s] = "applied" <=> s \in ids
  <1> DEFINE a == Resolved(r, ids)
             w == runs[r]
             n == [w EXCEPT !.status = "applied", !.advice = a]
  <1>1. /\ runs \in Seq(Run) /\ r \in 1..Len(runs) /\ ids \in SUBSET (1..Segments)
        /\ w.source = version
    BY DEF ServiceInv, ServiceType, Applicable, IsStale
  <1>2. w.base = words
    BY <1>1 DEF ServiceInv, SourceIsKept
  <1>3. /\ a \in [1..Segments -> Resolutions]
        /\ \A s \in 1..Segments : a[s] = "applied" <=> s \in ids
    BY DEF Resolved
  <1>4. runs' = [runs EXCEPT ![r] = n]
    BY DEF Apply
  <1>5. /\ n \in Run /\ n.status = "applied" /\ n.advice = a
        /\ n.source = w.source /\ n.base = w.base
    <2>1. w \in Run
      BY <1>1
    <2> HIDE DEF a, w
    <2> QED
      BY <1>3, <2>1 DEF Run
  <1> HIDE DEF a, n
  <1>6. /\ runs' \in Seq(Run) /\ Len(runs') = Len(runs)
        /\ \A q \in 1..Len(runs) : q # r => runs'[q] = runs[q]
        /\ runs'[r] = n
    BY <1>1, <1>4, <1>5, PutRun
  <1> QED
    BY <1>1, <1>2, <1>3, <1>5, <1>6

LEMMA ApplyKeeps ==
  ASSUME ServiceInv, NEW r, NEW ids, Applicable(r, ids), Apply(r, ids), edits' \in Nat,
         UNCHANGED <<settled, queueVars>>
  PROVE  ServiceInv'
  <1>1. /\ r \in 1..Len(runs) /\ ids \in SUBSET (1..Segments)
        /\ runs' \in Seq(Run) /\ Len(runs') = Len(runs)
        /\ \A q \in 1..Len(runs) : q # r => runs'[q] = runs[q]
        /\ runs'[r].status = "applied" /\ runs'[r].source = version
    BY ApplyFits
  <1>2. /\ runs \in Seq(Run) /\ version \in Nat /\ version' = version + 1
        /\ words \in Texts /\ runs[r].status = "completed"
    BY DEF ServiceInv, ServiceType, Apply, Applicable
  <1>3. words' \in Texts
    <2>1. words' = [s \in 1..Segments |-> IF s \in ids THEN Suggested(r) ELSE words[s]]
      BY DEF Apply
    <2>2. Suggested(r) \in Text
      <3>1. r \in Nat
        BY <1>1
      <3> QED
        BY <3>1, TextTypes
    <2>3. \A s \in 1..Segments : words[s] \in Text
      BY <1>2 DEF Texts
    <2> QED
      BY <2>1, <2>2, <2>3, Zenon DEF Texts
  <1>4. ServiceType'
    BY <1>1, <1>2, <1>3 DEF ServiceInv, ServiceType, queueVars
  <1>5. SourceIsKept'
    <2> SUFFICES ASSUME NEW q \in 1..Len(runs)
                 PROVE  runs'[q].source <= version + 1 /\ runs'[q].source # version + 1
      BY <1>1, <1>2 DEF SourceIsKept
    <2>1. CASE q = r
      BY <1>1, <1>2, <2>1
    <2>2. CASE q # r
      <3>1. runs[q].source \in Nat
        BY <1>2, RunTypes
      <3>2. runs[q].source <= version
        BY DEF ServiceInv, SourceIsKept
      <3> QED
        BY <1>1, <1>2, <2>2, <3>1, <3>2
    <2> QED
      BY <2>1, <2>2
  <1>6. QueueIsSound'
    <2>1. \A q \in 1..Len(runs) : runs'[q].status \in Active <=> runs[q].status \in Active
      BY <1>1, <1>2
    <2>2. Elsewhere' = Elsewhere /\ \A q : InQueue(q)' <=> InQueue(q)
      BY DEF Elsewhere, InQueue, queueVars
    <2> QED
      BY <1>1, <2>1, <2>2 DEF ServiceInv, QueueIsSound, queueVars
  <1> QED
    BY <1>4, <1>5, <1>6 DEF ServiceInv

(* The invariant of the service, whatever the panel and other windows do.     *)
LEMMA StepKeeps == ServiceInv /\ [ProofNext]_proofVars => ServiceInv'
  <1> SUFFICES ASSUME ServiceInv, [ProofNext]_proofVars PROVE ServiceInv'
    OBVIOUS
  <1>1. CASE OthersEdit
    BY <1>1, OthersEditKeeps
  <1>2. CASE RetranscriptionStarts
    BY <1>2, RetranscriptionStartsKeeps
  <1>3. CASE RetranscriptionEnds
    BY <1>3, RetranscriptionEndsKeeps
  <1>4. CASE TakeRun
    BY <1>4, TakeRunKeeps
  <1>5. CASE AnswerBatch
    BY <1>5, AnswerBatchKeeps
  <1>6. CASE FinishRun
    BY <1>6, FinishRunKeeps
  <1>7. CASE FailRun
    BY <1>7, FailRunKeeps
  <1>8. CASE Restart
    BY <1>8, RestartKeeps
  <1>9. CASE StartRun
    BY <1>9, StartRunKeeps
  <1>10. CASE ApplySucceeds
    <2>1. edits' \in Nat
      BY <1>10 DEF ApplySucceeds, ServiceInv, ServiceType
    <2> QED
      BY <1>10, <2>1, ApplyKeeps DEF ApplySucceeds
  <1>11. CASE OthersApply
    <2>1. edits' \in Nat
      BY <1>11 DEF OthersApply, ServiceInv, ServiceType
    <2>2. PICK r \in 1..Len(runs), ids \in SUBSET (1..Segments) :
            Applicable(r, ids) /\ Apply(r, ids)
      BY <1>11 DEF OthersApply
    <2>3. UNCHANGED <<settled, queueVars>>
      BY <1>11 DEF OthersApply
    <2> QED
      BY <2>1, <2>2, <2>3, ApplyKeeps
  <1>12. CASE RunsArrive
    BY <1>12, PanelKeeps DEF RunsArrive
  <1>13. CASE \E r \in 1..MaxRuns : ChooseRun(r)
    BY <1>13, PanelKeeps DEF ChooseRun
  <1>14. CASE \E s \in 1..Segments : ToggleSuggestion(s)
    BY <1>14, PanelKeeps DEF ToggleSuggestion
  <1>15. CASE ToggleAll
    BY <1>15, PanelKeeps DEF ToggleAll
  <1>16. CASE OpenConfirm
    BY <1>16, PanelKeeps DEF OpenConfirm
  <1>17. CASE CloseConfirm
    BY <1>17, PanelKeeps DEF CloseConfirm
  <1>18. CASE SendApply
    BY <1>18, PanelKeeps DEF SendApply
  <1>19. CASE ApplyFails
    BY <1>19, PanelKeeps DEF ApplyFails
  <1>20. CASE UNCHANGED proofVars
    BY <1>20, PanelKeeps DEF proofVars
  <1>21. CASE BeginRun
    BY <1>21, BeginRunKeeps
  <1>22. CASE EnqueueRun
    BY <1>22, EnqueueRunKeeps
  <1>23. CASE EnqueueFails
    BY <1>23, EnqueueFailsKeeps
  <1> QED
    BY <1>1, <1>2, <1>3, <1>4, <1>5, <1>6, <1>7, <1>8, <1>9, <1>10, <1>11, <1>12, <1>13,
       <1>14, <1>15, <1>16, <1>17, <1>18, <1>19, <1>20, <1>21, <1>22, <1>23 DEF ProofNext

LEMMA InvHolds == ProofSpec => []ServiceInv
  BY InitSound, StepKeeps, PTL DEF ProofSpec

(* Every active run is in one place: with the request that creates it, in the *)
(* queue once, with the thread, or, where enqueue_run or the last write of a  *)
(* failure failed, among those that wait for the next start.                  *)
THEOREM RunsHaveWorkers == ProofSpec => []ActiveRunHasWorker
  <1>1. ServiceInv => ActiveRunHasWorker
    <2> SUFFICES ASSUME ServiceInv PROVE ActiveRunHasWorker
      OBVIOUS
    <2>1. ASSUME NEW r \in 1..Len(runs), runs[r].status \in Active
          PROVE  InQueue(r) # (r \in {entering, job.run} \cup unserved)
      <3>1. (r \in Elsewhere \/ InQueue(r)) /\ ~(r \in Elsewhere /\ InQueue(r))
        BY <2>1 DEF ServiceInv, QueueIsSound, InQueue
      <3>2. InQueue(r) \in BOOLEAN /\ Elsewhere = {entering, job.run} \cup unserved
        BY DEF InQueue, Elsewhere
      <3> QED
        BY <3>1, <3>2, Zenon
    <2> QED
      BY <2>1 DEF ServiceInv, QueueIsSound, ActiveRunHasWorker
  <1> QED
    BY <1>1, InvHolds, PTL

(* A step that applies a run makes of the transcript what the run read with   *)
(* the chosen suggestions put in, for any number of segments, runs, other     *)
(* writers and restarts.                                                      *)
LEMMA ApplyStep ==
  ASSUME ServiceInv, NEW q, NEW ids, Applicable(q, ids), Apply(q, ids),
         NEW r \in 1..Len(runs), runs[r].status # "applied", runs'[r].status = "applied"
  PROVE  words' = [s \in 1..Segments |-> IF runs'[r].advice[s] = "applied" THEN Suggested(r)
                                          ELSE runs[r].base[s]]
  <1>1. /\ runs[q].base = words /\ \A p \in 1..Len(runs) : p # q => runs'[p] = runs[p]
        /\ \A s \in 1..Segments : runs'[q].advice[s] = "applied" <=> s \in ids
    BY ApplyFits
  <1>2. r = q
    BY <1>1
  <1>3. words' = [s \in 1..Segments |-> IF s \in ids THEN Suggested(q) ELSE words[s]]
    BY DEF Apply
  <1> QED
    BY <1>1, <1>2, <1>3, Zenon

(* No other step makes a run an applied one.                                  *)
LEMMA OthersApplyNothing ==
  ASSUME ServiceInv, BeginRun \/ FinishRun \/ FailRun \/ Restart \/ StartRun,
         NEW r \in 1..Len(runs), runs[r].status # "applied"
  PROVE  runs'[r].status # "applied"
  <1>1. runs \in Seq(Run) /\ r \in 1..Len(runs) /\ runs[r] \in Run
    BY DEF ServiceInv, ServiceType
  <1>2. job.run # 0 => job.run \in 1..Len(runs)
    BY DEF ServiceInv, QueueIsSound, Elsewhere
  <1>3. CASE BeginRun
    <2> DEFINE h == job.run
               n == [runs[h] EXCEPT !.status = "running"]
    <2>1. runs' = [runs EXCEPT ![h] = n] /\ r \in DOMAIN runs
      BY <1>1, <1>3 DEF BeginRun
    <2>2. h = r => n.status = "running"
      BY <1>1 DEF Run
    <2> HIDE DEF h, n
    <2>3. runs'[r] = runs[r] \/ (h = r /\ runs'[r] = n)
      BY <2>1, Zenon
    <2> QED
      BY <2>2, <2>3
  <1>4. CASE FinishRun
    <2> DEFINE n == [runs[job.run] EXCEPT !.status = "completed", !.advice =
                       [s \in 1..Segments |-> IF s \in job.collected THEN "pending" ELSE "none"]]
    <2>1. runs' = [runs EXCEPT ![job.run] = n] /\ r \in DOMAIN runs
      BY <1>1, <1>4 DEF FinishRun
    <2>2. job.run = r => n.status = "completed"
      BY <1>1 DEF Run
    <2> HIDE DEF n
    <2>3. runs'[r] = runs[r] \/ (job.run = r /\ runs'[r] = n)
      BY <2>1, Zenon
    <2> QED
      BY <2>2, <2>3
  <1>5. CASE FailRun
    <2> DEFINE n == [runs[job.run] EXCEPT !.status = "failed"]
    <2>1. (runs' = [runs EXCEPT ![job.run] = n] \/ runs' = runs) /\ r \in DOMAIN runs
      BY <1>1, <1>5 DEF FailRun
    <2>2. job.run = r => n.status = "failed"
      BY <1>1 DEF Run
    <2> HIDE DEF n
    <2>3. runs'[r] = runs[r] \/ (job.run = r /\ runs'[r] = n)
      BY <2>1, Zenon
    <2> QED
      BY <2>2, <2>3
  <1>6. CASE Restart
    BY <1>1, <1>6 DEF Restart, Run
  <1>7. CASE StartRun
    <2>1. runs' = Append(runs, NewRun)
      BY <1>7 DEF StartRun
    <2>2. runs'[r] = runs[r]
      BY <1>1, <2>1
    <2> QED
      BY <2>2
  <1> QED
    BY <1>3, <1>4, <1>5, <1>6, <1>7

LEMMA StepIsReviewed ==
  ASSUME ServiceInv, ProofNext, NEW r \in 1..Len(runs),
         runs[r].status # "applied", runs'[r].status = "applied"
  PROVE  words' = [s \in 1..Segments |-> IF runs'[r].advice[s] = "applied" THEN Suggested(r)
                                          ELSE runs[r].base[s]]
  <1>1. ~(BeginRun \/ FinishRun \/ FailRun \/ Restart \/ StartRun)
    BY OthersApplyNothing
  <1>2. runs' # runs
    OBVIOUS
  <1>3. CASE ApplySucceeds
    BY <1>3, ApplyStep DEF ApplySucceeds
  <1>4. CASE OthersApply
    BY <1>4, ApplyStep DEF OthersApply
  <1> QED
    BY <1>1, <1>2, <1>3, <1>4 DEF ProofNext, OthersEdit, RetranscriptionStarts,
       RetranscriptionEnds, TakeRun, EnqueueRun, EnqueueFails, AnswerBatch, RunsArrive, ChooseRun, ToggleSuggestion, ToggleAll,
       OpenConfirm, CloseConfirm, SendApply, ApplyFails, serviceVars

(* What a run makes of the transcript when it is applied is what the run read *)
(* with the chosen suggestions put in, for any number of segments and runs.   *)
THEOREM ReviewedIsApplied == ProofSpec => AppliedIsReviewed
  <1>1. ServiceInv /\ [ProofNext]_proofVars =>
          [\A r \in 1..Len(runs) : runs[r].status # "applied" /\ runs'[r].status = "applied" =>
             words' = [s \in 1..Segments |-> IF runs'[r].advice[s] = "applied" THEN Suggested(r)
                                              ELSE runs[r].base[s]]]_proofVars
    BY StepIsReviewed
  <1> QED
    BY <1>1, InvHolds, PTL DEF ProofSpec, AppliedIsReviewed

(* Proofreading: a version is made by another writer, at the end of a         *)
(* retranscription, or by applying a run, which is applied once.              *)
AppliedRuns == {r \in 1..Len(runs) : runs[r].status = "applied"}
Unfinished == IF settled THEN 0 ELSE 1

VersionIsCounted == version <= 1 + edits - Unfinished + Cardinality(AppliedRuns)
MishapsBounded == deaths \in Nat /\ edits + deaths <= MaxMishaps
RunsBounded ==
  /\ Len(runs) <= MaxRuns /\ version >= 1
  /\ \A r \in 1..Len(runs) : runs[r].source >= 1
  /\ job.next \in 0..(Segments + 1)
PanelTyped ==
  /\ Len(shownRuns) \in 0..Len(runs) /\ chosenRun \in 0..MaxRuns /\ checked \subseteq 1..Segments
  /\ confirming \in BOOLEAN
  /\ applying.run \in 0..Len(runs) /\ applying.ids \subseteq 1..Segments

PageInv == VersionIsCounted /\ MishapsBounded /\ RunsBounded /\ PanelTyped

LEMMA PageInvInit == ProofInit => PageInv
  <1> SUFFICES ASSUME ProofInit PROVE PageInv
    OBVIOUS
  <1>1. runs = <<>> /\ version = 1 /\ edits = 0 /\ settled = TRUE /\ deaths = 0 /\ job = NoJob
    BY DEF ProofInit
  <1>2. VersionIsCounted
    <2>1. AppliedRuns = {} /\ Unfinished = 0
      BY <1>1 DEF AppliedRuns, Unfinished
    <2> QED
      BY <1>1, <2>1, FS_EmptySet DEF VersionIsCounted
  <1>3. MishapsBounded /\ RunsBounded
    BY <1>1 DEF MishapsBounded, RunsBounded, NoJob
  <1>4. PanelTyped
    <2>1. shownRuns = <<>> /\ chosenRun = 0 /\ checked = {} /\ applying = NoApply /\ confirming = FALSE
      BY DEF ProofInit
    <2>2. Len(shownRuns) = 0 /\ Len(runs) = 0 /\ applying.run = 0 /\ applying.ids = {}
      BY <1>1, <2>1 DEF NoApply
    <2>3. confirming \in BOOLEAN
      BY <2>1
    <2> QED
      BY <2>1, <2>2, <2>3 DEF PanelTyped
  <1> QED
    BY <1>2, <1>3, <1>4 DEF PageInv

LEMMA NumbersCounted == ASSUME NEW n \in Nat PROVE IsFiniteSet(1..n) /\ Cardinality(1..n) = n
  <1>1. 1 \in Int /\ n \in Int
    OBVIOUS
  <1>2. IsFiniteSet(1..n) /\ Cardinality(1..n) = IF 1 > n THEN 0 ELSE n - 1 + 1
    BY <1>1, FS_Interval, Zenon
  <1> QED
    BY <1>2

LEMMA AppliedCount ==
  ASSUME ServiceInv
  PROVE  IsFiniteSet(AppliedRuns) /\ Cardinality(AppliedRuns) \in 0..Len(runs)
  <1>1. Len(runs) \in Nat
    BY DEF ServiceInv, ServiceType
  <1>2. IsFiniteSet(1..Len(runs)) /\ Cardinality(1..Len(runs)) = Len(runs)
    BY <1>1, NumbersCounted
  <1>3. AppliedRuns \subseteq 1..Len(runs)
    BY DEF AppliedRuns
  <1>4. IsFiniteSet(AppliedRuns) /\ Cardinality(AppliedRuns) <= Len(runs)
    BY <1>2, <1>3, FS_Subset
  <1>5. Cardinality(AppliedRuns) \in Nat
    BY <1>4, FS_CardinalityType
  <1> QED
    BY <1>1, <1>4, <1>5

(* A run that is applied is counted from then on.                             *)
LEMMA ApplyCounts ==
  ASSUME ServiceInv, NEW r, NEW ids, Applicable(r, ids), Apply(r, ids)
  PROVE  Cardinality(AppliedRuns') = Cardinality(AppliedRuns) + 1
  <1>1. /\ r \in 1..Len(runs) /\ Len(runs') = Len(runs) /\ runs'[r].status = "applied"
        /\ \A q \in 1..Len(runs) : q # r => runs'[q] = runs[q]
    BY ApplyFits
  <1>2. runs[r].status # "applied"
    BY DEF Applicable
  <1>3. AppliedRuns' = AppliedRuns \cup {r} /\ r \notin AppliedRuns
    BY <1>1, <1>2 DEF AppliedRuns
  <1> QED
    BY <1>3, AppliedCount, FS_AddElement

(* What the window does to the runs it shows.                                 *)
LEMMA ShownIsBounded == ASSUME PanelTyped PROVE ShownRun \in 0..Len(shownRuns)
  BY DEF PanelTyped, ShownRun

LEMMA ShowKeepsTyped ==
  ASSUME PageInv, NEW list, NEW choice \in 0..MaxRuns, Show(list, choice),
         Len(list) \in 0..Len(runs'), Len(runs) \in Nat, Len(runs') \in Nat, Len(runs) <= Len(runs'),
         applying' = applying
  PROVE  PanelTyped'
  <1>1. shownRuns' = list /\ chosenRun' = choice /\ checked' \in {{}, checked}
    BY DEF Show
  <1>2. confirming' \in BOOLEAN
    BY DEF Show
  <1>3. applying.run \in 0..Len(runs') /\ applying.ids \subseteq 1..Segments
    BY DEF PageInv, PanelTyped
  <1>4. checked' \subseteq 1..Segments
    BY <1>1 DEF PageInv, PanelTyped
  <1> QED
    BY <1>1, <1>2, <1>3, <1>4, Zenon DEF PanelTyped

(* Steps of the panel alone.                                                  *)
LEMMA PanelStays ==
  ASSUME ServiceInv, PageInv, UNCHANGED serviceVars, PanelTyped' PROVE PageInv'
  BY DEF PageInv, VersionIsCounted, MishapsBounded, RunsBounded, AppliedRuns, Unfinished,
         serviceVars, queueVars

(* Steps of others that make a version, and of the worker.                    *)
LEMMA OthersStay ==
  ASSUME ServiceInv, PageInv, UNCHANGED <<runs, job, deaths>>, UNCHANGED panelVars,
         \/ OthersEdit \/ RetranscriptionStarts \/ RetranscriptionEnds
  PROVE  PageInv'
  <1>1. AppliedRuns' = AppliedRuns /\ Cardinality(AppliedRuns) \in Nat /\ Len(runs) \in Nat
    BY AppliedCount DEF AppliedRuns, ServiceInv, ServiceType
  <1>2. version \in Nat /\ edits \in Nat /\ deaths \in Nat
    BY DEF ServiceInv, ServiceType, PageInv, MishapsBounded
  <1>3. VersionIsCounted'
    BY <1>1, <1>2 DEF PageInv, VersionIsCounted, Unfinished, OthersEdit, RetranscriptionStarts,
                      RetranscriptionEnds
  <1>4. MishapsBounded'
    BY <1>2 DEF PageInv, MishapsBounded, OthersEdit, RetranscriptionStarts, RetranscriptionEnds
  <1>5. RunsBounded'
    BY <1>1, <1>2 DEF PageInv, RunsBounded, OthersEdit, RetranscriptionStarts, RetranscriptionEnds
  <1>6. PanelTyped'
    BY DEF PageInv, PanelTyped, panelVars
  <1> QED
    BY <1>3, <1>4, <1>5, <1>6 DEF PageInv

(* Steps of the worker change the status of runs that are not applied.        *)
LEMMA WorkerStays ==
  ASSUME ServiceInv, PageInv, UNCHANGED <<version, edits, settled>>, UNCHANGED panelVars,
         Len(runs') = Len(runs), job'.next \in 0..(Segments + 1),
         deaths' \in Nat, edits + deaths' <= MaxMishaps,
         \A r \in 1..Len(runs) : runs'[r].source = runs[r].source,
         \A r \in 1..Len(runs) : runs'[r].status = "applied" <=> runs[r].status = "applied"
  PROVE  PageInv'
  <1>1. AppliedRuns' = AppliedRuns /\ Len(runs) \in Nat
    BY DEF AppliedRuns, ServiceInv, ServiceType
  <1>2. VersionIsCounted' /\ MishapsBounded'
    BY <1>1 DEF PageInv, VersionIsCounted, MishapsBounded, Unfinished
  <1>3. RunsBounded'
    BY <1>1 DEF PageInv, RunsBounded
  <1>4. PanelTyped'
    BY <1>1 DEF PageInv, PanelTyped, panelVars
  <1> QED
    BY <1>2, <1>3, <1>4 DEF PageInv

LEMMA WorkStays ==
  ASSUME ServiceInv, PageInv,
         TakeRun \/ BeginRun \/ AnswerBatch \/ FinishRun \/ FailRun \/ EnqueueFails
  PROVE  PageInv'
  <1>1. /\ runs \in Seq(Run) /\ Len(runs) \in Nat
        /\ job \in [run : Nat, next : Nat, collected : SUBSET Nat]
        /\ job.run # 0 => job.run \in 1..Len(runs) /\ runs[job.run].status \in Active
    BY DEF ServiceInv, ServiceType, QueueIsSound, Elsewhere
  <1>2. UNCHANGED <<version, edits, settled, deaths>> /\ UNCHANGED panelVars
    BY DEF TakeRun, BeginRun, AnswerBatch, FinishRun, FailRun, EnqueueFails
  <1>3. deaths \in Nat /\ edits + deaths <= MaxMishaps /\ job.next \in 0..(Segments + 1)
        /\ NoJob.next \in 0..(Segments + 1)
    BY DEF PageInv, MishapsBounded, RunsBounded, NoJob
  <1>4. CASE UNCHANGED runs /\ job'.next \in 0..(Segments + 1)
    BY <1>2, <1>3, <1>4, WorkerStays
  <1>5. ASSUME NEW r \in 1..Len(runs), runs[r].status \in Active, NEW n,
               n.source = runs[r].source, n.status # "applied", runs' = [runs EXCEPT ![r] = n],
               job'.next \in 0..(Segments + 1)
        PROVE  PageInv'
    <2>1. /\ Len(runs') = Len(runs)
          /\ \A q \in 1..Len(runs) : runs'[q] = IF q = r THEN n ELSE runs[q]
      BY <1>1, <1>5
    <2>2. \A q \in 1..Len(runs) : /\ runs'[q].source = runs[q].source
                                  /\ runs'[q].status = "applied" <=> runs[q].status = "applied"
      BY <1>5, <2>1
    <2>. QED
      BY <1>2, <1>3, <1>5, <2>1, <2>2, WorkerStays
  <1>6. CASE TakeRun
    <2>1. job'.next = 0 /\ runs' = runs
      BY <1>6 DEF TakeRun, NoJob
    <2>. QED
      BY <1>4, <2>1
  <1>10. CASE EnqueueFails
    BY <1>3, <1>4, <1>10 DEF EnqueueFails
  <1>11. CASE BeginRun
    <2>. DEFINE n == [runs[job.run] EXCEPT !.status = "running"]
    <2>1. /\ runs' = [runs EXCEPT ![job.run] = n] /\ job'.next = 1
          /\ job.run \in 1..Len(runs) /\ runs[job.run].status \in Active
      BY <1>1, <1>11 DEF BeginRun
    <2>2. n.source = runs[job.run].source /\ n.status # "applied"
      <3>1. runs[job.run] \in Run
        BY <1>1, <2>1
      <3>. QED
        BY <3>1 DEF Run
    <2>3. job'.next \in 0..(Segments + 1)
      BY <2>1
    <2>. HIDE DEF n
    <2>. QED
      BY <1>5, <2>1, <2>2, <2>3
  <1>7. CASE AnswerBatch
    <2>1. runs' = runs /\ job.next <= Segments
      BY <1>7 DEF AnswerBatch
    <2>2. PICK some : job' = [job EXCEPT !.next = @ + 1, !.collected = @ \cup some]
      BY <1>7 DEF AnswerBatch
    <2>3. job'.next = job.next + 1
      BY <1>1, <2>2
    <2>. QED
      BY <1>3, <1>4, <2>1, <2>3
  <1>8. CASE FinishRun
    <2>. DEFINE a == [s \in 1..Segments |-> IF s \in job.collected THEN "pending" ELSE "none"]
                n == [runs[job.run] EXCEPT !.status = "completed", !.advice = a]
    <2>1. /\ runs' = [runs EXCEPT ![job.run] = n] /\ job' = NoJob
          /\ job.run \in 1..Len(runs) /\ runs[job.run].status \in Active
      BY <1>1, <1>8 DEF FinishRun
    <2>2. n.source = runs[job.run].source /\ n.status # "applied"
      <3>1. runs[job.run] \in Run
        BY <1>1, <2>1
      <3>. HIDE DEF a
      <3>. QED
        BY <3>1 DEF Run
    <2>. HIDE DEF n
    <2>. QED
      BY <1>3, <1>5, <2>1, <2>2
  <1>12. CASE FailRun /\ UNCHANGED runs
    BY <1>3, <1>4, <1>12 DEF FailRun
  <1>9. CASE FailRun /\ ~UNCHANGED runs
    <2>. DEFINE n == [runs[job.run] EXCEPT !.status = "failed"]
    <2>1. /\ runs' = [runs EXCEPT ![job.run] = n] /\ job' = NoJob
          /\ job.run \in 1..Len(runs) /\ runs[job.run].status \in Active
      BY <1>1, <1>9 DEF FailRun
    <2>2. n.source = runs[job.run].source /\ n.status # "applied"
      <3>1. runs[job.run] \in Run
        BY <1>1, <2>1
      <3>. QED
        BY <3>1 DEF Run
    <2>. HIDE DEF n
    <2>. QED
      BY <1>3, <1>5, <2>1, <2>2
  <1> QED
    BY <1>6, <1>7, <1>8, <1>9, <1>10, <1>11, <1>12

LEMMA RestartStays == ASSUME ServiceInv, PageInv, Restart PROVE PageInv'
  <1> DEFINE n(r) == IF runs[r].status \in Active THEN [runs[r] EXCEPT !.status = "interrupted"]
                                                  ELSE runs[r]
  <1>1. /\ runs \in Seq(Run) /\ Len(runs) \in Nat /\ job' = NoJob
        /\ runs' = [r \in 1..Len(runs) |-> n(r)]
        /\ edits \in Nat /\ deaths \in Nat /\ edits + deaths < MaxMishaps /\ deaths' = deaths + 1
        /\ UNCHANGED <<version, edits, settled>> /\ UNCHANGED panelVars
    BY DEF ServiceInv, ServiceType, PageInv, MishapsBounded, Restart
  <1>2. ASSUME NEW r \in 1..Len(runs)
        PROVE  /\ n(r).source = runs[r].source
               /\ n(r).status = "applied" <=> runs[r].status = "applied"
    <2>1. runs[r] \in Run
      BY <1>1
    <2> QED
      BY <2>1 DEF Run
  <1> HIDE DEF n
  <1>3. Len(runs') = Len(runs) /\ \A r \in 1..Len(runs) : runs'[r] = n(r)
    BY <1>1
  <1>4. job'.next \in 0..(Segments + 1)
    BY <1>1 DEF NoJob
  <1>5. /\ \A r \in 1..Len(runs) : runs'[r].source = runs[r].source
        /\ \A r \in 1..Len(runs) : runs'[r].status = "applied" <=> runs[r].status = "applied"
    BY <1>2, <1>3
  <1>6. deaths' \in Nat /\ edits + deaths' <= MaxMishaps
    BY <1>1
  <1> QED
    BY <1>1, <1>3, <1>4, <1>5, <1>6, WorkerStays

LEMMA StartStays == ASSUME ServiceInv, PageInv, StartRun PROVE PageInv'
  <1>1. /\ runs \in Seq(Run) /\ Len(runs) \in Nat /\ Len(runs) < MaxRuns
        /\ runs' = Append(runs, NewRun)
        /\ UNCHANGED <<version, edits, settled, job, deaths>> /\ UNCHANGED panelVars
    BY DEF ServiceInv, ServiceType, StartRun
  <1>2. /\ Len(runs') = Len(runs) + 1 /\ runs'[Len(runs) + 1] = NewRun
        /\ \A r \in 1..Len(runs) : runs'[r] = runs[r]
    BY <1>1
  <1>3. NewRun.status # "applied" /\ NewRun.source = version
    BY DEF NewRun
  <1>4. AppliedRuns' = AppliedRuns
    BY <1>1, <1>2, <1>3 DEF AppliedRuns
  <1>5. VersionIsCounted' /\ MishapsBounded'
    BY <1>1, <1>4 DEF PageInv, VersionIsCounted, MishapsBounded, Unfinished
  <1>6. RunsBounded'
    BY <1>1, <1>2, <1>3 DEF PageInv, RunsBounded
  <1>7. PanelTyped'
    BY <1>1, <1>2 DEF PageInv, PanelTyped, panelVars
  <1> QED
    BY <1>5, <1>6, <1>7 DEF PageInv

LEMMA EnqueueStays == ASSUME ServiceInv, PageInv, EnqueueRun PROVE PageInv'
  <1>1. /\ Len(runs) \in Nat /\ entering \in 1..Len(runs) /\ Show(shownRuns, entering)
        /\ UNCHANGED <<version, edits, settled, runs, job, deaths, applying>>
    BY DEF ServiceInv, ServiceType, QueueIsSound, Elsewhere, EnqueueRun
  <1>2. entering \in 0..MaxRuns /\ Len(shownRuns) \in 0..Len(runs)
    BY <1>1 DEF PageInv, PanelTyped, RunsBounded
  <1>3. PanelTyped'
    BY <1>1, <1>2, ShowKeepsTyped
  <1>4. VersionIsCounted' /\ MishapsBounded' /\ RunsBounded'
    BY <1>1 DEF PageInv, VersionIsCounted, MishapsBounded, RunsBounded, AppliedRuns, Unfinished
  <1> QED
    BY <1>3, <1>4 DEF PageInv

(* Somebody applies a run.                                                    *)
LEMMA ApplyStays ==
  ASSUME ServiceInv, PageInv, NEW r, NEW ids, Applicable(r, ids), Apply(r, ids),
         edits' \in Nat, edits <= edits', edits' + deaths <= MaxMishaps,
         UNCHANGED <<settled, job, deaths>>, PanelTyped'
  PROVE  PageInv'
  <1>1. /\ r \in 1..Len(runs) /\ Len(runs') = Len(runs) /\ runs'[r].source = version
        /\ \A q \in 1..Len(runs) : q # r => runs'[q] = runs[q]
    BY ApplyFits
  <1>2. version' = version + 1 /\ version \in Nat /\ edits \in Nat /\ Len(runs) \in Nat
    BY DEF Apply, ServiceInv, ServiceType
  <1>3. Cardinality(AppliedRuns') = Cardinality(AppliedRuns) + 1 /\ Cardinality(AppliedRuns) \in Nat
    BY ApplyCounts, AppliedCount
  <1>4. VersionIsCounted'
    BY <1>2, <1>3 DEF PageInv, VersionIsCounted, Unfinished
  <1>5. MishapsBounded'
    BY DEF PageInv, MishapsBounded
  <1>6. RunsBounded'
    BY <1>1, <1>2 DEF PageInv, RunsBounded
  <1> QED
    BY <1>4, <1>5, <1>6 DEF PageInv

(* What the user does, and the answers the panel gets.                        *)
LEMMA UserStays ==
  ASSUME ServiceInv, PageInv,
         \/ RunsArrive \/ ToggleAll \/ OpenConfirm \/ CloseConfirm \/ SendApply \/ ApplyFails
         \/ \E r \in 1..MaxRuns : ChooseRun(r)
         \/ \E s \in 1..Segments : ToggleSuggestion(s)
  PROVE  PageInv'
  <1>1. UNCHANGED serviceVars
    BY DEF RunsArrive, ToggleAll, OpenConfirm, CloseConfirm, SendApply, ApplyFails, ChooseRun,
           ToggleSuggestion
  <1>2. Len(runs) \in Nat /\ runs' = runs /\ chosenRun \in 0..MaxRuns /\ checked \subseteq 1..Segments
    BY <1>1 DEF serviceVars, ServiceInv, ServiceType, PageInv, PanelTyped
  <1>. SUFFICES PanelTyped'
    BY <1>1, PanelStays
  <1>3. CASE RunsArrive
    <2>1. Len(Rows) = Len(runs)
      BY <1>2 DEF Rows
    <2>2. Show(Rows, chosenRun) /\ applying' = applying
      BY <1>3 DEF RunsArrive
    <2>. QED
      BY <1>2, <2>1, <2>2, ShowKeepsTyped
  <1>4. ASSUME NEW r \in 1..MaxRuns, ChooseRun(r) PROVE PanelTyped'
    <2>1. Show(shownRuns, r) /\ applying' = applying /\ r \in 0..MaxRuns
      BY <1>4 DEF ChooseRun
    <2>2. Len(shownRuns) \in 0..Len(runs)
      BY DEF PageInv, PanelTyped
    <2>. QED
      BY <1>2, <2>1, <2>2, ShowKeepsTyped
  <1>5. ASSUME UNCHANGED <<shownRuns, chosenRun, applying>>, checked' \subseteq 1..Segments,
               confirming' \in BOOLEAN
        PROVE  PanelTyped'
    <2>1. Len(shownRuns) \in 0..Len(runs) /\ applying.run \in 0..Len(runs)
          /\ applying.ids \subseteq 1..Segments
      BY DEF PageInv, PanelTyped
    <2>. QED
      BY <1>2, <1>5, <2>1, Zenon DEF PanelTyped
  <1>6. confirming \in BOOLEAN
    BY DEF PageInv, PanelTyped
  <1>7. ASSUME NEW s \in 1..Segments, ToggleSuggestion(s) PROVE PanelTyped'
    BY <1>2, <1>5, <1>6, <1>7 DEF ToggleSuggestion
  <1>8. CASE ToggleAll
    BY <1>2, <1>5, <1>6, <1>8 DEF ToggleAll
  <1>9. CASE OpenConfirm \/ CloseConfirm
    <2>1. confirming' \in BOOLEAN
      BY <1>9 DEF OpenConfirm, CloseConfirm
    <2>. QED
      BY <1>2, <1>5, <1>9, <2>1 DEF OpenConfirm, CloseConfirm
  <1>10. ASSUME applying'.run \in 0..Len(runs), applying'.ids \subseteq 1..Segments,
                UNCHANGED <<shownRuns, chosenRun, checked>>, confirming' \in {FALSE, confirming}
         PROVE  PanelTyped'
    <2>1. Len(shownRuns) \in 0..Len(runs)
      BY DEF PageInv, PanelTyped
    <2>2. confirming' \in BOOLEAN
      BY <1>6, <1>10
    <2>. QED
      BY <1>2, <1>10, <2>1, <2>2, Zenon DEF PanelTyped
  <1>11. CASE SendApply
    <2>1. applying' = [run |-> ShownRun, ids |-> checked] /\ confirming' = FALSE
          /\ UNCHANGED <<shownRuns, chosenRun, checked>>
      BY <1>11 DEF SendApply
    <2>2. ShownRun \in 0..Len(runs)
      BY <1>2, ShownIsBounded DEF PageInv, PanelTyped
    <2>. QED
      BY <1>2, <1>10, <2>1, <2>2
  <1>12. CASE ApplyFails
    <2>1. applying'.run = 0 /\ applying'.ids = {}
      BY <1>12 DEF ApplyFails, NoApply
    <2>. QED
      BY <1>2, <1>10, <1>12, <2>1 DEF ApplyFails
  <1>. QED
    BY <1>3, <1>4, <1>7, <1>8, <1>9, <1>11, <1>12

LEMMA PageInvStep == ServiceInv /\ PageInv /\ [ProofNext]_proofVars => PageInv'
  <1> SUFFICES ASSUME ServiceInv, PageInv, [ProofNext]_proofVars PROVE PageInv'
    OBVIOUS
  <1>0. /\ edits \in Nat /\ deaths \in Nat /\ edits + deaths <= MaxMishaps /\ Len(runs) \in Nat
        /\ Len(shownRuns) \in 0..Len(runs) /\ chosenRun \in 0..MaxRuns
        /\ checked \subseteq 1..Segments /\ applying.run \in 0..Len(runs)
        /\ applying.ids \subseteq 1..Segments
    BY DEF ServiceInv, ServiceType, PageInv, MishapsBounded, PanelTyped
  <1>1. CASE OthersEdit \/ RetranscriptionStarts \/ RetranscriptionEnds
    BY <1>1, OthersStay DEF OthersEdit, RetranscriptionStarts, RetranscriptionEnds, queueVars
  <1>2. CASE TakeRun \/ BeginRun \/ AnswerBatch \/ FinishRun \/ FailRun \/ EnqueueFails
    BY <1>2, WorkStays
  <1>9. CASE EnqueueRun
    BY <1>9, EnqueueStays
  <1>3. CASE Restart
    BY <1>3, RestartStays
  <1>4. CASE StartRun
    BY <1>4, StartStays
  <1>5. CASE \/ RunsArrive \/ ToggleAll \/ OpenConfirm \/ CloseConfirm \/ SendApply \/ ApplyFails
             \/ \E r \in 1..MaxRuns : ChooseRun(r)
             \/ \E s \in 1..Segments : ToggleSuggestion(s)
    BY <1>5, UserStays
  <1>6. CASE ApplySucceeds
    <2>1. /\ Applicable(applying.run, applying.ids) /\ Apply(applying.run, applying.ids)
          /\ applying' = NoApply /\ checked' = {}
          /\ UNCHANGED <<edits, settled, job, deaths, shownRuns, chosenRun, confirming>>
      BY <1>6 DEF ApplySucceeds, queueVars
    <2>2. Len(runs') = Len(runs) /\ applying'.run = 0 /\ applying'.ids = {}
      BY <2>1, ApplyFits DEF NoApply
    <2>3. confirming' \in BOOLEAN
      BY <2>1 DEF PageInv, PanelTyped
    <2>4. /\ Len(shownRuns') \in 0..Len(runs') /\ chosenRun' \in 0..MaxRuns
          /\ applying'.run \in 0..Len(runs') /\ applying'.ids \subseteq 1..Segments
          /\ checked' \subseteq 1..Segments
      BY <1>0, <2>1, <2>2
    <2>5. PanelTyped'
      BY <2>3, <2>4, Zenon DEF PanelTyped
    <2>. QED
      BY <1>0, <2>1, <2>5, ApplyStays
  <1>7. CASE OthersApply
    <2>1. PICK r \in 1..Len(runs), ids \in SUBSET (1..Segments) : Applicable(r, ids) /\ Apply(r, ids)
      BY <1>7 DEF OthersApply
    <2>2. /\ edits + deaths < MaxMishaps /\ edits' = edits + 1
          /\ UNCHANGED <<settled, job, deaths>> /\ UNCHANGED panelVars
      BY <1>7 DEF OthersApply, queueVars
    <2>3. Len(runs') = Len(runs)
      BY <2>1, ApplyFits
    <2>4. PanelTyped'
      BY <2>2, <2>3 DEF PageInv, PanelTyped, panelVars
    <2>. QED
      BY <1>0, <2>1, <2>2, <2>4, ApplyStays
  <1>8. CASE UNCHANGED proofVars
    <2>1. UNCHANGED serviceVars /\ UNCHANGED <<runs>> /\ UNCHANGED panelVars
      BY <1>8 DEF proofVars, serviceVars, panelVars
    <2>2. PanelTyped'
      BY <2>1 DEF PageInv, PanelTyped, panelVars
    <2>. QED
      BY <2>1, <2>2, PanelStays
  <1> QED
    BY <1>1, <1>2, <1>3, <1>4, <1>5, <1>6, <1>7, <1>8, <1>9 DEF ProofNext

LEMMA ProofIsTyped == ServiceInv /\ PageInv => ProofTypeOK
  <1> SUFFICES ASSUME ServiceInv, PageInv PROVE ProofTypeOK
    OBVIOUS
  <1>1. /\ words \in Texts /\ version \in Nat /\ edits \in Nat /\ settled \in BOOLEAN
        /\ runs \in Seq(Run) /\ Len(runs) \in Nat /\ Len(runs) <= MaxRuns /\ version >= 1
        /\ deaths \in Nat /\ edits + deaths <= MaxMishaps
        /\ job \in [run : Nat, next : Nat, collected : SUBSET Nat]
    BY DEF ServiceInv, ServiceType, PageInv, RunsBounded, MishapsBounded
  <1>2. version \in 1..(MaxMishaps + MaxRuns + 1) /\ edits \in 0..MaxMishaps /\ deaths \in 0..MaxMishaps
    BY <1>1, AppliedCount DEF PageInv, VersionIsCounted, Unfinished
  <1>3. DOMAIN words = 1..Segments
    BY <1>1 DEF Texts
  <1>4. \A r \in 1..Len(runs) : /\ runs[r].status \in Active \cup Ended
                                /\ runs[r].source \in 1..version
                                /\ runs[r].advice \in [1..Segments -> Resolutions]
    <2> TAKE r \in 1..Len(runs)
    <2>1. runs[r].source \in Nat /\ runs[r].status \in Active \cup Ended
          /\ runs[r].advice \in [1..Segments -> Resolutions]
      BY <1>1, RunTypes
    <2>2. runs[r].source <= version /\ runs[r].source >= 1
      BY DEF ServiceInv, SourceIsKept, PageInv, RunsBounded
    <2> QED
      BY <1>1, <2>1, <2>2
  <1>5. /\ {entering, job.run} \subseteq 0..Len(runs) /\ unserved \subseteq 1..Len(runs)
        /\ job.next \in 0..(Segments + 1)
    <2>1. \A r \in Elsewhere : r = 0 \/ r \in 1..Len(runs)
      BY DEF ServiceInv, QueueIsSound
    <2> QED
      BY <1>1, <2>1 DEF ServiceInv, QueueIsSound, Elsewhere, PageInv, RunsBounded
  <1>6. PanelTyped
    BY DEF PageInv
  <1> QED
    BY <1>1, <1>2, <1>3, <1>4, <1>5, <1>6, Zenon DEF ProofTypeOK, PanelTyped

LEMMA ProofTypeHolds == ProofInit /\ [][ProofNext]_proofVars => []ProofTypeOK
  BY InitSound, StepKeeps, PageInvInit, PageInvStep, ProofIsTyped, PTL

================================================================================
