-------------------------- MODULE TranscriptEditor --------------------------
(* The transcript of one task in TranscriptViewer.tsx: segment drafts, search *)
(* and replace, and the bulk save they share, beside the bulk update of the   *)
(* server (tasks.py) and the other writers of the transcript.  The page works *)
(* on a cached transcript that is refreshed after every save.                 *)
EXTENDS Naturals, Sequences, FiniteSetsExt, SequencesExt

CONSTANTS Originals,     \* transcripts the task may start with: sequences of texts
          Typed,         \* texts a user may type into a segment
          Searches,      \* words to search for
          Targets,       \* words to replace them by
          MaxSaves,      \* bound: saves of the page
          MaxOthers      \* bound: changes by other writers

(* Texts and words are sequences of letters.                                  *)
ASSUME EditorAssumption ==
  /\ Originals \subseteq Seq(Seq(STRING)) /\ Typed \subseteq Seq(STRING)
  /\ Searches \subseteq Seq(STRING) /\ Targets \subseteq Seq(STRING)
  /\ MaxSaves \in Nat /\ MaxOthers \in Nat

VARIABLES transcript,    \* texts of the segments on the server, by segment id
          occupied,      \* the task is active: its worker writes the transcript
          others,        \* changes by others so far
          cached,        \* the transcript the page was given last
          refresh,       \* the request for it under way, with its answer
          draftEdits,    \* segment id -> text typed and not saved
          tab,           \* detailView
          search, target, cursor,   \* replaceSearch, replaceTarget, replaceCursor
          saving,        \* the bulk save under way
          saves          \* saves sent so far

editorVars == <<transcript, occupied, others, cached, refresh, draftEdits, tab,
                search, target, cursor, saving, saves>>

Nothing == <<>>
NoSave == [by |-> "none", payload |-> Nothing]
Resting == [step |-> "none", answer |-> Nothing]
Sought == [step |-> "asked", answer |-> Nothing]

(* indexOf finds the word at this place of the text.                          *)
MatchAt(text, word, i) ==
  i + Len(word) - 1 <= Len(text) /\ SubSeq(text, i, i + Len(word) - 1) = word

(* Variant: the next match is looked for one letter behind the last one.      *)
OffsetsOverlapping(text, word) ==
  IF word = <<>> THEN <<>>
  ELSE SetToSortSeq({k \in 1..Len(text) : MatchAt(text, word, k)}, <)

(* indexOf, again and again: the matches from place i of the text on, each    *)
(* looked for behind the match before.                                        *)
Offsets(text, word) ==
  LET from[i \in 1..(Len(text) + 1)] ==
        IF i > Len(text) THEN <<>>
        ELSE IF MatchAt(text, word, i) THEN <<i>> \o from[i + Len(word)]
        ELSE from[i + 1]
  IN IF word = <<>> THEN <<>> ELSE from[1]

(* replaceOccurrences: the matches of all segments in reading order. *)
Occurrences(texts, word) ==
  FlattenSeq([s \in 1..Len(texts) |->
    LET at == Offsets(texts[s], word)
    IN [k \in 1..Len(at) |-> [segment |-> s, offset |-> at[k]]]])

(* String.split by a word that is not empty: the pieces of the text from      *)
(* place i on; a match closes a piece, any other letter belongs to one.       *)
Split(text, word) ==
  LET from[i \in 1..(Len(text) + 1)] ==
        IF i > Len(text) THEN << <<>> >>
        ELSE IF MatchAt(text, word, i) THEN << <<>> >> \o from[i + Len(word)]
        ELSE << <<text[i]>> \o Head(from[i + 1]) >> \o Tail(from[i + 1])
  IN from[1]

(* Array.join: the pieces from the k-th on with the word between them.        *)
Join(pieces, word) ==
  LET from[k \in 1..Len(pieces)] ==
        IF k = Len(pieces) THEN pieces[k] ELSE pieces[k] \o word \o from[k + 1]
  IN from[1]

ReplaceAllIn(text, word, by) == Join(Split(text, word), by)
ReplaceAt1(text, offset, word, by) ==
  SubSeq(text, 1, offset - 1) \o by \o SubSeq(text, offset + Len(word), Len(text))

(* displaySegments: the cached transcript with the drafts laid over it. *)
Displayed == [s \in 1..Len(cached) |->
                IF s \in DOMAIN draftEdits THEN draftEdits[s] ELSE cached[s]]
Matches == Occurrences(Displayed, search)
Current == IF Matches = <<>> THEN 0 ELSE (cursor % Len(Matches)) + 1

(* replacePreviewParts: where the preview puts its marks, one behind each     *)
(* piece of a segment but the last.                                           *)
Marks ==
  FlattenSeq([s \in 1..Len(Displayed) |->
    LET pieces == Split(Displayed[s], search)
        before(k) == Len(Join(SubSeq(pieces, 1, k), search))
    IN IF search = <<>> THEN <<>>
       ELSE [k \in 1..(Len(pieces) - 1) |-> [segment |-> s, offset |-> before(k) + 1]]])

MaySave == saving = NoSave /\ saves < MaxSaves
CanReplace == Matches # <<>> /\ target # search

EditorInit ==
  /\ transcript \in Originals /\ cached = transcript
  /\ occupied = FALSE /\ others = 0
  /\ refresh = Resting
  /\ draftEdits = <<>> /\ tab = "transcript"
  /\ search = <<>> /\ target = <<>> /\ cursor = 0
  /\ saving = NoSave /\ saves = 0

inputVars == <<draftEdits, tab, search, target, cursor>>
serverVars == <<transcript, occupied, others>>

PollTranscript ==
  /\ refresh.step = "none"
  /\ refresh' = Sought
  /\ UNCHANGED <<cached, saving, saves>> /\ UNCHANGED inputVars /\ UNCHANGED serverVars

AnswerTranscript ==
  /\ refresh.step = "asked"
  /\ refresh' = [step |-> "answered", answer |-> transcript]
  /\ UNCHANGED <<cached, saving, saves>> /\ UNCHANGED inputVars /\ UNCHANGED serverVars

(* The drafts are kept beside the transcript and survive a refresh. *)
TranscriptArrives ==
  /\ refresh.step = "answered"
  /\ cached' = refresh.answer
  /\ refresh' = Resting
  /\ UNCHANGED <<saving, saves>> /\ UNCHANGED inputVars /\ UNCHANGED serverVars

SwitchTab(view) ==
  /\ tab # view /\ tab' = view
  /\ UNCHANGED <<cached, refresh, saving, saves, draftEdits, search, target, cursor>>
  /\ UNCHANGED serverVars

(* A row of the edit view holds a text area; the other views only show it.    *)
Editable(s) == tab = "edit" /\ s \in 1..Len(cached)

(* setSegmentTextDraft: typing the cached text again is no draft. *)
TypeSegment(s, text) ==
  /\ Editable(s) /\ text # Displayed[s]
  /\ draftEdits' = IF text = cached[s]
                   THEN [d \in DOMAIN draftEdits \ {s} |-> draftEdits[d]]
                   ELSE [d \in DOMAIN draftEdits \cup {s} |->
                           IF d = s THEN text ELSE draftEdits[d]]
  /\ UNCHANGED <<cached, refresh, saving, saves, tab, search, target, cursor>>
  /\ UNCHANGED serverVars

DiscardDraftEdits ==
  /\ tab = "edit" /\ DOMAIN draftEdits # {} /\ saving = NoSave
  /\ draftEdits' = <<>>
  /\ UNCHANGED <<cached, refresh, saving, saves, tab, search, target, cursor>>
  /\ UNCHANGED serverVars

(* Another task is shown for a while: everything typed is dropped, a save     *)
(* under way goes on.                                                         *)
SwitchTask ==
  /\ <<draftEdits, tab, search, target, cursor>> # <<<<>>, "transcript", <<>>, <<>>, 0>>
  /\ draftEdits' = <<>> /\ tab' = "transcript"
  /\ search' = <<>> /\ target' = <<>> /\ cursor' = 0
  /\ UNCHANGED <<cached, refresh, saving, saves>> /\ UNCHANGED serverVars

EnterSearch(word) ==
  /\ tab = "replace" /\ word # search
  /\ search' = word /\ cursor' = 0
  /\ UNCHANGED <<cached, refresh, saving, saves, draftEdits, tab, target>>
  /\ UNCHANGED serverVars

EnterTarget(word) ==
  /\ tab = "replace" /\ word # target
  /\ target' = word
  /\ UNCHANGED <<cached, refresh, saving, saves, draftEdits, tab, search, cursor>>
  /\ UNCHANGED serverVars

GoToNextMatch ==
  /\ tab = "replace" /\ Matches # <<>>
  /\ cursor' = (cursor + 1) % Len(Matches)
  /\ UNCHANGED <<cached, refresh, saving, saves, draftEdits, tab, search, target>>
  /\ UNCHANGED serverVars

(* saveEdits.mutate: the texts of all segments as the page shows them.        *)
Send(kind, texts) ==
  /\ MaySave
  /\ saving' = [by |-> kind, payload |-> texts]
  /\ saves' = saves + 1
  /\ UNCHANGED <<cached, refresh>> /\ UNCHANGED inputVars /\ UNCHANGED serverVars

SaveDraftEdits == tab = "edit" /\ DOMAIN draftEdits # {} /\ Send("edit", Displayed)

ApplyBatchReplace ==
  /\ tab = "replace" /\ CanReplace
  /\ Send("all", [s \in 1..Len(Displayed) |-> ReplaceAllIn(Displayed[s], search, target)])

ApplyCurrentReplace ==
  /\ tab = "replace" /\ CanReplace
  /\ LET m == Matches[Current]
     IN Send("current", [Displayed EXCEPT ![m.segment] =
                           ReplaceAt1(@, m.offset, search, target)])

(* update_segments_bulk: not while the task is active, and only with exactly  *)
(* the segments the task has now; one transaction writes all. *)
Accepted(payload) == ~occupied /\ Len(payload) = Len(transcript)

SaveLands ==
  /\ saving # NoSave /\ Accepted(saving.payload)
  /\ transcript' = saving.payload
  /\ saving' = NoSave
  /\ draftEdits' = <<>>
  /\ refresh' = Sought
  /\ UNCHANGED <<occupied, others, cached, tab, search, target, cursor, saves>>

(* Refused, or the call or the transaction failed: the drafts stay.           *)
SaveFails ==
  /\ saving # NoSave
  /\ saving' = NoSave
  /\ UNCHANGED <<cached, refresh, saves>> /\ UNCHANGED inputVars /\ UNCHANGED serverVars

(* Other clients edit, split or merge; a retranscription writes what it likes.*)
OthersWrite ==
  /\ IF occupied THEN UNCHANGED others ELSE others < MaxOthers /\ others' = others + 1
  /\ \/ ~occupied /\ occupied' = TRUE /\ UNCHANGED transcript
     \/ occupied /\ occupied' = FALSE /\ transcript' \in Originals
     \/ /\ ~occupied /\ UNCHANGED occupied
        /\ \/ \E s \in 1..Len(transcript), w \in Typed : transcript' = [transcript EXCEPT ![s] = w]
           \/ \E w \in Typed : transcript' = Append(transcript, w)
           \/ Len(transcript) > 1 /\ transcript' = Front(transcript)
  /\ UNCHANGED <<cached, refresh, saving, saves>> /\ UNCHANGED inputVars

EditorNext ==
  \/ PollTranscript
  \/ AnswerTranscript
  \/ TranscriptArrives
  \/ \E view \in {"transcript", "edit", "replace"} : SwitchTab(view)
  \/ \E s \in 1..Len(cached), w \in Typed : TypeSegment(s, w)
  \/ DiscardDraftEdits
  \/ SwitchTask
  \/ \E w \in Searches : EnterSearch(w)
  \/ \E w \in Targets : EnterTarget(w)
  \/ GoToNextMatch
  \/ SaveDraftEdits
  \/ ApplyBatchReplace
  \/ ApplyCurrentReplace
  \/ SaveLands
  \/ SaveFails
  \/ OthersWrite

EditorSpec == EditorInit /\ [][EditorNext]_editorVars

(* diffTextLines: the table of longest common subsequences, filled from the   *)
(* end, and the walk through it; above maxCells the first lines of both       *)
(* versions about a summary.  At most maxLines lines are shown.               *)
Cells(old, new) == (1..(Len(old) + 1)) \X (1..(Len(new) + 1))

CommonTable(old, new) ==
  LET common[cell \in Cells(old, new)] ==
        LET r == cell[1]
            c == cell[2]
        IN IF r > Len(old) \/ c > Len(new) THEN 0
           ELSE IF old[r] = new[c] THEN common[<<r + 1, c + 1>>] + 1
           ELSE Max({common[<<r + 1, c>>], common[<<r, c + 1>>]})
  IN common

DiffLine(kind, line) == [kind |-> kind, text |-> line]
LinesFrom(kind, text, first, last) ==
  [k \in 1..(last + 1 - first) |-> DiffLine(kind, text[first + k - 1])]

DiffWalk(old, new) ==
  LET common == CommonTable(old, new)
      walk[cell \in Cells(old, new)] ==
        LET r == cell[1]
            c == cell[2]
        IN IF r > Len(old) THEN LinesFrom("added", new, c, Len(new))
           ELSE IF c > Len(new) THEN LinesFrom("removed", old, r, Len(old))
           ELSE IF old[r] = new[c]
           THEN <<DiffLine("same", old[r])>> \o walk[<<r + 1, c + 1>>]
           ELSE IF common[<<r + 1, c>>] >= common[<<r, c + 1>>]
           THEN <<DiffLine("removed", old[r])>> \o walk[<<r + 1, c>>]
           ELSE <<DiffLine("added", new[c])>> \o walk[<<r, c + 1>>]
  IN walk

DiffTextLines(old, new, maxCells, maxLines) ==
  LET side == Max({1, (maxLines - 1) \div 2})
      first(kind, text) == LinesFrom(kind, text, 1, Min({side, Len(text)}))
      diff == IF Len(old) * Len(new) > maxCells
              THEN first("removed", old) \o <<DiffLine("summary", <<Len(old), Len(new)>>)>>
                     \o first("added", new)
              ELSE DiffWalk(old, new)[<<1, 1>>]
  IN SubSeq(diff, 1, Min({maxLines, Len(diff)}))

(***************************************************************************)
(* What a comparison of two versions shows of each are its lines, in their *)
(* order and from the first on.  Unless it is simplified or cut, it shows  *)
(* both versions whole, and no lines common to both in the same order are  *)
(* more than it shows as the same.                                         *)
(***************************************************************************)
Count(diff, kinds, p) == Cardinality({q \in 1..p : diff[q].kind \in kinds})

ShowsOf(diff, kinds, text) ==
  /\ Count(diff, kinds, Len(diff)) <= Len(text)
  /\ \A p \in 1..Len(diff) :
       diff[p].kind \in kinds => diff[p].text = text[Count(diff, kinds, p)]

Rising(n, m) == {f \in [1..n -> 1..m] : \A i, j \in 1..n : i < j => f[i] < f[j]}

NoneLonger(old, new, length) ==
  \A n \in 0..Len(old) : \A f \in Rising(n, Len(old)), g \in Rising(n, Len(new)) :
    (\A k \in 1..n : old[f[k]] = new[g[k]]) => n <= length

DiffIsExact(old, new, maxCells, maxLines) ==
  LET diff == DiffTextLines(old, new, maxCells, maxLines)
      count(kinds) == Count(diff, kinds, Len(diff))
  IN /\ ShowsOf(diff, {"same", "removed"}, old) /\ ShowsOf(diff, {"same", "added"}, new)
     /\ Len(diff) <= maxLines
     /\ Len(old) * Len(new) <= maxCells /\ Len(diff) < maxLines =>
          /\ count({"same", "removed"}) = Len(old) /\ count({"same", "added"}) = Len(new)
          /\ NoneLonger(old, new, count({"same"}))

EditorTypeOK ==
  /\ \A texts \in {transcript, cached, saving.payload, refresh.answer} :
       texts \in Seq(Seq(STRING))
  /\ occupied \in BOOLEAN /\ others \in 0..MaxOthers /\ saves \in 0..MaxSaves
  /\ refresh.step \in {"none", "asked", "answered"}
  /\ DOMAIN draftEdits \subseteq Nat /\ \A s \in DOMAIN draftEdits : draftEdits[s] \in Typed
  /\ tab \in {"transcript", "edit", "replace"}
  /\ search \in Searches \cup {<<>>} /\ target \in Targets \cup {<<>>} /\ cursor \in Nat
  /\ saving.by \in {"none", "edit", "all", "current"}

(* The matches from the k-th on replaced one by one, the last one first.      *)
ReplacedBackwards(text, offsets, word, by) ==
  LET from[k \in 1..(Len(offsets) + 1)] ==
        IF k > Len(offsets) THEN text ELSE ReplaceAt1(from[k + 1], offsets[k], word, by)
  IN from[1]

(* What the preview marks is what is replaced: the marks, counted by          *)
(* splitting, are the occurrences, counted by searching, one by one; and      *)
(* replacing the occurrences one by one from the last to the first is what    *)
(* replacing all of them by split and join gives.                             *)
MarkedIsReplaced ==
  search # <<>> =>
    /\ Marks = Matches
    /\ \A s \in 1..Len(Displayed) :
         LET text == Displayed[s]
         IN ReplaceAllIn(text, search, target) =
              ReplacedBackwards(text, Offsets(text, search), search, target)
=============================================================================
