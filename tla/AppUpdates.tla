----------------------------- MODULE AppUpdates -----------------------------
(* Application updates of the desktop build: the preferences and buttons      *)
(* (AboutSettings.tsx), the automatic check (AppUpdateRuntime.tsx), the store *)
(* they share (appUpdateStore.ts) and the shell that downloads (update.rs).   *)
(* Commands without await run on the shell's main thread one at a time, a     *)
(* download beside them; the window hears of it by events, which arrive in    *)
(* order, and by the answers to its own calls, which may arrive behind them.  *)
EXTENDS Naturals, Sequences

CONSTANTS Channels,      \* release channels
          MaxChecks,     \* bound: checks
          MaxStarts,     \* bound: downloads
          MaxCancels,    \* bound: cancellations
          MaxToggles     \* bound: changes of the preferences, days, and faults

ASSUME UpdateAssumption == {MaxChecks, MaxStarts, MaxCancels, MaxToggles} \subseteq Nat

VARIABLES channel,       \* updateChannel
          automatic,     \* autoCheckUpdates and updateNotifications
          due,           \* the last automatic check is a day old
          timer,         \* the effect has a timer running
          checks,        \* check -> channel asked for, who asked, where it is
          checkStatus,   \* checkStatus
          release,       \* channel whose newer release is offered, or "none"
          notified,      \* notifiedVersion: the last version a notice was shown of
          snapshot,      \* the shell's download: status and version
          cancelFlag,    \* AppUpdateState.cancel
          looked,        \* a cancellation has read the status
          transfers,     \* download -> version, channel and step of run_download
          news,          \* progress events on their way
          answers,       \* answers of commands on their way
          shown,         \* download.status in the store
          toggles, cancels \* counters for the bounds

checkVars == <<channel, automatic, due, timer, checks, checkStatus, release, notified, toggles>>
shellVars == <<snapshot, cancelFlag, looked, transfers, news>>
updateVars == <<checkVars, shellVars, answers, shown, cancels>>

Checks == 1..MaxChecks
Starts == 1..MaxStarts
NoCheck == [step |-> "unused", channel |-> "none", auto |-> FALSE, tell |-> FALSE]
NoRun == [step |-> "unused", version |-> "none", channel |-> "none"]
InProgress == {"preparing", "downloading", "verifying", "cancelling"}
DownloadStatuses == InProgress \cup {"idle", "cancelled", "completed", "error"}
Writing == {"selecting", "selected", "downloading", "written", "verifying", "renamed"}
Ends == {"stopped", "failed", "finished"}

UpdateInit ==
  /\ channel \in Channels /\ automatic = [check |-> TRUE, notify |-> TRUE]
  /\ due = TRUE /\ timer = TRUE /\ checks = [k \in Checks |-> NoCheck]
  /\ checkStatus = "idle" /\ release = "none" /\ notified = "none"
  /\ snapshot = "idle" /\ cancelFlag = FALSE /\ looked = FALSE
  /\ transfers = [n \in Starts |-> NoRun] /\ news = <<>> /\ answers = {} /\ shown = "idle"
  /\ toggles = 0 /\ cancels = 0

(***************************************************************************)
(* Checks.                                                                 *)
(***************************************************************************)
Toggle == toggles < MaxToggles /\ toggles' = toggles + 1

(* Any preference the effect depends on sets its timer anew. *)
Rearm == timer' = (automatic'.check /\ due')

ChooseChannel ==
  /\ Toggle /\ \E c \in Channels \ {channel} : channel' = c
  /\ UNCHANGED <<automatic, due>> /\ Rearm
  /\ UNCHANGED <<checks, checkStatus, release, notified, shellVars, answers, shown, cancels>>

ChoosePreference ==
  /\ Toggle
  /\ \/ automatic' = [automatic EXCEPT !.check = ~@]
     \/ automatic.check /\ automatic' = [automatic EXCEPT !.notify = ~@]
  /\ UNCHANGED <<channel, due>> /\ Rearm
  /\ UNCHANGED <<checks, checkStatus, release, notified, shellVars, answers, shown, cancels>>

(* A day goes by.  The effect sees it the next time it runs. *)
DayPasses ==
  /\ Toggle /\ ~due /\ due' = TRUE
  /\ UNCHANGED <<channel, automatic, timer, checks, checkStatus, release, notified, shellVars,
                 answers, shown, cancels>>

StartCheck(k, auto) ==
  /\ checks[k].step = "unused" /\ \A j \in Checks : j < k => checks[j].step # "unused"
  /\ checks' = [checks EXCEPT ![k] = [step |-> "asked", channel |-> channel, auto |-> auto,
                                      tell |-> auto /\ automatic.notify]]
  /\ checkStatus' = "checking"

(* The button is locked while a check runs, the timer is not. *)
CheckNow(k) ==
  /\ checkStatus # "checking" /\ StartCheck(k, FALSE)
  /\ UNCHANGED <<channel, automatic, due, timer, release, notified, toggles, shellVars, answers,
                 shown, cancels>>

TimerFires(k) ==
  /\ timer /\ timer' = FALSE /\ StartCheck(k, TRUE)
  /\ UNCHANGED <<channel, automatic, due, release, notified, toggles, shellVars, answers, shown,
                 cancels>>

(* The timestamp is written, and the effect runs on it. *)
Remember(k) ==
  IF checks[k].auto THEN due' = FALSE /\ timer' = FALSE ELSE UNCHANGED <<due, timer>>

(* The answer is kept whatever was asked since; one notice for one version.   *)
CheckAnswered(k) ==
  /\ checks[k].step = "asked"
  /\ \E found \in {checks[k].channel, "none"} :
       /\ release' = found
       /\ notified' = IF checks[k].tell /\ found # "none" THEN found ELSE notified
  /\ checkStatus' = "success" /\ checks' = [checks EXCEPT ![k].step = "ended"]
  /\ Remember(k)
  /\ UNCHANGED <<channel, automatic, toggles, shellVars, answers, shown, cancels>>

CheckFails(k) ==
  /\ checks[k].step = "asked"
  /\ checkStatus' = "error" /\ checks' = [checks EXCEPT ![k].step = "ended"]
  /\ Remember(k)
  /\ UNCHANGED <<channel, automatic, release, notified, toggles, shellVars, answers, shown,
                 cancels>>

(***************************************************************************)
(* The shell.                                                              *)
(***************************************************************************)
(* mutate_snapshot: the new state, and an event that carries it.              *)
Mutate(status) == snapshot' = status /\ news' = Append(news, status)

(* start_update_download turns a second download away.                        *)
MayStart == ~looked /\ snapshot \notin InProgress

(* The buttons: the update found, or Retry of a download that ended badly;    *)
(* cancel while one is shown under way.                                       *)
Offer == \/ checkStatus = "success" /\ release # "none" /\ shown \notin InProgress
         \/ release # "none" /\ shown \in {"error", "cancelled"}
CancelOffered == shown \in InProgress \ {"cancelling"}

StartDownload(n) ==
  /\ Offer /\ MayStart
  /\ transfers[n].step = "unused" /\ \A m \in Starts : m < n => transfers[m].step # "unused"
  /\ transfers' = [transfers EXCEPT ![n] = [step |-> "selecting", version |-> release,
                                  channel |-> channel]]
  /\ Mutate("preparing") /\ cancelFlag' = FALSE
  /\ answers' = answers \cup {"preparing"}
  /\ UNCHANGED <<checkVars, looked, shown, cancels>>

CancelDownload ==
  /\ CancelOffered /\ cancels < MaxCancels /\ ~looked
  /\ cancels' = cancels + 1
  /\ IF snapshot \in InProgress \ {"cancelling"}
     THEN looked' = TRUE /\ UNCHANGED answers
     ELSE answers' = answers \cup {snapshot} /\ UNCHANGED looked
  /\ UNCHANGED <<checkVars, snapshot, cancelFlag, transfers, news, shown>>

(* Variant: the cancellation does not wait for the download to notice.        *)
CancelAtOnce ==
  /\ looked /\ looked' = FALSE
  /\ cancelFlag' = TRUE /\ Mutate("cancelled") /\ answers' = answers \cup {"cancelled"}
  /\ UNCHANGED <<checkVars, transfers, shown, cancels>>

(* The lock was given back since the status was read: the download may have   *)
(* ended, and the state then says "cancelling" for good.                      *)
CancelActs ==
  /\ looked /\ looked' = FALSE
  /\ cancelFlag' = TRUE /\ Mutate("cancelling") /\ answers' = answers \cup {"cancelling"}
  /\ UNCHANGED <<checkVars, transfers, shown, cancels>>

(* ensure_not_cancelled, and what may fail at a step of the download.         *)
Step(n, from, to) ==
  /\ transfers[n].step = from
  /\ \E next \in {"stopped", "failed", to} :
       /\ next = "stopped" => cancelFlag
       /\ next = to => ~cancelFlag
       /\ transfers' = [transfers EXCEPT ![n].step = next]
  /\ UNCHANGED <<checkVars, snapshot, cancelFlag, looked, news, answers, shown, cancels>>

(* The newest release of the channel asked for must be the one offered; the   *)
(* flag is not looked at again before the download is announced.              *)
FetchReleases(n) == Step(n, "selecting", "selected")

SelectRelease(n) ==
  /\ transfers[n].step = "selected"
  /\ \/ transfers' = [transfers EXCEPT ![n].step = "failed"] /\ UNCHANGED <<snapshot, news>>
     \/ /\ transfers[n].version = transfers[n].channel
        /\ \/ transfers' = [transfers EXCEPT ![n].step = "downloading"] /\ Mutate("downloading")
           \/ transfers' = [transfers EXCEPT ![n].step = "finished"] /\ Mutate("completed")
  /\ UNCHANGED <<checkVars, cancelFlag, looked, answers, shown, cancels>>

Transfer(n) == Step(n, "downloading", "written")

(* A chunk that was let pass reports over a cancellation. *)
ReportProgress(n) ==
  /\ transfers[n].step \in {"downloading", "written"} /\ snapshot = "cancelling"
  /\ Mutate("downloading")
  /\ UNCHANGED <<checkVars, cancelFlag, looked, transfers, answers, shown, cancels>>

AnnounceVerifying(n) ==
  /\ transfers[n].step = "written" /\ transfers' = [transfers EXCEPT ![n].step = "verifying"]
  /\ Mutate("verifying")
  /\ UNCHANGED <<checkVars, cancelFlag, looked, answers, shown, cancels>>

Verify(n) == Step(n, "verifying", "renamed")

Complete(n) ==
  /\ transfers[n].step = "renamed" /\ transfers' = [transfers EXCEPT ![n].step = "finished"]
  /\ Mutate("completed")
  /\ UNCHANGED <<checkVars, cancelFlag, looked, answers, shown, cancels>>

(* The task around run_download: the flag is taken back, then the outcome.    *)
EndDownload(n) ==
  /\ transfers[n].step \in Ends /\ cancelFlag' = FALSE
  /\ transfers' = [transfers EXCEPT ![n].step = "over"]
  /\ CASE transfers[n].step = "stopped" -> Mutate("cancelled")
       [] transfers[n].step = "failed" -> Mutate("error")
       [] OTHER -> UNCHANGED <<snapshot, news>>
  /\ UNCHANGED <<checkVars, looked, answers, shown, cancels>>

(***************************************************************************)
(* The window.                                                             *)
(***************************************************************************)
EventArrives ==
  /\ news # <<>> /\ shown' = Head(news) /\ news' = Tail(news)
  /\ UNCHANGED <<checkVars, snapshot, cancelFlag, looked, transfers, answers, cancels>>

AnswerArrives ==
  /\ \E status \in answers : shown' = status /\ answers' = answers \ {status}
  /\ UNCHANGED <<checkVars, shellVars, cancels>>

Downloads(n) ==
  \/ FetchReleases(n) \/ SelectRelease(n)
  \/ Transfer(n) \/ AnnounceVerifying(n)
  \/ Verify(n) \/ Complete(n) \/ EndDownload(n)

UpdateNext ==
  \/ ChooseChannel \/ ChoosePreference \/ DayPasses
  \/ \E k \in Checks : CheckNow(k)
  \/ \E k \in Checks : TimerFires(k)
  \/ \E k \in Checks : CheckAnswered(k)
  \/ \E k \in Checks : CheckFails(k)
  \/ \E n \in Starts : StartDownload(n)
  \/ CancelDownload \/ CancelActs
  \/ \E n \in Starts : FetchReleases(n)
  \/ \E n \in Starts : SelectRelease(n)
  \/ \E n \in Starts : Transfer(n)
  \/ \E n \in Starts : ReportProgress(n)
  \/ \E n \in Starts : AnnounceVerifying(n)
  \/ \E n \in Starts : Verify(n)
  \/ \E n \in Starts : Complete(n)
  \/ \E n \in Starts : EndDownload(n)
  \/ EventArrives \/ AnswerArrives

(* Requests to the release host have deadlines, and messages are delivered.   *)
UpdateFairness ==
  /\ \A n \in Starts : WF_updateVars(Downloads(n))
  /\ WF_updateVars(CancelActs) /\ WF_updateVars(EventArrives) /\ WF_updateVars(AnswerArrives)

UpdateSpec == UpdateInit /\ [][UpdateNext]_updateVars /\ UpdateFairness

UpdateTypeOK ==
  /\ channel \in Channels /\ automatic \in [check : BOOLEAN, notify : BOOLEAN]
  /\ due \in BOOLEAN /\ timer \in BOOLEAN
  /\ checks \in [Checks -> [step : {"unused", "asked", "ended"}, channel : Channels \cup {"none"},
                            auto : BOOLEAN, tell : BOOLEAN]]
  /\ checkStatus \in {"idle", "checking", "success", "error"}
  /\ release \in Channels \cup {"none"} /\ notified \in Channels \cup {"none"}
  /\ snapshot \in DownloadStatuses /\ cancelFlag \in BOOLEAN /\ looked \in BOOLEAN
  /\ transfers \in [Starts -> [step : {"unused", "over"} \cup Writing \cup Ends,
                          version : Channels \cup {"none"}, channel : Channels \cup {"none"}]]
  /\ news \in Seq(DownloadStatuses) /\ answers \subseteq DownloadStatuses
  /\ shown \in DownloadStatuses
  /\ toggles \in 0..MaxToggles /\ cancels \in 0..MaxCancels

(* One download writes the package at a time: while it does, the shell's      *)
(* state says so and turns a second one away, whatever the window shows.      *)
OneTransfer ==
  \A n \in Starts : transfers[n].step \in Writing =>
    /\ snapshot \in InProgress
    /\ \A m \in Starts \ {n} : transfers[m].step \in {"unused", "finished", "over"}
=============================================================================
