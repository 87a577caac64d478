----------------------------- MODULE AudioDesk ------------------------------
(* Listening: the global player (PersistentAudioPlayer.tsx over audioStore.ts)*)
(* that plays a whole recording or one segment of it, and the waveform player *)
(* of the transcript (WaveformAudioPlayer in TranscriptViewer.tsx).  Time is  *)
(* counted in ticks.  The audio element reports plays, pauses and positions   *)
(* by events, which arrive in order and behind what was done meanwhile.       *)
EXTENDS Naturals, Sequences

CONSTANTS Length,        \* ticks of a recording
          Slack,         \* differences up to this are not worth a seek
          Jump,          \* ticks that may pass between two position events
          Tracks,        \* addresses of recordings
          MaxTouches,    \* bound: what the user does to the player
          MaxFetches     \* bound: requests of the waveform player

(* The element reports its position before it has come around to it again.    *)
ASSUME AudioAssumption ==
  /\ Length \in Nat \ {0} /\ Jump \in 1..(Length + 1) /\ Slack \in Nat
  /\ MaxTouches \in Nat /\ MaxFetches \in Nat

VARIABLES player,        \* audioStore: url, position, clip, loop, open, shouldPlay
          element,       \* the audio element: address, metadata, position, playing
          signals,       \* "play" and "pause" events of the element on their way
          moved,         \* the element's position was not reported yet
          unsettled,     \* a promise of play() is neither kept nor broken
          wave,          \* the waveform player: task, address, drawing
          fetches,       \* its requests: task they are for, step, still wanted
          touches        \* counter for the bound

playVars == <<player, element, signals, moved, unsettled, touches>>
waveVars == <<wave, fetches>>
audioVars == <<playVars, waveVars>>

NoTrack == "none"
Ticks == 0..Length
NoEnd == Length + Jump + 1    \* audioClipEnd = null
Clip(p) == p.end # NoEnd
Fetches == 1..MaxFetches
NoFetch == [step |-> "unused", track |-> NoTrack, kind |-> "url", wanted |-> FALSE]

NoMedia == [url |-> NoTrack, ready |-> FALSE, broken |-> FALSE, time |-> 0, playing |-> FALSE]

AudioInit ==
  /\ player = [url |-> NoTrack, time |-> 0, end |-> NoEnd, loop |-> FALSE, open |-> FALSE,
               should |-> FALSE, unavailable |-> FALSE]
  /\ element = NoMedia
  /\ signals = <<>> /\ moved = FALSE /\ unsettled = FALSE
  /\ wave = [track |-> NoTrack, url |-> NoTrack, status |-> "idle", drawn |-> NoTrack,
             playing |-> FALSE]
  /\ fetches = [f \in Fetches |-> NoFetch] /\ touches = 0

Touch == touches < MaxTouches /\ touches' = touches + 1

(***************************************************************************)
(* The element and the effects that follow the store.                      *)
(***************************************************************************)
Signal(old, new) ==
  IF old.playing = new.playing THEN signals
  ELSE Append(signals, IF new.playing THEN "play" ELSE "pause")

(* src: another address loads anew and no longer plays.                       *)
Mounted(m, p) ==
  IF ~p.open THEN NoMedia
  ELSE IF m.url = p.url THEN m ELSE [NoMedia EXCEPT !.url = p.url]

(* The seek effect runs when the position or the address of the store changed.*)
SoughtMedia(m, old, new) ==
  IF /\ new.open /\ <<old.url, old.time>> # <<new.url, new.time>>
     /\ m.time > new.time + Slack \/ new.time > m.time + Slack
  THEN [m EXCEPT !.time = new.time] ELSE m

(* The play effect runs when shouldPlay, the address or isOpen changed: it    *)
(* pauses or calls play(), which the webview may not allow.                   *)
Drives(old, new) ==
  new.open /\ <<old.should, old.url, old.open>> # <<new.should, new.url, new.open>>
Driven(m, old, new, allowed) ==
  IF Drives(old, new) THEN [m EXCEPT !.playing = new.should /\ ~m.broken /\ allowed] ELSE m
Promised(old, new) == unsettled' = (unsettled \/ (Drives(old, new) /\ new.should))

(* A change of the store, rendered.  An element that is taken away says       *)
(* nothing any more.                                                          *)
RenderedAs(m, new, allowed) ==
  LET kept == Mounted(m, new)
      seen == Driven(SoughtMedia(kept, player, new), player, new, allowed)
  IN /\ player' = new /\ element' = seen
     /\ signals' = IF new.open THEN Signal([playing |-> m.playing /\ kept = m], seen) ELSE <<>>
     /\ moved' = (moved /\ kept = m)

Render(m, new) == Promised(player, new) /\ \E allowed \in BOOLEAN : RenderedAs(m, new, allowed)

(***************************************************************************)
(* What the user does.                                                     *)
(***************************************************************************)
(* openAudio, called by openSegmentAudio: the padding is part of the times.   *)
OpenSegment ==
  /\ Touch /\ \E url \in Tracks, start \in Ticks, end \in Ticks :
       /\ start <= end
       /\ Render(element, [player EXCEPT
            !.url = url, !.time = start, !.end = IF end > start THEN end ELSE NoEnd,
            !.loop = IF end > start THEN FALSE ELSE @, !.open = TRUE, !.should = TRUE,
            !.unavailable = FALSE])
  /\ UNCHANGED waveVars

Released(p) == [p EXCEPT !.end = NoEnd]

(* The button: to play on releases the segment.                               *)
PlayOrPause ==
  /\ Touch /\ player.open
  /\ Render(element, [(IF player.should THEN player ELSE Released(player))
                      EXCEPT !.should = ~player.should])
  /\ UNCHANGED waveVars

(* The slider moves the store and the element.                                *)
Seek ==
  /\ Touch /\ player.open /\ element.ready
  /\ \E time \in Ticks : Render([element EXCEPT !.time = time],
                                [Released(player) EXCEPT !.time = time])
  /\ UNCHANGED waveVars

SetLoop ==
  /\ Touch /\ player.open /\ player' = [player EXCEPT !.loop = ~@]
  /\ UNCHANGED <<element, signals, moved, unsettled, waveVars>>

CloseAudio ==
  /\ Touch /\ player.open
  /\ Render(element, [Released(player) EXCEPT !.open = FALSE, !.should = FALSE, !.time = 0])
  /\ UNCHANGED waveVars

(***************************************************************************)
(* What the element does.                                                  *)
(***************************************************************************)
LoadedMetadata ==
  /\ player.open /\ ~element.ready /\ ~element.broken
  /\ element' = [element EXCEPT !.ready = TRUE, !.time = player.time]
  /\ UNCHANGED <<player, signals, moved, unsettled, waveVars, touches>>

MediaError ==
  /\ player.open /\ ~element.ready /\ ~element.broken
  /\ Render([element EXCEPT !.broken = TRUE, !.playing = FALSE],
            [player EXCEPT !.unavailable = TRUE, !.should = FALSE])
  /\ UNCHANGED <<waveVars, touches>>

(* The promise is broken: the source cannot be played, playing is not allowed *)
(* or was aborted by a pause or another source.  Whichever play() it was, the *)
(* store says that nothing should play, also when another one was called      *)
(* meanwhile, whose promise may still be open.                                *)
PlayRefused ==
  /\ unsettled /\ unsettled' \in BOOLEAN
  /\ RenderedAs(element, [player EXCEPT !.should = FALSE], TRUE)
  /\ UNCHANGED <<waveVars, touches>>

PlayKept ==
  /\ unsettled /\ element.playing /\ element.ready /\ unsettled' = FALSE
  /\ UNCHANGED <<player, element, signals, moved, waveVars, touches>>

(* Playing on, up to the next position event, around the end when it loops.   *)
Advance ==
  /\ player.open /\ element.ready /\ element.playing /\ ~moved
  /\ \E step \in 1..Jump :
       \/ element.time + step <= Length /\ element' = [element EXCEPT !.time = @ + step]
       \/ /\ element.time + step > Length /\ player.loop
          /\ element' = [element EXCEPT !.time = element.time + step - Length - 1]
  /\ moved' = TRUE
  /\ UNCHANGED <<player, signals, unsettled, waveVars, touches>>

PlaysToEnd ==
  /\ player.open /\ element.ready /\ element.playing /\ ~moved
  /\ element.time = Length /\ ~player.loop
  /\ Render([element EXCEPT !.playing = FALSE], [player EXCEPT !.should = FALSE])
  /\ UNCHANGED <<waveVars, touches>>

ClipReachedEnd(time, end) == end # NoEnd /\ time >= end

TimeUpdate ==
  /\ moved /\ player.open
  /\ LET heard == [element EXCEPT !.playing = FALSE, !.time = player.end]
     IN IF ClipReachedEnd(element.time, player.end)
        THEN /\ player' = [player EXCEPT !.time = player.end, !.should = FALSE]
             /\ element' = heard /\ signals' = Signal(element, heard)
        ELSE /\ player' = [player EXCEPT !.time = element.time]
             /\ UNCHANGED <<element, signals>>
  /\ moved' = FALSE /\ UNCHANGED <<unsettled, waveVars, touches>>

(* onPlay and onPause write what the element did into the store.              *)
HearSignal ==
  /\ signals # <<>> /\ player.open
  /\ LET new == [player EXCEPT !.should = Head(signals) = "play"]
     IN \E allowed \in BOOLEAN : LET seen == Driven(element, player, new, allowed) IN
        /\ player' = new /\ element' = seen /\ Promised(player, new)
        /\ signals' = IF element.playing = seen.playing THEN Tail(signals)
                      ELSE Append(Tail(signals), IF seen.playing THEN "play" ELSE "pause")
  /\ UNCHANGED <<moved, waveVars, touches>>

(***************************************************************************)
(* The waveform.                                                           *)
(***************************************************************************)
FirstUnused(f) ==
  fetches[f].step = "unused" /\ \A g \in Fetches : g < f => fetches[g].step # "unused"
(* Variant: requests for the audio shown before stay wanted.                  *)
DroppedNone == fetches

Dropped == [f \in Fetches |-> [fetches[f] EXCEPT !.wanted = FALSE]]
AskedStart(kind, track) == [step |-> "asked", track |-> track, kind |-> kind, wanted |-> TRUE]

(* Another task, or the audio reloaded: what was asked before is not wanted.  *)
LoadTrack(track) ==
  /\ wave' = [track |-> track, url |-> NoTrack, status |-> IF wave.url = NoTrack
                THEN "loading" ELSE "idle", drawn |-> wave.drawn, playing |-> FALSE]
  /\ \E f \in Fetches : /\ FirstUnused(f)
                        /\ fetches' = [Dropped EXCEPT ![f] = AskedStart("url", track)]

ShowTrack ==
  /\ \E track \in Tracks \ {wave.track} : LoadTrack(track)
  /\ UNCHANGED playVars

(* The source was moved, and the user points to it.                           *)
RelinkSource ==
  /\ wave.status = "error" /\ LoadTrack(wave.track) /\ UNCHANGED playVars

TrackUrlAnswered ==
  /\ \E f \in Fetches :
       /\ fetches[f].step = "asked" /\ fetches[f].kind = "url"
       /\ LET done == [fetches EXCEPT ![f].step = "ended"]
          IN \/ /\ fetches[f].wanted
                /\ wave' = [wave EXCEPT !.url = fetches[f].track, !.status = "loading"]
                /\ \E g \in Fetches :
                     /\ FirstUnused(g)
                     /\ fetches' = [done EXCEPT ![g] = AskedStart("wave", fetches[f].track)]
             \/ /\ fetches[f].wanted /\ wave' = [wave EXCEPT !.status = "error"]
                /\ fetches' = done
             \/ ~fetches[f].wanted /\ fetches' = done /\ UNCHANGED wave
  /\ UNCHANGED playVars

WaveformAnswered ==
  /\ \E f \in Fetches :
       /\ fetches[f].step = "asked" /\ fetches[f].kind = "wave"
       /\ fetches' = [fetches EXCEPT ![f].step = "ended"]
       /\ \/ /\ fetches[f].wanted
             /\ wave' = [wave EXCEPT !.status = "ready", !.drawn = fetches[f].track]
          \/ fetches[f].wanted /\ wave' = [wave EXCEPT !.status = "error"]
          \/ ~fetches[f].wanted /\ UNCHANGED wave
  /\ UNCHANGED playVars

(* A segment that is clicked plays; the button plays and pauses.              *)
PlayWave ==
  /\ wave.url # NoTrack /\ wave' = [wave EXCEPT !.playing = ~@]
  /\ UNCHANGED <<fetches, playVars>>

PlayerNext ==
  \/ OpenSegment \/ PlayOrPause \/ Seek \/ SetLoop \/ CloseAudio
  \/ LoadedMetadata \/ MediaError \/ PlayRefused \/ PlayKept \/ Advance \/ PlaysToEnd \/ TimeUpdate
  \/ HearSignal

WaveNext ==
  \/ ShowTrack \/ RelinkSource \/ TrackUrlAnswered \/ WaveformAnswered \/ PlayWave

AudioNext == PlayerNext \/ WaveNext

AudioSpec == AudioInit /\ [][AudioNext]_audioVars

AudioTypeOK ==
  /\ player \in [url : Tracks \cup {NoTrack}, time : Ticks, end : Ticks \cup {NoEnd},
                 loop : BOOLEAN, open : BOOLEAN, should : BOOLEAN, unavailable : BOOLEAN]
  /\ element \in [url : Tracks \cup {NoTrack}, ready : BOOLEAN, broken : BOOLEAN, time : Ticks,
                playing : BOOLEAN]
  /\ signals \in Seq({"play", "pause"}) /\ moved \in BOOLEAN
  /\ unsettled \in BOOLEAN
  /\ wave \in [track : Tracks \cup {NoTrack}, url : Tracks \cup {NoTrack},
               status : {"idle", "loading", "ready", "error"}, drawn : Tracks \cup {NoTrack},
               playing : BOOLEAN]
  /\ fetches \in [Fetches -> [step : {"unused", "asked", "ended"},
                              track : Tracks \cup {NoTrack}, kind : {"url", "wave"},
                              wanted : BOOLEAN]]
  /\ touches \in 0..MaxTouches

(* The waveform shown as ready is that of the audio that plays, although the  *)
(* answers for the audio shown before may still arrive.                       *)
WaveformIsCurrent ==
  wave.status = "ready" => wave.drawn = wave.url /\ wave.url = wave.track
=============================================================================
