----------------------------- MODULE MediaPlayer -----------------------------
(***************************************************************************)
(* The video and audio components of the HarmonyOS renderer.  The main       *)
(* thread gives a component its url and calls the system's AVPlayer, which   *)
(* works on a thread of its own and reports every change of its state; a     *)
(* report is posted to the main looper, so a component acts on a state the   *)
(* player may have left.  A video also waits for the window of its           *)
(* XComponent.                                                              *)
(*                                                                          *)
(* The player is external: which calls it takes in which state is what the   *)
(* components' code counts on.  Seeking, progress and controls are left out. *)
(***************************************************************************)
EXTENDS Integers, Sequences, FiniteSets, SequencesExt

CONSTANTS MediaKinds,   \* a subset of {"video", "audio"}
          Sources,      \* urls
          Refused,      \* those of them that SetURLSource() does not take
          MaxSources,   \* bound: updates with a url
          MaxClicks,    \* bound: clicks on the play button
          MaxWindows    \* bound: windows of the XComponent

ASSUME MediaAssumption ==
    /\ MediaKinds \subseteq {"video", "audio"} /\ Refused \subseteq Sources
    /\ MaxSources \in Nat /\ MaxClicks \in Nat /\ MaxWindows \in Nat
    /\ "none" \notin Sources

NoSource == "none"
NoWindow == 0

VARIABLES media,    \* the component
          player,   \* the AVPlayer
          reports,  \* the player's reports in the main looper
          window    \* m_window, the last one made, and the bounded calls made

mediaVars == <<media, player, reports, window>>
\* media.late  the url came while the component took a busy player for idle, or
\*             would do so soon: see Mistaken, and known in SetAudioUrl

MediaInit ==
    /\ media \in [kind : MediaKinds, alive : {TRUE}, url : {NoSource}, state : {""}, playing : {FALSE},
                  pendingPrepare : {FALSE}, pendingPlay : {FALSE}, autoPlay : BOOLEAN, late : {FALSE}]
    /\ player = [state |-> "idle", source |-> NoSource]
    /\ reports = <<>>
    /\ window = [current |-> NoWindow, made |-> 0, sources |-> 0, clicks |-> 0]
-----------------------------------------------------------------------------
(* The player. w is a record of the variables a main-thread callback changes. *)

Stage == [media |-> media, player |-> player, reports |-> reports]

Plays(w) == media' = w.media /\ player' = w.player /\ reports' = w.reports

Enters(w, state) == [w EXCEPT !.player.state = state, !.reports = Append(@, state)]

Takes(w, url) == w.player.state = "idle" /\ url \notin Refused

\* SetURLSource() or SetFDSource(), then Prepare().
Prepare(w, url) ==
    IF ~Takes(w, url) THEN w
    ELSE [Enters([w EXCEPT !.player.source = url, !.media.late = FALSE], "initialized")
             EXCEPT !.player.state = "preparing"]

\* Play() and Pause() in a state that does not allow them return an error.
Play(w) == IF w.player.state \in {"prepared", "paused", "completed"} THEN Enters(w, "playing") ELSE w
Pause(w) == IF w.player.state = "playing" THEN Enters(w, "paused") ELSE w

Idle(w) == Enters([w EXCEPT !.player.source = NoSource], "idle")

\* Reset() takes effect at once or later, and does nothing to an idle player.
Resets(w) == IF w.player.state = "idle" THEN {w} ELSE {Idle(w), [w EXCEPT !.player.state = "resetting"]}

PlayerStep(from, w) == player.state \in from /\ Plays(w) /\ UNCHANGED window

PlayerResets == PlayerStep({"resetting"}, Idle(Stage))
PlayerPrepares == \/ PlayerStep({"preparing"}, Enters(Stage, "prepared"))
                  \/ PlayerStep({"preparing"}, Enters(Stage, "error"))
PlayerCompletes == PlayerStep({"playing"}, Enters(Stage, "completed"))
PlayerFails == PlayerStep({"prepared", "playing", "paused"}, Enters(Stage, "error"))
-----------------------------------------------------------------------------
(* VideoComponent. *)

HandleVideoPrepare(w, url) == IF window.current = NoWindow THEN w ELSE Prepare(w, url)

\* The states in which the component takes the player for idle.
ThinksIdle(w) == w.media.state \in {"", "idle"}

\* The component mistakes a busy player for an idle one, or will do so when the
\* report of an earlier reset arrives: a new window had the url prepared before.
Mistaken == player.state # "idle" /\ (ThinksIdle(Stage) \/ "idle" \in ToSet(reports))

\* Mutant: a player that is preparing is not reset.
SetVideoUrl_KeepsPreparing(url) ==
    LET w == [Stage EXCEPT !.media.url = url, !.media.pendingPrepare = FALSE,
                           !.media.late = Mistaken]
    IN  IF media.url = url /\ media.state \notin {"", "error"} THEN {Stage}
        ELSE IF ThinksIdle(w) \/ media.state = "preparing" THEN {HandleVideoPrepare(w, url)}
        ELSE Resets([w EXCEPT !.media.pendingPrepare = TRUE])

\* Mutant: the reset is not followed by a prepare.
SetVideoUrl_ForgetsPrepare(url) ==
    LET w == [Stage EXCEPT !.media.url = url, !.media.pendingPrepare = FALSE,
                           !.media.late = Mistaken]
    IN  IF media.url = url /\ media.state \notin {"", "error"} THEN {Stage}
        ELSE IF ThinksIdle(w) THEN {HandleVideoPrepare(w, url)}
        ELSE Resets(w)

\* setVideoUrl(): the outcomes. A player that is known to be busy is reset and
\* prepared when it reports that it is idle.
SetVideoUrl(url) ==
    LET w == [Stage EXCEPT !.media.url = url, !.media.pendingPrepare = FALSE,
                           !.media.late = Mistaken]
    IN  IF media.url = url /\ media.state \notin {"", "error"} THEN {Stage}
        ELSE IF ThinksIdle(w) THEN {HandleVideoPrepare(w, url)}
        ELSE Resets([w EXCEPT !.media.pendingPrepare = TRUE])

VideoStateChange(w, state) ==
    CASE state = "idle" /\ w.media.pendingPrepare /\ window.current # NoWindow ->
            HandleVideoPrepare([w EXCEPT !.media.pendingPrepare = FALSE], w.media.url)
      [] state = "prepared" /\ w.media.autoPlay -> Play(w)
      [] OTHER -> w

\* The play button. A completed video is first sought back to its start.
ClickVideo(w) == IF w.media.playing THEN Pause(w) ELSE Play(w)

\* onSurfaceCreatedCB() and onSurfaceDestroyedCB().
SurfaceCreated ==
    /\ media.alive /\ media.kind = "video" /\ window.made < MaxWindows /\ window.current = NoWindow
    /\ window' = [window EXCEPT !.current = window.made + 1, !.made = @ + 1]
    /\ Plays(IF media.url = NoSource THEN Stage ELSE Prepare(Stage, media.url))

SurfaceDestroyed ==
    /\ media.alive /\ window.current # NoWindow
    /\ window' = [window EXCEPT !.current = NoWindow]
    /\ UNCHANGED <<media, player, reports>>
-----------------------------------------------------------------------------
(* AudioPlayerComponent. *)

HandleAudioPrepare(w, url) == Prepare(w, url)

\* setAudioUrl(): the reset is not waited for. When the player does not take the
\* url the component shows an error until the next report.
SetAudioUrl(url) ==
    LET known == {"playing", "paused", "prepared", "completed", "error"}
        w == [Stage EXCEPT !.media.url = url, !.media.playing = FALSE, !.media.pendingPlay = FALSE,
                           !.media.late = media.state \notin known /\ player.state # "idle"]
        Prepared(x) == IF Takes(x, url)
                       THEN HandleAudioPrepare([x EXCEPT !.media.state = "preparing"], url)
                       ELSE [x EXCEPT !.media.state = "error"]
    IN  IF media.url = url THEN {Stage}
        ELSE {Prepared(x) : x \in IF media.state \in known THEN Resets(w) ELSE {w}}

AudioStateChange(w, state) ==
    CASE state \in {"idle", "error"} -> [w EXCEPT !.media.pendingPlay = FALSE]
      [] state = "prepared" /\ w.media.pendingPlay ->
            LET x == Play([w EXCEPT !.media.pendingPlay = FALSE])
            IN  IF x.player.state = "playing" THEN x ELSE [x EXCEPT !.media.state = "error"]
      [] OTHER -> w

\* The play button: an idle component prepares what it has and will play it.
ClickAudio(w) ==
    CASE w.media.playing -> Pause(w)
      [] ~w.media.playing /\ w.media.state \in {"completed", "prepared", "paused"} -> Play(w)
      [] ~w.media.playing /\ ThinksIdle(w) /\ w.media.url # NoSource ->
            HandleAudioPrepare([w EXCEPT !.media.pendingPlay = TRUE, !.media.state = "preparing"], w.media.url)
      [] OTHER -> w
-----------------------------------------------------------------------------
(* onUpdateProperties(), clicks, the looper, destroy(). *)

SetUrl(url) ==
    /\ media.alive /\ window.sources < MaxSources
    /\ window' = [window EXCEPT !.sources = @ + 1]
    /\ \E w \in IF media.kind = "video" THEN SetVideoUrl(url) ELSE SetAudioUrl(url) : Plays(w)

Click ==
    /\ media.alive /\ window.clicks < MaxClicks
    /\ window' = [window EXCEPT !.clicks = @ + 1]
    /\ Plays(IF media.kind = "video" THEN ClickVideo(Stage) ELSE ClickAudio(Stage))

\* What handleStateChange() and the error callback write down of every report.
\* VideoComponent leaves m_isPlaying alone while it is preparing.
Told(w, state) ==
    [w EXCEPT !.media.state = IF state = "initialized" THEN "preparing" ELSE state,
              !.media.playing = IF w.media.kind = "video" /\ state \in {"initialized", "prepared"} THEN @
                                ELSE state = "playing"]

\* A posted report. m_uiTasksEnabled stops those that come after the release.
RunReport ==
    /\ reports # <<>>
    /\ LET state == Head(reports)
           w == Told([Stage EXCEPT !.reports = Tail(@)], state)
       IN  IF ~media.alive THEN reports' = Tail(reports) /\ UNCHANGED <<media, player>>
           ELSE Plays(IF media.kind = "video" THEN VideoStateChange(w, state) ELSE AudioStateChange(w, state))
    /\ UNCHANGED window

\* destroy() and the destructor: releasePlayer().
DestroyMedia ==
    /\ media.alive
    /\ media' = [media EXCEPT !.alive = FALSE, !.playing = FALSE, !.pendingPlay = FALSE, !.state = "destroyed"]
    /\ player' = [state |-> "released", source |-> NoSource]
    /\ window' = [window EXCEPT !.current = NoWindow]
    /\ UNCHANGED reports

MediaNext ==
    \/ \E url \in Sources : SetUrl(url)
    \/ Click \/ RunReport \/ DestroyMedia
    \/ SurfaceCreated \/ SurfaceDestroyed
    \/ PlayerResets \/ PlayerPrepares \/ PlayerCompletes \/ PlayerFails

\* The main looper runs, and the player carries out what it was asked.
MediaFairness == WF_mediaVars(RunReport) /\ WF_mediaVars(PlayerResets) /\ WF_mediaVars(PlayerPrepares)

MediaSpec == MediaInit /\ [][MediaNext]_mediaVars /\ MediaFairness
-----------------------------------------------------------------------------
PlayerStates == {"idle", "preparing", "prepared", "playing", "paused", "completed", "error",
                 "resetting", "released"}

MediaTypeOK ==
    /\ media.kind \in MediaKinds /\ media.url \in Sources \cup {NoSource}
    /\ media.state \in {"", "destroyed"} \cup (PlayerStates \ {"resetting", "released"})
    /\ player.state \in PlayerStates /\ player.source \in Sources \cup {NoSource}
    /\ reports \in Seq(PlayerStates \cup {"initialized"}) /\ window.current \in 0..window.made

\* The player never has another source than the component's url, except while
\* it is being reset and when that url came too late to reset it; and once the
\* looper is empty the button shows "pause" exactly while the player plays.
\* The type invariant is part of it.
PlaysItsUrl ==
    /\ MediaTypeOK
    /\ media.alive /\ player.state # "resetting" =>
          /\ player.source \in {NoSource, media.url} \/ media.late
          /\ reports = <<>> => media.playing = (player.state = "playing")

\* A url that is given last is taken up: by a video that has a window, by an
\* audio component at once or when it is idle again and clicked on, which never
\* waits for ever. Urls that came too late are those of PlaysItsUrl; one that
\* the player refuses leaves an audio component waiting.
TakenUp ==
    media.url \in {NoSource} \cup Refused \/ media.late \/ ~media.alive \/
        IF media.kind = "video" THEN window.current = NoWindow \/ player.source = media.url
        ELSE media.state # "preparing" /\ (player.source = media.url \/ media.state \in {"idle", "error"})
LastUrlIsTakenUp == <>[]TakenUp
=============================================================================
