------------------------------ MODULE Autoload ------------------------------
(* What ViaMyBox starts by itself: the flags of via.conf, the menus of      *)
(* via-setup.sh that switch them, the init script mjpg-streamerd.sh that    *)
(* they enable, and the boot jobs of viamyboxd that read them.              *)
(*                                                                          *)
(* The menus are one bash process.  An entry of a menu is a list of edits,  *)
(* each an action, so that a power cut or a closed terminal can come        *)
(* between two of them.  No other program switches these flags, so what an  *)
(* entry checks on its way is known when it starts.  The menus are used     *)
(* when the boot jobs are over.                                             *)
EXTENDS Integers, Sequences

CONSTANTS Leftovers,   \* what the other entries of the gstreamer menu leave
                       \* in PARAM; "" is the answer Enter
          MaxJobs      \* bound: `update-rc.d remove &' running at a time

ASSUME LeftoversOK == {"autoload", "noautoload"} \cap Leftovers = {}
ASSUME MaxJobsOK   == MaxJobs \in Nat \ {0}

Mjpg  == "MJPGStreamer"
Snap  == "snapshotmjpg.sh"
Rec   == "mjpg-streamer-rec-video.sh"
AV    == "GstreamerRecAV"
Audio == "GstreamerRecAudio"
Hourly == "startFfmpegFromSnapshots"
Flags == {Mjpg, Snap, Rec, AV, Audio, Hourly}

VARIABLES conf,        \* via.conf: the value of each flag
          rc,          \* is mjpg-streamerd.sh enabled?
          jobs,        \* background `update-rc.d ... remove &' still running
          menu,        \* "none", "mjpg" (timeElapsed) or "gst" (gstreamerAV)
          PARAM,       \* the shell variable, global in the gstreamer menu
          todo,        \* edits left of the entry that was chosen
          lost,        \* ghost: what was ever cut short, "entry" or "removal"
          boot,        \* where each job of viamyboxd is
          runs         \* recorders and servers that are running

menuvars == <<menu, PARAM, todo>>
bootvars == <<boot, runs>>
vars == <<conf, rc, jobs, menuvars, lost, bootvars>>

BootJobs == {"snapshots", "recvideo", "av", "audio"}
Booting  == \E b \in BootJobs : boot[b] # "done"

\* The via.conf of the repository; installation disables mjpg-streamerd.sh.
Init == /\ conf = [f \in Flags |-> IF f = Hourly THEN "no" ELSE "noautoload"]
        /\ rc = FALSE /\ jobs = 0
        /\ menu = "none" /\ PARAM = "" /\ todo = <<>>
        /\ lost = {}
        /\ boot = [b \in BootJobs |-> "done"] /\ runs = {}

----------------------------------------------------------------------------
(* The edits.                                                               *)

Set(f, v) == [do |-> "set", flag |-> f, to |-> v]   \* FirstSubstInFile2
RemoveRc  == [do |-> "remove"]     \* update-rc.d mjpg-streamerd.sh remove &
Defaults  == [do |-> "defaults"]   \* update-rc.d mjpg-streamerd.sh defaults

\* What an entry does to a flag it excludes, in rec-mjpg-func.sh.
Clear(f) == IF conf[f] # "noautoload" THEN <<Set(f, "noautoload")>> ELSE <<>>

\* After an edit the next one is due.  When the last one is done, the menu is
\* entered again, and the gstreamer menu then sets PARAM.
Goon == /\ todo' = Tail(todo)
        /\ PARAM' = IF Len(todo) = 1 /\ menu = "gst" THEN "autoload" ELSE PARAM
        /\ UNCHANGED <<menu, lost, bootvars>>

Due(what) == todo # <<>> /\ Head(todo).do = what

SetFlag ==
    /\ Due("set") /\ Goon
    /\ conf' = [conf EXCEPT ![Head(todo).flag] = Head(todo).to]
    /\ UNCHANGED <<rc, jobs>>

RcDefaults ==
    /\ Due("defaults") /\ Goon
    /\ rc' = TRUE
    /\ UNCHANGED <<conf, jobs>>

RcRemove ==
    /\ Due("remove") /\ Goon
    /\ jobs < MaxJobs /\ jobs' = jobs + 1
    /\ UNCHANGED <<conf, rc>>

\* A background removal takes effect, whatever was done since it was started.
JobEnds ==
    /\ jobs > 0
    /\ jobs' = jobs - 1 /\ rc' = FALSE
    /\ UNCHANGED <<conf, menuvars, lost, bootvars>>

----------------------------------------------------------------------------
(* The menus.                                                               *)

Enter(m) ==
    /\ menu = "none" /\ ~Booting
    /\ menu' = m
    /\ PARAM' = IF m = "gst" THEN "autoload" ELSE PARAM
    /\ UNCHANGED <<conf, rc, jobs, todo, lost, bootvars>>

Quit ==
    /\ menu # "none" /\ todo = <<>>
    /\ menu' = "none"
    /\ UNCHANGED <<conf, rc, jobs, PARAM, todo, lost, bootvars>>

\* An entry is chosen in menu m; its edits are done one after the other.
Choose(m, edits) ==
    /\ menu = m /\ todo = <<>>
    /\ todo' = edits
    /\ PARAM' = IF edits = <<>> /\ m = "gst" THEN "autoload" ELSE PARAM
    /\ UNCHANGED <<conf, rc, jobs, menu, lost, bootvars>>

On(f) == conf[f] = "autoload"

\* Mutated form: the service stays enabled.
swichMJPGStreamerAutoloadNoRemove ==
    Choose("mjpg",
        IF On(Mjpg) THEN <<Set(Mjpg, "noautoload")>>
        ELSE <<Defaults, Set(Mjpg, "autoload")>> \o Clear(AV))

swichMJPGStreamerAutoload ==
    Choose("mjpg",
        IF On(Mjpg) THEN <<RemoveRc, Set(Mjpg, "noautoload")>>
        ELSE <<Defaults, Set(Mjpg, "autoload")>> \o Clear(AV))

\* Mutated form: the snapshots are forgotten.
swichRecMJPGStreamerFFMPEGKeep ==
    Choose("mjpg",
        IF On(Rec)
        THEN <<Set(Rec, "noautoload"), Set(Mjpg, "noautoload"), RemoveRc>>
        ELSE <<Set(Rec, "autoload"), Set(Mjpg, "autoload"), Defaults>>
             \o Clear(AV))

swichRecMJPGStreamerFFMPEG ==
    Choose("mjpg",
        IF On(Rec)
        THEN <<Set(Rec, "noautoload"), Set(Mjpg, "noautoload"), RemoveRc>>
        ELSE <<Set(Rec, "autoload"), Set(Mjpg, "autoload"), Defaults>>
             \o Clear(Snap) \o Clear(AV))

swichRecSnapshotAutoload ==
    Choose("mjpg",
        IF On(Snap)
        THEN <<Set(Snap, "noautoload"), Set(Mjpg, "noautoload"), RemoveRc>>
        ELSE <<Set(Snap, "autoload"), Set(Mjpg, "autoload"), Defaults>>
             \o Clear(Rec) \o Clear(AV))

\* Mutated form: the flag gets the values of the other flags.
swichStartFfmpegFromSnapshotsAuto ==
    Choose("mjpg", <<Set(Hourly, IF conf[Hourly] = "autoload" THEN "noautoload"
                                 ELSE "autoload")>>)

swichStartFfmpegFromSnapshots ==
    Choose("mjpg",
           <<Set(Hourly, IF conf[Hourly] = "yes" THEN "no" ELSE "yes")>>)

\* changeCamera and rotationFileInSec leave their own parameter in PARAM.
SetParam ==
    /\ menu = "gst" /\ todo = <<>>
    /\ PARAM' \in Leftovers
    /\ UNCHANGED <<conf, rc, jobs, menu, todo, lost, bootvars>>

\* grep "$VAR" via.conf | grep -q "$PARAM"
Matches(f) == PARAM = "" \/ conf[f] = PARAM

\* checkMutuallyProcessesAV: each conflicting flag is cleared if the user
\* agrees; the first no ends the entry, with what was cleared before.
Disable(f) == IF ~Matches(f) THEN <<>>
              ELSE IF f = Mjpg THEN <<RemoveRc, Set(f, "noautoload")>>
              ELSE <<Set(f, "noautoload")>>

swichGstreamerRecAVAutoload ==
    IF Matches(AV)
    THEN Choose("gst", <<Set(AV, "noautoload")>>)
    ELSE \/ Choose("gst", Disable(Snap) \o Disable(Rec) \o Disable(Mjpg)
                          \o <<Set(AV, PARAM), Set(Audio, "noautoload")>>)
         \/ Matches(Snap) /\ Choose("gst", <<>>)
         \/ Matches(Rec) /\ Choose("gst", Disable(Snap))
         \/ Matches(Mjpg) /\ Choose("gst", Disable(Snap) \o Disable(Rec))

swichGstreamerRecAAutoload ==
    Choose("gst", IF Matches(Audio) THEN <<Set(Audio, "noautoload")>>
                  ELSE <<Set(Audio, PARAM), Set(AV, "noautoload")>>)

\* The terminal is closed while an entry is at work.
Hangup ==
    /\ todo # <<>>
    /\ lost' = lost \cup {"entry"}
    /\ menu' = "none" /\ PARAM' = "" /\ todo' = <<>>
    /\ UNCHANGED <<conf, rc, jobs, bootvars>>

----------------------------------------------------------------------------
(* The boot: the init scripts, then viamyboxd's job, which starts the jobs  *)
(* below in the background.                                                 *)

Reboot ==
    /\ ~Booting
    /\ lost' = lost \cup (IF todo # <<>> THEN {"entry"} ELSE {})
                      \cup (IF jobs > 0 THEN {"removal"} ELSE {})
    /\ menu' = "none" /\ PARAM' = "" /\ todo' = <<>>
    /\ jobs' = 0
    /\ runs' = IF rc THEN {"mjpg"} ELSE {}
    /\ boot' = [b \in BootJobs |-> "read"]
    /\ UNCHANGED <<conf, rc>>

BootStep(b, from, to) ==
    /\ boot[b] = from /\ boot' = [boot EXCEPT ![b] = to]
    /\ UNCHANGED <<conf, rc, jobs, menuvars, lost>>

FlagOf(b) == CASE b = "snapshots" -> Snap [] b = "recvideo" -> Rec
               [] b = "av" -> AV [] b = "audio" -> Audio

ReadFlag(b) == /\ BootStep(b, "read", IF On(FlagOf(b)) THEN "check" ELSE "done")
               /\ UNCHANGED runs

\* Mutated form: the test is the wrong way round.
SnapCheckWrong ==
    /\ BootStep("snapshots", "check",
                IF "mjpg" \in runs THEN "mjpg" ELSE "start")
    /\ UNCHANGED runs

\* RecSnapshotAutoload calls start_mjpgstrm.sh: is mjpg_streamer running?
SnapCheck ==
    /\ BootStep("snapshots", "check",
                IF "mjpg" \in runs THEN "start" ELSE "mjpg")
    /\ UNCHANGED runs

\* service mjpg-streamerd stop && service mjpg-streamerd start
SnapMjpg == BootStep("snapshots", "mjpg", "start") /\ runs' = runs \cup {"mjpg"}

SnapStart == /\ BootStep("snapshots", "start", "done")
             /\ runs' = runs \cup {"snapshots"}

\* RecFfmpegMjpgStreamerAutoload starts its loop, and no server for it.
RecStart == /\ BootStep("recvideo", "check", "done")
            /\ runs' = runs \cup {"recvideo"}

\* startGstrmAV: stop an audio recording (there is no terminal: the empty
\* answer is yes), then the server, then record.
AvCheck == BootStep("av", "check", "mjpg") /\ runs' = runs \ {"av", "audio"}

\* Mutated form: the server is left running.
AvCheckMjpgKeep == BootStep("av", "mjpg", "start") /\ UNCHANGED runs

AvCheckMjpg == /\ BootStep("av", "mjpg",
                           IF "mjpg" \in runs THEN "stop" ELSE "start")
               /\ UNCHANGED runs
AvStopMjpg  == BootStep("av", "stop", "start") /\ runs' = runs \ {"mjpg"}
AvStart     == BootStep("av", "start", "done") /\ runs' = runs \cup {"av"}

\* startGstrmA stops a recording with video first.
AudioCheck == /\ BootStep("audio", "check", "start")
              /\ runs' = runs \ {"av", "audio"}
AudioStart == BootStep("audio", "start", "done") /\ runs' = runs \cup {"audio"}

----------------------------------------------------------------------------
EditNext == SetFlag \/ RcDefaults \/ RcRemove \/ JobEnds

MenuNext == \/ Enter("mjpg") \/ Enter("gst") \/ Quit \/ Hangup \/ SetParam
            \/ swichMJPGStreamerAutoload \/ swichRecMJPGStreamerFFMPEG
            \/ swichRecSnapshotAutoload \/ swichStartFfmpegFromSnapshots
            \/ swichGstreamerRecAVAutoload \/ swichGstreamerRecAAutoload

BootNext == \/ \E b \in BootJobs : ReadFlag(b)
            \/ SnapCheck \/ SnapMjpg \/ SnapStart \/ RecStart
            \/ AvCheck \/ AvCheckMjpg \/ AvStopMjpg \/ AvStart
            \/ AudioCheck \/ AudioStart

Next == EditNext \/ MenuNext \/ Reboot \/ BootNext

\* A boot job is a process that waits for nothing.
Spec == Init /\ [][Next]_vars /\ WF_vars(BootNext)

----------------------------------------------------------------------------
Values == {"autoload", "noautoload"} \cup Leftovers
Edits == [do : {"set"}, flag : Flags, to : Values \cup {"yes", "no"}]
         \cup {RemoveRc, Defaults}

TypeOK ==
    /\ \A f \in Flags \ {Hourly} : conf[f] \in Values
    /\ conf[Hourly] \in {"yes", "no"}
    /\ rc \in BOOLEAN /\ jobs \in 0 .. MaxJobs
    /\ menu \in {"none", "mjpg", "gst"}
    /\ PARAM \in {"", "autoload"} \cup Leftovers
    /\ Len(todo) <= 6 /\ \A i \in 1 .. Len(todo) : todo[i] \in Edits
    /\ lost \subseteq {"entry", "removal"}
    /\ boot \in [BootJobs -> {"read", "check", "mjpg", "stop", "start", "done"}]
    /\ runs \subseteq {"mjpg", "snapshots", "recvideo", "av", "audio"}

\* "Mutually exclusive modes": between two entries, whatever was switched in
\* whatever order and answered in whatever way, no two recorders that
\* exclude each other are set to start, unless an entry was cut short.
Exclusive ==
    todo = <<>> /\ "entry" \notin lost =>
        /\ ~(On(Snap) /\ On(Rec))
        /\ On(AV) => ~(On(Snap) \/ On(Rec) \/ On(Mjpg) \/ On(Audio))

\* The service is not enabled behind the back of the flag the menu shows:
\* once the background removals are over, it starts at boot only if the flag
\* says so.
RcFollowsFlag ==
    todo = <<>> /\ jobs = 0 /\ lost = {} /\ rc => On(Mjpg)

\* The camera has one user: at boot mjpg_streamer and the recorder of video
\* and sound never run together, unless an entry was cut short before.
CameraExclusive == "entry" \notin lost => ~({"mjpg", "av"} \subseteq runs)

\* Each boot ends with the recorders running that are set to start, those of
\* them that need the server (and start it) with the server.
BootRuns ==
    (Booting /\ "entry" \notin lost) ~>
        /\ ~Booting
        /\ On(Snap)  => {"snapshots", "mjpg"} \subseteq runs
        /\ On(Rec)   => "recvideo" \in runs
        /\ On(AV)    => "av" \in runs
        /\ On(Audio) => "audio" \in runs
=============================================================================
