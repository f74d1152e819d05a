----------------------------- MODULE Recording -----------------------------
(* Recording at run time: the scripts behind the web pages and the entries  *)
(* of the menus, which start and stop recorders, and the service viamyboxd, *)
(* which starts them at boot.  They find each other's processes with ps,    *)
(* and the service with pid files; they run concurrently, and processes end *)
(* some time after they are told to.                                        *)
(*                                                                          *)
(* `ps aux | grep X | wc -l' counts the grep as well: -eq 1 is "none" and   *)
(* -gt 1 is "some".  mjpg-streamer-rec-video.sh (here: loop) runs ffmpeg    *)
(* again and again.  There are two programs that record video and sound: the*)
(* menus start one of them, the web pages the one they were set up for, and *)
(* `grep via-rec-av' finds both.  Which recorders start at boot is taken    *)
(* from Autoload, whose Exclusive keeps the two of them apart.              *)
EXTENDS Naturals, Sequences, FiniteSets

CONSTANTS Shells,      \* shells that run scripts at the same time
          MaxPid,      \* bound: processes at one time
          MaxCommands, \* bound: commands that users give
          Commands,    \* the commands they give
          WebAv        \* EXECFILE of the web pages

Execs == {"c270", "c910"}     \* /sbin/via-rec-av-c270 and -c910-2

ASSUME WebAvOK    == WebAv \in Execs
ASSUME ShellsOK   == IsFiniteSet(Shells) /\ Shells # {}
ASSUME BoundsOK   == MaxPid \in Nat \ {0} /\ MaxCommands \in Nat
ASSUME CommandsOK ==
    Commands \subseteq {"start_mjpgstrm", "startMJPGStreamer", "stop_mjpgstrm",
        "timelapse_start", "startRecSnapshots", "timelapse_stop",
        "rec_video_start", "startrecmjpg", "stoprecmjpg",
        "via_rec_av_start", "via_rec_av_stop", "startGstrmAV",
        "via_rec_audio_start", "startGstrmA", "via_rec_audio_stop",
        "service_start", "service_stop"}

Pids  == 1 .. MaxPid
Kinds == {"mjpg", "loop", "ffmpeg", "snap", "audio", "job"} \cup Execs

VARIABLES auto,     \* flags of via.conf that say autoload
          kind,     \* what each process is, "none" if there is no such one
          parent,   \* the loop that an ffmpeg was started by, or 0
          told,     \* processes that have been told to end and will
          lockFile, \* the pid in JOB_LOCK_FILE, 0 if there is no such file
          snapFile, \* the same for snapshotmjpg.pid
          recFile,  \* and for mjpg-streamer-rec-video.pid
          cron,     \* the lines for mkvid-mov.sh in the crontab
          shell,    \* each shell: the command it runs, the steps that are
                    \* left of it (todo), the shell variable ps or the pid
                    \* in $!, statusConfirm, and a ghost: has another script
                    \* run at the same time (overlap)?
          commands  \* ghost: commands given

procvars  == <<kind, parent, told>>
filevars  == <<lockFile, snapFile, recFile, cron>>
vars      == <<auto, procvars, filevars, shell, commands>>

Running(k) == {p \in Pids : kind[p] = k}
Found(k)   == IF k = "av" THEN UNION {Running(e) : e \in Execs} ELSE Running(k)

----------------------------------------------------------------------------
(* The scripts, as lists of steps.                                          *)

IfNone(k, body)   == [do |-> "none", arg |-> k, body |-> body]
IfSome(k, body)   == [do |-> "some", arg |-> k, body |-> body]
Manual(body)    == [do |-> "manual", arg |-> "mjpg", body |-> body]
Agreed(body)    == [do |-> "agreed", arg |-> "", body |-> body]
NoFile(f, body) == [do |-> "nofile", arg |-> f, body |-> body]
File(f, body)   == [do |-> "file", arg |-> f, body |-> body]
Do(what, k)     == [do |-> what, arg |-> k, body |-> <<>>]

\* start_mjpgstrm.sh and stop_mjpgstrm.sh
StartServer == IfNone("mjpg", <<Do("start", "mjpg")>>)
StopServer  == IfSome("mjpg", <<Do("end", "mjpg")>>)

\* Is MJPGStreamer set to noautoload?  Then it is stopped with its users.
StopServerIfManual == Manual(<<StopServer>>)

\* checkMutuallyProc: "Confirm Deactivation?"  It looks for both recorders and
\* ends the one of the menus.
CheckMutually == IfSome("av", <<Do("ask", ""), Agreed(<<Do("end", "c270")>>)>>)

\* checkMutuallyRunningProc: after a refusal nothing more is asked.
CheckMutuallyRunning ==
    <<CheckMutually,
      Agreed(<<IfSome("audio", <<Do("ask", ""),
                               Agreed(<<Do("end", "audio")>>)>>)>>)>>

KillSnapshots == <<Do("list", "snap"), Do("kill", ""), Do("rmcronjob", "")>>

\* Mutated form: ffmpeg is killed first, then the loop.
StopRecMjpgOrder ==
    <<Do("list", "ffmpeg"), Do("kill", ""), Do("list", "loop"),
      Do("kill", ""), StopServerIfManual>>

\* stoprecmjpg: the loop first, which would start ffmpeg again.
StopRecMjpg ==
    <<Do("list", "loop"), Do("kill", ""), Do("list", "ffmpeg"),
      Do("kill", ""), StopServerIfManual>>

StartSnapshots ==
    <<StartServer, Do("addcronjob", ""), Do("start", "snap")>>

\* Mutated form: the server is left running.
AvStartKeep == <<IfNone(WebAv, <<Do("start", WebAv)>>)>>

\* via_rec_av_start.sh looks for its own recorder.
AvStart == <<IfSome("mjpg", <<Do("end", "mjpg")>>),
             IfNone(WebAv, <<Do("start", WebAv)>>)>>

\* startGstrmAV: the recorder is started whatever the answers were.
StartGstrmAV ==
    CheckMutuallyRunning
    \o <<Agreed(<<IfSome("mjpg", <<Do("end", "mjpg")>>)>>), Do("start", "c270")>>

StartGstrmA ==
    CheckMutuallyRunning
    \o <<Agreed(<<IfNone("audio", <<Do("start", "audio")>>)>>)>>

\* do_start, run_job and the two jobs that record from the server.
ServiceStart ==
    <<NoFile("lock", <<Do("start", "job"), Do("lock", "")>>)>>
    \o IF "snap" \in auto
         THEN <<NoFile("snap", StartSnapshots \o <<Do("write", "snap")>>)>>
         ELSE <<>>
    \o IF "loop" \in auto
         THEN <<NoFile("rec", <<Do("start", "loop"), Do("write", "rec")>>)>>
         ELSE <<>>

\* Mutated form: only the children of the loop are killed.
ServiceStopChildren ==
    <<File("lock", <<Do("read", "lock"), Do("term", "")>>),
      File("snap", <<Do("remove", "snap"), Do("term", "")>>),
      File("rec",  <<Do("read", "rec"), Do("remove", "rec"),
                     Do("killchildren", "")>>)>>

\* do_stop.  What is killed for snapshotmjpg.pid is the process in _pid,
\* which is still the one of JOB_LOCK_FILE.
ServiceStop ==
    <<File("lock", <<Do("read", "lock"), Do("term", "")>>),
      File("snap", <<Do("remove", "snap"), Do("term", "")>>),
      File("rec",  <<Do("read", "rec"), Do("remove", "rec"),
                     Do("killchildren", ""), Do("term", "")>>)>>

StartMJPGStreamer == <<CheckMutually, Agreed(<<StartServer>>)>>

\* timelapse_start.sh and startRecSnapshots.  They end ffmpeg, and not the
\* loop that starts it.
TimelapseStart == <<IfSome("ffmpeg", <<Do("end", "ffmpeg")>>),
                    IfNone("snap", StartSnapshots)>>
StartRecSnapshots ==
    <<CheckMutually,
      Agreed(<<IfSome("ffmpeg", <<Do("end", "ffmpeg")>>)>> \o StartSnapshots)>>

TimelapseStop == <<StopServerIfManual>> \o KillSnapshots

\* via_rec_video_ffmpeg.sh start, and startrecmjpg of the menu, which does
\* not look for a recording that runs.
RecVideoStart ==
    <<IfNone("ffmpeg", <<IfSome("snap", <<Do("end", "snap")>>),
                         StartServer, Do("start", "loop")>>)>>
StartRecMjpg ==
    <<CheckMutually,
      Agreed(KillSnapshots \o <<StartServer, Do("start", "loop")>>)>>

AvStop     == <<IfSome(WebAv, <<Do("end", WebAv)>>)>>
AudioStart == <<IfNone("audio", <<Do("start", "audio")>>)>>
AudioStop  == <<IfSome("audio", <<Do("end", "audio")>>)>>

Script(c) ==
    CASE c = "start_mjpgstrm"      -> <<StartServer>>
      [] c = "startMJPGStreamer"   -> StartMJPGStreamer
      [] c = "stop_mjpgstrm"       -> <<StopServer>>
      [] c = "timelapse_start"     -> TimelapseStart
      [] c = "startRecSnapshots"   -> StartRecSnapshots
      [] c = "timelapse_stop"      -> TimelapseStop
      [] c = "rec_video_start"     -> RecVideoStart
      [] c = "startrecmjpg"        -> StartRecMjpg
      [] c = "stoprecmjpg"         -> StopRecMjpg
      [] c = "via_rec_av_start"    -> AvStart
      [] c = "via_rec_av_stop"     -> AvStop
      [] c = "startGstrmAV"        -> StartGstrmAV
      [] c = "via_rec_audio_start" -> AudioStart
      [] c = "startGstrmA"         -> StartGstrmA
      [] c = "via_rec_audio_stop"  -> AudioStop
      [] c = "service_start"       -> ServiceStart
      [] c = "service_stop"        -> ServiceStop

Prompt == [command |-> "", todo |-> <<>>, ps |-> {}, statusConfirm |-> TRUE,
           overlap |-> FALSE]
Runs(c, others) == [Prompt EXCEPT !.command = c, !.todo = Script(c),
                                  !.overlap = others]

\* At boot one of the two recorders at most is set to start, and the service
\* is started.
Boot(s) == s = CHOOSE x \in Shells : TRUE

Init == /\ auto \in {{}, {"mjpg"}, {"snap"}, {"loop"}}
        /\ kind = [p \in Pids |-> "none"] /\ parent = [p \in Pids |-> 0]
        /\ told = {}
        /\ lockFile = 0 /\ snapFile = 0 /\ recFile = 0 /\ cron = 0
        /\ shell = [s \in Shells |-> IF Boot(s) THEN Runs("service_start", FALSE)
                                                ELSE Prompt]
        /\ commands = 0

----------------------------------------------------------------------------
(* One step of a shell.                                                     *)

Idle(s)     == shell[s].todo = <<>>
Next1(s)    == shell[s].todo[1]
Is(s, what) == ~Idle(s) /\ Next1(s).do = what
Ps(s)       == shell[s].ps

\* The shell goes on with the steps after this one, body first, or it is
\* done; ps and statusConfirm get these values.
Step(s, body, ps, yes) ==
    LET rest == body \o Tail(shell[s].todo)
    IN  shell' = [shell EXCEPT ![s] =
                     IF rest = <<>> THEN Prompt
                     ELSE [@ EXCEPT !.todo = rest, !.ps = ps,
                                    !.statusConfirm = yes]]

Then(s, body)   == Step(s, body, Ps(s), shell[s].statusConfirm)
ThenPs(s, ps)   == Step(s, <<>>, ps, shell[s].statusConfirm)

\* A user gives a command; the web server or a terminal runs it at once.
Give(s) ==
    /\ Idle(s) /\ commands < MaxCommands
    /\ LET others == {t \in Shells \ {s} : ~Idle(t)}
       IN  \E c \in Commands :
              shell' = [t \in Shells |->
                           IF t = s THEN Runs(c, others # {})
                           ELSE [shell[t] EXCEPT !.overlap = @ \/ t \in others]]
    /\ commands' = commands + 1
    /\ UNCHANGED <<auto, procvars, filevars>>

\* ps aux | grep | wc -l, the test of it, and `if' on a file or a variable.
FileOf(f) == CASE f = "lock" -> lockFile [] f = "snap" -> snapFile
               [] f = "rec" -> recFile

Test(s) ==
    LET i == Next1(s)
    IN  CASE i.do = "none"   -> Found(i.arg) = {}
          [] i.do = "some"   -> Found(i.arg) # {}
          [] i.do = "manual" -> "mjpg" \notin auto
          [] i.do = "agreed" -> shell[s].statusConfirm
          [] i.do = "nofile" -> FileOf(i.arg) = 0
          [] i.do = "file"   -> FileOf(i.arg) # 0

If(s) ==
    /\ ~Idle(s)
    /\ Next1(s).do \in {"none", "some", "manual", "agreed", "nofile", "file"}
    /\ Then(s, IF Test(s) THEN Next1(s).body ELSE <<>>)
    /\ UNCHANGED <<auto, procvars, filevars, commands>>

\* SubmitYN
Ask(s) ==
    /\ Is(s, "ask")
    /\ \E yes \in BOOLEAN : Step(s, <<>>, Ps(s), yes)
    /\ UNCHANGED <<auto, procvars, filevars, commands>>

\* Pids are not used again while somebody remembers them.
FreePids == {p \in Running("none") : /\ p \notin {lockFile, snapFile, recFile}
                                     /\ \A s \in Shells : p \notin Ps(s)}
NewPid == CHOOSE p \in FreePids : \A q \in FreePids : p <= q

\* A process is started in the background.  mjpg-streamerd.sh does not start
\* a server while there is one, also one that is about to end.
Start(s) ==
    /\ Is(s, "start")
    /\ IF Next1(s).arg = "mjpg" /\ Running("mjpg") # {}
         THEN Then(s, <<>>) /\ UNCHANGED kind
         ELSE /\ FreePids # {}
              /\ kind' = [kind EXCEPT ![NewPid] = Next1(s).arg]
              /\ ThenPs(s, {NewPid})
    /\ UNCHANGED <<auto, parent, told, filevars, commands>>

\* echo $! > the pid file
Write(s) ==
    /\ Is(s, "write") /\ Then(s, <<>>)
    /\ LET pid == CHOOSE p \in Ps(s) : TRUE
       IN  IF Next1(s).arg = "snap"
             THEN snapFile' = pid /\ UNCHANGED recFile
             ELSE recFile' = pid /\ UNCHANGED snapFile
    /\ UNCHANGED <<auto, procvars, lockFile, cron, commands>>

\* run_job looks at the lock file again and makes it, or exits: then its
\* trap removes the file, whoever made it.
Lock(s) ==
    /\ Is(s, "lock")
    /\ IF lockFile = 0
         THEN /\ lockFile' = CHOOSE p \in Ps(s) : TRUE
              /\ Then(s, <<>>) /\ UNCHANGED kind
         ELSE /\ lockFile' = 0
              /\ kind' = [p \in Pids |-> IF p \in Ps(s) THEN "none"
                                         ELSE kind[p]]
              /\ shell' = [shell EXCEPT ![s] = Prompt]
    /\ UNCHANGED <<auto, parent, told, snapFile, recFile, cron, commands>>

\* ps -fu root | grep, for a list of pids; _pid=$(cat file)
List(s) ==
    /\ Is(s, "list") /\ ThenPs(s, Running(Next1(s).arg))
    /\ UNCHANGED <<auto, procvars, filevars, commands>>

Read(s) ==
    /\ Is(s, "read") /\ ThenPs(s, {FileOf(Next1(s).arg)} \ {0})
    /\ UNCHANGED <<auto, procvars, filevars, commands>>

Remove(s) ==
    /\ Is(s, "remove") /\ Then(s, <<>>)
    /\ IF Next1(s).arg = "snap" THEN snapFile' = 0 /\ UNCHANGED recFile
                                ELSE recFile' = 0 /\ UNCHANGED snapFile
    /\ UNCHANGED <<auto, procvars, lockFile, cron, commands>>

\* Processes that are gone at once.
Gone(dead) == /\ kind' = [p \in Pids |-> IF p \in dead THEN "none" ELSE kind[p]]
              /\ parent' = [p \in Pids |-> IF p \in dead THEN 0 ELSE parent[p]]
              /\ told' = told \ dead

\* while kill -9 $ps; do sleep 0.1; done
Kill(s) ==
    /\ Is(s, "kill") /\ Then(s, <<>>)
    /\ Gone(Ps(s))
    /\ UNCHANGED <<auto, filevars, commands>>

\* kill_child_processes
KillChildren(s) ==
    /\ Is(s, "killchildren") /\ Then(s, <<>>)
    /\ Gone({p \in Pids : kind[p] = "ffmpeg" /\ parent[p] \in Ps(s)})
    /\ UNCHANGED <<auto, filevars, commands>>

\* kill and killall.  Snapshots end at once; the others handle the signal.
Signal(who) ==
    LET dead == {p \in who : kind[p] = "snap"}
    IN  /\ kind' = [p \in Pids |-> IF p \in dead THEN "none" ELSE kind[p]]
        /\ told' = told \cup {p \in who \ dead : kind[p] # "none"}
        /\ UNCHANGED parent

End(s) ==
    /\ Is(s, "end") /\ Then(s, <<>>)
    /\ Signal(Running(Next1(s).arg))
    /\ UNCHANGED <<auto, filevars, commands>>

Term(s) ==
    /\ Is(s, "term") /\ Then(s, <<>>)
    /\ Signal(Ps(s))
    /\ UNCHANGED <<auto, filevars, commands>>

\* Mutated form: the line is added to the others.
CronTwice(s) ==
    /\ ~Idle(s) /\ Next1(s).do \in {"addcronjob", "rmcronjob"}
    /\ Then(s, <<>>)
    /\ cron' = IF Next1(s).do = "addcronjob" THEN cron + 1 ELSE 0
    /\ UNCHANGED <<auto, procvars, lockFile, snapFile, recFile, commands>>

\* startMovSensorRec.sh: the crontab is written again without the line for
\* mkvid-mov.sh, and to add it with one such line.
Cron(s) ==
    /\ ~Idle(s) /\ Next1(s).do \in {"addcronjob", "rmcronjob"}
    /\ Then(s, <<>>)
    /\ cron' = IF Next1(s).do = "addcronjob" THEN 1 ELSE 0
    /\ UNCHANGED <<auto, procvars, lockFile, snapFile, recFile, commands>>

----------------------------------------------------------------------------
(* Processes.                                                               *)

Children(p) == {q \in Pids : kind[q] = "ffmpeg" /\ parent[q] = p}

\* while true; do ffmpeg ...; done.  A signal is handled between two rounds.
LoopRound(p) ==
    /\ kind[p] = "loop" /\ Children(p) = {} /\ p \notin told
    /\ FreePids # {}
    /\ kind' = [kind EXCEPT ![NewPid] = "ffmpeg"]
    /\ parent' = [parent EXCEPT ![NewPid] = p]
    /\ UNCHANGED <<auto, told, filevars, shell, commands>>

\* ffmpeg ends after an hour, when told to or when there is no stream.
FfmpegEnds(p) ==
    /\ kind[p] = "ffmpeg"
    /\ Gone({p})
    /\ UNCHANGED <<auto, filevars, shell, commands>>

\* bash runs the trap of mjpg-streamer-rec-video.sh when ffmpeg has ended.
LoopEnds(p) ==
    /\ kind[p] = "loop" /\ p \in told /\ Children(p) = {}
    /\ Gone({p})
    /\ UNCHANGED <<auto, filevars, shell, commands>>

\* The job's trap removes the lock file.
JobEnds(p) ==
    /\ kind[p] = "job" /\ p \in told
    /\ Gone({p}) /\ lockFile' = 0
    /\ UNCHANGED <<auto, snapFile, recFile, cron, shell, commands>>

\* mjpg_streamer and the GStreamer recorders end some time after the signal.
ProgramEnds(p) ==
    /\ kind[p] \in {"mjpg", "audio"} \cup Execs /\ p \in told
    /\ Gone({p})
    /\ UNCHANGED <<auto, filevars, shell, commands>>

----------------------------------------------------------------------------
ShellNext(s) ==
    \/ If(s) \/ Ask(s) \/ Start(s) \/ Write(s) \/ Lock(s) \/ List(s) \/ Read(s)
    \/ Remove(s) \/ Kill(s) \/ KillChildren(s) \/ End(s) \/ Term(s) \/ Cron(s)

ProcessNext(p) == \/ LoopRound(p) \/ FfmpegEnds(p) \/ LoopEnds(p)
                  \/ JobEnds(p) \/ ProgramEnds(p)

Next == \/ \E s \in Shells : Give(s) \/ ShellNext(s)
        \/ \E p \in Pids : ProcessNext(p)

Spec == Init /\ [][Next]_vars

\* Shells run on, ffmpeg stops after an hour (-t 3600), a pending trap is
\* run and programs handle their signals.
FairSpec == /\ Spec
            /\ \A s \in Shells : WF_vars(ShellNext(s))
            /\ \A p \in Pids : /\ WF_vars(FfmpegEnds(p))
                               /\ WF_vars(LoopEnds(p) \/ JobEnds(p)
                                          \/ ProgramEnds(p))

----------------------------------------------------------------------------
TypeOK ==
    /\ auto \subseteq {"mjpg", "snap", "loop"}
    /\ kind \in [Pids -> Kinds \cup {"none"}]
    /\ parent \in [Pids -> Pids \cup {0}] /\ told \subseteq Pids
    /\ {lockFile, snapFile, recFile} \subseteq Pids \cup {0}
    /\ cron \in {0, 1}
    /\ \A s \in Shells : /\ Ps(s) \subseteq Pids
                         /\ {shell[s].statusConfirm, shell[s].overlap}
                              \subseteq BOOLEAN
    /\ \A p \in Pids : parent[p] # 0 => kind[p] = "ffmpeg"

Finishes(s) == ~Idle(s) /\ shell'[s].todo = <<>>

\* "stop" on the page of the video recording ends it: when the script is
\* over, and no other ran beside it, there is neither a loop nor an ffmpeg,
\* however many loops there were and whenever their ffmpeg started again.
StopLeavesNone ==
    [][\A s \in Shells :
          shell[s].command = "stoprecmjpg" /\ Finishes(s) /\ ~shell[s].overlap =>
              \A p \in Pids : kind'[p] \notin {"loop", "ffmpeg"}]_vars

\* A recorder of video and sound is started, by a script that ran alone.
AvStarts(p)  == kind[p] = "none" /\ kind'[p] \in Execs
Starting(s)  == Is(s, "start") /\ ~shell[s].overlap

\* The camera is handed over: when a script that ran alone starts a recorder
\* of video and sound, mjpg_streamer has been told to end, unless the user has
\* refused, and so has the same recorder started before.
HandedOver ==
    [][\A p \in Pids : AvStarts(p) =>
          \A s \in Shells : Starting(s) /\ shell[s].statusConfirm =>
              Running("mjpg") \cup Running(kind'[p]) \subseteq told]_vars

\* Stopping the service ends the recording it has started: the loop does not
\* outlive the signal, although its trap waits for an ffmpeg that may have
\* been started after the children were killed.
ServiceStopEnds ==
    \A p \in Pids :
        (kind[p] = "loop" /\ \E s \in Shells : /\ shell[s].command = "service_stop"
                                               /\ Is(s, "killchildren")
                                               /\ p \in Ps(s))
            ~> (kind[p] # "loop" /\ Children(p) = {})

\* "Snapshotmjpg process stop", says do_stop: the snapshots whose pid it has
\* found in snapshotmjpg.pid end.
SnapshotsStop ==
    \A p \in Pids :
        (/\ kind[p] = "snap" /\ snapFile = p
         /\ \E s \in Shells : shell[s].command = "service_stop" /\ Is(s, "remove"))
            ~> (kind[p] # "snap")
=============================================================================
