----------------------------- MODULE UvcDevice -----------------------------
(* The V4L2 device of input_uvc: struct vdIn, the driver's buffers, the     *)
(* camera thread's loop around uvcGrab, and setResolution, which takes the  *)
(* device down and up again.  The camera thread calls setResolution when    *)
(* the video source changes (-dv_timings); a client of output_http calls it *)
(* with the command IN_CMD_RESOLUTION.                                      *)
(*                                                                          *)
(* Frames are numbered, a frame of number 0 holds no picture; publishing    *)
(* one (FrameBus) is one step here.                                         *)
EXTENDS Naturals, Sequences, FiniteSets

CONSTANTS Bufs,          \* the driver's buffers: NB_BUFFER of them
          Resolutions,   \* resolutions, by the size of a picture buffer
          StartRes,      \* the one the camera is started with
          Every,         \* -e: only every Every-th frame is used
          Uses,          \* ways to use the device: sets of "timings" (the
                         \* source changes) and "commands" (a client sets
                         \* the resolution)
          EmptyFrames,   \* does the driver return buffers without a picture?
          Fails,         \* may system calls and allocations fail?
          MaxFrame,      \* bound: frames the driver captures
          Cam, Cmd       \* the camera thread, an http client thread

ASSUME BufsOK   == IsFiniteSet(Bufs) /\ Bufs # {}
ASSUME ResOK    == Resolutions \subseteq Nat \ {0} /\ StartRes \in Resolutions
ASSUME EveryOK  == Every \in Nat \ {0}
ASSUME BoundOK  == MaxFrame \in Nat
ASSUME UsesOK   == Uses \subseteq SUBSET {"timings", "commands"}
ASSUME FlagsOK  == {EmptyFrames, Fails} \subseteq BOOLEAN
ASSUME TwoThreads == Cam # Cmd

Setters == {Cam, Cmd}

VARIABLES use,       \* how the device is used
          pc,        \* the camera thread
          spc,       \* where each thread is in setResolution
          want,      \* the resolution each of them sets
          state,     \* streamingState
          open,      \* is fd open?
          mapped,    \* are the driver's buffers mapped?
          driver,    \* on; buffers to fill; filled ones, oldest first
          hand,      \* the buffer uvcGrab has dequeued, or none
          res,       \* width and height
          tmp,       \* tmpbuffer: its room (0: freed), the frame in it
          every,     \* every_count
          pub,       \* ghost: the newest picture published, by its number
          grabs,     \* ghost: frames grabbed since the last one published
          gap,       \* ghost: grabs at the last one published
          ignored,   \* ghost: the last buffer grabbed held no picture
          blank,     \* ghost: no picture was copied to this tmpbuffer yet
          captured,  \* frames the driver has captured
          stop       \* global.stop, and the camera thread is cancelled

devvars == <<state, open, mapped, driver, res>>
framevars == <<tmp, every, pub, grabs, gap, ignored, blank>>
vars == <<use, pc, spc, want, devvars, hand, framevars, captured, stop>>

DvTimings == "timings" \in use     \* -dv_timings
Commands  == "commands" \in use

Off == [on |-> FALSE, empty |-> {}, full |-> <<>>]

Init == /\ use \in Uses
        /\ pc = "top" /\ spc = [t \in Setters |-> "idle"]
        /\ want = [t \in Setters |-> StartRes]
        /\ state = "ON" /\ open = TRUE /\ mapped = TRUE
        /\ driver = [on |-> TRUE, empty |-> Bufs, full |-> <<>>]
        /\ hand = <<>> /\ res = StartRes
        /\ tmp = [room |-> StartRes, frame |-> 0]
        /\ every = 0 /\ pub = 0
        /\ grabs = 0 /\ gap = 0 /\ captured = 0 /\ stop = FALSE
        /\ ignored = FALSE /\ blank = TRUE

----------------------------------------------------------------------------
(* The driver fills a queued buffer; some hold no picture.                  *)

Capture ==
    /\ driver.on /\ captured < MaxFrame
    /\ captured' = captured + 1
    /\ \E b \in driver.empty,
          f \in {captured + 1} \cup (IF EmptyFrames THEN {0} ELSE {}) :
           driver' = [driver EXCEPT
                        !.empty = @ \ {b},
                        !.full = Append(@, [buf |-> b, frame |-> f,
                                            size |-> res])]
    /\ UNCHANGED <<pc, spc, want, state, open, mapped, hand, res, framevars,
                   stop>>

\* The signal handler sets global.stop and input_stop cancels the thread.
Stop == /\ ~stop /\ stop' = TRUE
        /\ UNCHANGED <<pc, spc, want, devvars, hand, framevars, captured>>

----------------------------------------------------------------------------
(* The loop of cam_thread.                                                  *)

CamGoto(from, to) == pc = from /\ pc' = to

CamTop ==
    /\ CamGoto("top", IF stop THEN "leave" ELSE "paused")
    /\ UNCHANGED <<spc, want, devvars, hand, framevars, captured, stop>>

\* while(streamingState == STREAMING_PAUSED) usleep(1)
CamPaused ==
    /\ state # "PAUSED"
    /\ CamGoto("paused", "select")
    /\ UNCHANGED <<spc, want, devvars, hand, framevars, captured, stop>>

\* select says that there is a frame, or an error, to be read.
CamSelect ==
    /\ driver.full # <<>> \/ ~driver.on
    /\ CamGoto("select", "grab")
    /\ UNCHANGED <<spc, want, devvars, hand, framevars, captured, stop>>

\* No frame within the timeout: the thread ends, unless -dv_timings is given.
CamTimeout ==
    /\ ~DvTimings /\ driver.full = <<>>
    /\ CamGoto("select", "leave")
    /\ UNCHANGED <<spc, want, devvars, hand, framevars, captured, stop>>

\* With -dv_timings the camera thread sets the device up again after a
\* timeout or, whether a frame was read or not, when the source changes.
SourceChange ==
    /\ DvTimings
    /\ \/ CamGoto("select", "change") /\ driver.full = <<>>
       \/ CamGoto("other", "change")
    /\ spc' = [spc EXCEPT ![Cam] = "pause"]
    /\ want' = [want EXCEPT ![Cam] = res]
    /\ UNCHANGED <<devvars, hand, framevars, captured, stop>>

CamNoEvent ==
    /\ CamGoto("other", "top")
    /\ UNCHANGED <<spc, want, devvars, hand, framevars, captured, stop>>

\* VIDIOC_DQBUF takes the oldest filled buffer.
Dequeue ==
    /\ open /\ driver.on /\ driver.full # <<>>
    /\ CamGoto("grab", "copy")
    /\ hand' = <<Head(driver.full)>>
    /\ driver' = [driver EXCEPT !.full = Tail(@)]
    /\ UNCHANGED <<spc, want, state, open, mapped, res, framevars, captured,
                   stop>>

\* It fails on a device that is closed or does not stream; on one that does it
\* waits for a frame, for as long as that takes: a client may have set the
\* device up again since select.
DequeueRefused ==
    /\ ~open \/ ~driver.on
    /\ CamGoto("grab", "leave")
    /\ UNCHANGED <<spc, want, devvars, hand, framevars, captured, stop>>

\* Mutated form: a buffer without a picture is copied as well.
CopyOutEmpty ==
    /\ CamGoto("copy", "requeue")
    /\ tmp' = [tmp EXCEPT !.frame = hand[1].frame]
    /\ ignored' = (hand[1].frame = 0) /\ blank' = (blank /\ ignored')
    /\ UNCHANGED <<spc, want, devvars, hand, every, pub, grabs, gap, captured,
                   stop>>

\* memcpy to tmpbuffer.  An empty buffer is ignored: tmpbuffer keeps the
\* frame before it.
CopyOut ==
    /\ CamGoto("copy", "requeue")
    /\ tmp' = IF hand[1].frame = 0 THEN tmp
              ELSE [tmp EXCEPT !.frame = hand[1].frame]
    /\ ignored' = (hand[1].frame = 0) /\ blank' = (blank /\ ignored')
    /\ UNCHANGED <<spc, want, devvars, hand, every, pub, grabs, gap, captured,
                   stop>>

\* The buffers the driver has been given.
Queued == driver.empty \cup {driver.full[i].buf : i \in 1 .. Len(driver.full)}

\* Mutated form: a buffer without a picture is not given back.
RequeueFull ==
    /\ CamGoto("requeue", "use")
    /\ open /\ mapped /\ hand[1].buf \notin Queued
    /\ driver' = IF hand[1].frame = 0 THEN driver
                 ELSE [driver EXCEPT !.empty = @ \cup {hand[1].buf}]
    /\ hand' = <<>> /\ grabs' = grabs + 1
    /\ UNCHANGED <<spc, want, state, open, mapped, res, tmp, every, pub, gap,
                   ignored, blank, captured, stop>>

\* VIDIOC_QBUF gives the buffer back.
Requeue ==
    /\ CamGoto("requeue", "use")
    /\ open /\ mapped /\ hand[1].buf \notin Queued
    /\ driver' = [driver EXCEPT !.empty = @ \cup {hand[1].buf}]
    /\ hand' = <<>> /\ grabs' = grabs + 1
    /\ UNCHANGED <<spc, want, state, open, mapped, res, tmp, every, pub, gap,
                   ignored, blank, captured, stop>>

RequeueRefused ==
    /\ CamGoto("requeue", "leave")
    /\ ~open \/ ~mapped \/ hand[1].buf \in Queued
    /\ UNCHANGED <<spc, want, devvars, hand, framevars, captured, stop>>

\* Either call fails for a reason of its own.
GrabError ==
    /\ Fails
    /\ CamGoto("grab", "leave") \/ CamGoto("requeue", "leave")
    /\ UNCHANGED <<spc, want, devvars, hand, framevars, captured, stop>>

\* Mutated form: one frame too many is skipped.
SkipFrameLate ==
    /\ every < Every
    /\ CamGoto("use", "other")
    /\ every' = every + 1
    /\ UNCHANGED <<spc, want, devvars, hand, tmp, pub, grabs, gap, ignored,
                   blank, captured, stop>>

\* -e: this frame is not used.
SkipFrame ==
    /\ every < Every - 1
    /\ CamGoto("use", "other")
    /\ every' = every + 1
    /\ UNCHANGED <<spc, want, devvars, hand, tmp, pub, grabs, gap, ignored,
                   blank, captured, stop>>

\* The frame is smaller than the minimum, or comes too soon (-softfps).
DropFrame ==
    /\ every >= Every - 1
    /\ CamGoto("use", "other")
    /\ every' = 0
    /\ UNCHANGED <<spc, want, devvars, hand, tmp, pub, grabs, gap, ignored,
                   blank, captured, stop>>

\* Mutated form: the count is not reset.
PublishAll ==
    /\ every >= Every - 1
    /\ CamGoto("use", "other")
    /\ pub' = IF tmp.frame > pub THEN tmp.frame ELSE pub
    /\ gap' = grabs /\ grabs' = 0
    /\ UNCHANGED <<spc, want, devvars, hand, tmp, every, ignored, blank,
                   captured, stop>>

Publish ==
    /\ every >= Every - 1
    /\ CamGoto("use", "other")
    /\ every' = 0
    /\ pub' = IF tmp.frame > pub THEN tmp.frame ELSE pub
    /\ gap' = grabs /\ grabs' = 0
    /\ UNCHANGED <<spc, want, devvars, hand, tmp, ignored, blank, captured,
                   stop>>

\* Where the thread can be cancelled: usleep, select, close and open.
Cancellable == \/ pc \in {"paused", "select"}
               \/ pc = "change" /\ spc[Cam] \in {"close", "open"}

\* Mutated form: not in usleep.
CamCancelledNot ==
    /\ stop /\ Cancellable /\ pc # "paused"
    /\ pc' = "leave" /\ spc' = [spc EXCEPT ![Cam] = "idle"]
    /\ UNCHANGED <<want, devvars, hand, framevars, captured, stop>>

CamCancelled ==
    /\ stop /\ Cancellable
    /\ pc' = "leave" /\ spc' = [spc EXCEPT ![Cam] = "idle"]
    /\ UNCHANGED <<want, devvars, hand, framevars, captured, stop>>

\* cam_cleanup: the stream is turned off and tmpbuffer is freed; the device
\* stays open and its buffers stay mapped.
CamLeave ==
    /\ CamGoto("leave", "left")
    /\ IF state = "ON" THEN state' = "OFF" /\ driver' = Off
                       ELSE UNCHANGED <<state, driver>>
    /\ tmp' = [tmp EXCEPT !.room = 0]
    /\ UNCHANGED <<spc, want, open, mapped, res, hand, every, pub, grabs, gap,
                   ignored, blank, captured, stop>>

----------------------------------------------------------------------------
(* setResolution.  Once the camera thread has left, vdIn is freed: what a   *)
(* client does with it then is undefined and not followed further.          *)

Setting(t, s) == spc[t] = s /\ (t = Cam \/ pc # "left")

SetGoto(t, s) == spc' = [spc EXCEPT ![t] = s] /\ UNCHANGED <<pc, want>>

\* setResolution returns: the camera thread goes on, or leaves if it failed.
SetReturn(t, to) == /\ spc' = [spc EXCEPT ![t] = "idle"]
                    /\ pc' = IF t = Cam THEN to ELSE pc
                    /\ UNCHANGED want

\* IN_CMD_RESOLUTION, with one of the supported resolutions.
CmdResolution ==
    /\ Commands /\ spc[Cmd] = "idle" /\ pc # "left"
    /\ \E r \in Resolutions : want' = [want EXCEPT ![Cmd] = r]
    /\ spc' = [spc EXCEPT ![Cmd] = "pause"]
    /\ UNCHANGED <<pc, devvars, hand, framevars, captured, stop>>

SetPause(t) ==
    /\ Setting(t, "pause") /\ SetGoto(t, "off")
    /\ state' = "PAUSED"
    /\ UNCHANGED <<open, mapped, driver, res, hand, framevars, captured, stop>>

\* VIDIOC_STREAMOFF takes every buffer from the driver.
SetOff(t) ==
    /\ Setting(t, "off") /\ SetGoto(t, "unmap") /\ open
    /\ driver' = Off /\ state' = "PAUSED"
    /\ UNCHANGED <<open, mapped, res, hand, framevars, captured, stop>>

SetUnmap(t) ==
    /\ Setting(t, "unmap") /\ SetGoto(t, "close")
    /\ mapped' = FALSE
    /\ UNCHANGED <<state, open, driver, res, hand, framevars, captured, stop>>

SetClose(t) ==
    /\ Setting(t, "close") /\ SetGoto(t, "open")
    /\ open' = FALSE /\ driver' = Off /\ res' = want[t]
    /\ UNCHANGED <<state, mapped, hand, framevars, captured, stop>>

\* init_v4l2: open and configure the device.  With -dv_timings the source
\* says what the resolution is.
SetOpen(t) ==
    /\ Setting(t, "open") /\ SetGoto(t, "map")
    /\ open' = TRUE
    /\ res' \in IF DvTimings THEN Resolutions ELSE {res}
    /\ UNCHANGED <<state, mapped, driver, hand, framevars, captured, stop>>

\* init_v4l2: request, map and queue the buffers.
SetMap(t) ==
    /\ Setting(t, "map") /\ SetGoto(t, "free") /\ open
    /\ mapped' = TRUE /\ driver' = [driver EXCEPT !.empty = Bufs, !.full = <<>>]
    /\ UNCHANGED <<state, open, res, hand, framevars, captured, stop>>

SetFree(t) ==
    /\ Setting(t, "free") /\ SetGoto(t, "alloc")
    /\ tmp' = [tmp EXCEPT !.room = 0]
    /\ UNCHANGED <<devvars, hand, every, pub, grabs, gap, ignored, blank,
                   captured, stop>>

\* Mutated form: the buffer gets the size it had.
SetAllocOld(t) ==
    /\ Setting(t, "alloc") /\ SetGoto(t, "on")
    /\ tmp' = [tmp EXCEPT !.room = want[t], !.frame = 0] /\ blank' = TRUE
    /\ UNCHANGED <<devvars, hand, every, pub, grabs, gap, ignored, captured,
                   stop>>

SetAlloc(t) ==
    /\ Setting(t, "alloc") /\ SetGoto(t, "on")
    /\ tmp' = [tmp EXCEPT !.room = res, !.frame = 0] /\ blank' = TRUE
    /\ UNCHANGED <<devvars, hand, every, pub, grabs, gap, ignored, captured,
                   stop>>

\* Mutated form: the device streams, but is still said to be paused.
SetOnPaused(t) ==
    /\ Setting(t, "on") /\ SetReturn(t, "top") /\ open
    /\ driver' = [driver EXCEPT !.on = TRUE]
    /\ UNCHANGED <<state, open, mapped, res, hand, framevars, captured, stop>>

\* VIDIOC_STREAMON.
SetOn(t) ==
    /\ Setting(t, "on") /\ SetReturn(t, "top") /\ open
    /\ driver' = [driver EXCEPT !.on = TRUE] /\ state' = "ON"
    /\ UNCHANGED <<open, mapped, res, hand, framevars, captured, stop>>

\* One of the steps fails and setResolution returns -1.
SetBreaks(t, s) ==
    /\ Setting(t, s) /\ SetReturn(t, "leave")
    /\ UNCHANGED <<devvars, hand, framevars, captured, stop>>

\* The other thread has closed the device.
SetRefused(t) == ~open /\ \E s \in {"off", "map", "on"} : SetBreaks(t, s)

SetError(t) ==
    /\ Fails
    /\ \E s \in {"off", "open", "map", "alloc", "on"} : SetBreaks(t, s)

----------------------------------------------------------------------------
\* What a thread goes on with, and what may happen to it instead.
CamStep == \/ CamTop \/ CamPaused \/ CamSelect \/ CamTimeout \/ SourceChange
           \/ CamNoEvent \/ Dequeue \/ DequeueRefused \/ CopyOut \/ Requeue
           \/ RequeueRefused \/ SkipFrame \/ DropFrame \/ Publish
           \/ CamCancelled \/ CamLeave

SetStep(t) == \/ SetPause(t) \/ SetOff(t) \/ SetUnmap(t) \/ SetClose(t)
              \/ SetOpen(t) \/ SetMap(t) \/ SetFree(t) \/ SetAlloc(t)
              \/ SetOn(t) \/ SetRefused(t)

CamNext    == CamStep \/ GrabError
SetNext(t) == SetStep(t) \/ SetError(t)

Next == /\ \/ Capture \/ Stop \/ CamNext \/ CmdResolution
           \/ \E t \in Setters : SetNext(t)
        /\ UNCHANGED use

Spec == Init /\ [][Next]_vars

\* Each thread runs on where nothing is in its way.  No frame need ever come,
\* and no call need ever fail that the driver does not refuse.
FairSpec == Spec /\ WF_vars(CamStep /\ UNCHANGED use)
            /\ \A t \in Setters : WF_vars(SetStep(t) /\ UNCHANGED use)

----------------------------------------------------------------------------
TypeOK ==
    /\ use \in Uses
    /\ pc \in {"top", "paused", "select", "grab", "copy", "requeue", "use",
               "other", "change", "leave", "left"}
    /\ spc \in [Setters -> {"idle", "pause", "off", "unmap", "close", "open",
                            "map", "free", "alloc", "on"}]
    /\ want \in [Setters -> Resolutions]
    /\ state \in {"ON", "PAUSED", "OFF"}
    /\ {open, mapped, stop, ignored, blank} \subseteq BOOLEAN
    /\ driver.on \in BOOLEAN /\ driver.empty \subseteq Bufs
    /\ driver.full \in Seq([buf : Bufs, frame : 0 .. MaxFrame,
                            size : Resolutions])
    /\ hand = <<>> \/ hand[1] \in [buf : Bufs, frame : 0 .. MaxFrame,
                                   size : Resolutions]
    /\ res \in Resolutions
    /\ tmp \in [room : Resolutions \cup {0}, frame : 0 .. MaxFrame]
    /\ every \in 0 .. Every - 1
    /\ pub \in 0 .. MaxFrame
    /\ {grabs, gap, captured} \subseteq 0 .. MaxFrame

\* A picture that is published is newer than every one before it, or the
\* buffer it was grabbed from was ignored as empty: then it is the last one
\* again, never an older one, or nothing at all when no picture has come since
\* the buffer was allocated.  So it is across frames that are skipped or
\* dropped and changes of the resolution, by whichever thread.
FreshUnlessIgnored ==
    [][Publish => \/ tmp.frame > pub
                  \/ ignored /\ tmp.frame = pub
                  \/ blank /\ tmp.frame = 0]_vars

\* A client that sets the resolution takes the device away under the camera
\* thread (TODO:5 calls the command broken): what follows is said of a
\* device that only the camera thread sets up.
Sound == ~Commands

Working == pc \notin {"leave", "left"}
NoSetter == \A t \in Setters : spc[t] = "idle"

\* -e drops exactly Every - 1 frames for each one that may be used, also
\* across frames dropped for their size and changes of the resolution.
EveryNth ==
    /\ gap % Every = 0
    /\ grabs % Every = (every + IF pc = "use" THEN 1 ELSE 0) % Every

\* Between two calls of setResolution every buffer is with the driver or
\* with uvcGrab, and only once: frames that are dropped, or hold no picture,
\* do not starve the driver.
BuffersConserved ==
    (Sound /\ mapped /\ NoSetter /\ state = "ON" /\ Working) =>
        LET held == {hand[i].buf : i \in 1 .. Len(hand)}
        IN  /\ Queued \cup held = Bufs
            /\ Cardinality(driver.empty) + Len(driver.full) + Len(hand)
                   = Cardinality(Bufs)

\* When setResolution is over the device streams, into buffers of its own
\* resolution; and uvcGrab copies from a mapped buffer into one with room.
Ready == /\ Sound /\ Working /\ NoSetter =>
              state = "ON" /\ open /\ mapped /\ driver.on /\ tmp.room = res
         /\ Sound /\ pc = "copy" => mapped /\ hand[1].size <= tmp.room

\* A change of the source ends with the device streaming again or with the
\* end of the camera thread.
Recovers == (Sound /\ pc = "change") ~> (state = "ON" \/ pc = "left")

\* uvcGrab waits for a frame of a device that a client has set up again since
\* select: no cancellation point, and no frame need come.
InGrab    == Commands /\ pc = "grab" /\ driver.full = <<>>
Streaming == open /\ driver.on

\* The camera thread ends when it is told to, also while it waits for a
\* setResolution of a client that has failed, unless it is in uvcGrab for
\* ever, on a device that clients leave, or ever again set up, streaming.
CamEnds == stop ~> (pc = "left" \/ [](InGrab /\ <>Streaming))
=============================================================================
