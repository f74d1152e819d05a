--------------------------- MODULE UvcDeviceProofs ---------------------------
(* Proofs about UvcDevice, for every number of the driver's buffers, every  *)
(* set of resolutions and every value of -e.                                *)
EXTENDS UvcDevice, FiniteSetTheorems, SequenceTheorems, TLAPS

Frame  == [buf : Bufs, frame : 0 .. MaxFrame, size : Resolutions]
Driver == [on : BOOLEAN, empty : SUBSET Bufs, full : Seq(Frame)]
CamPC  == {"top", "paused", "select", "grab", "copy", "requeue", "use", "other",
           "change", "leave", "left"}
SetPC  == {"idle", "pause", "off", "unmap", "close", "open", "map", "free",
           "alloc", "on"}

----------------------------------------------------------------------------
(* Types, and what the counters count.                                      *)

Typed ==
    /\ use \in Uses
    /\ pc \in CamPC /\ spc \in [Setters -> SetPC]
    /\ want \in [Setters -> Resolutions]
    /\ state \in {"ON", "PAUSED", "OFF"}
    /\ open \in BOOLEAN /\ mapped \in BOOLEAN /\ stop \in BOOLEAN
    /\ driver \in Driver
    /\ hand \in Seq(Frame)
    /\ res \in Resolutions
    /\ tmp \in [room : Resolutions \cup {0}, frame : 0 .. MaxFrame]
    /\ every \in 0 .. Every - 1
    /\ pub \in 0 .. MaxFrame
    /\ ignored \in BOOLEAN /\ blank \in BOOLEAN
    /\ grabs \in Nat /\ gap \in 0 .. MaxFrame /\ captured \in 0 .. MaxFrame

\* The camera thread is in setResolution only when it has called it, and
\* holds a buffer only between taking one and giving it back.
Located ==
    /\ spc[Cam] # "idle" <=> pc = "change"
    /\ pc \in {"copy", "requeue"} => Len(hand) = 1
    /\ pc \notin {"copy", "requeue", "leave", "left"} => hand = <<>>

\* A frame that was captured is waiting, in hand, grabbed or lost.
Counted == grabs + Len(hand) + Len(driver.full) <= captured

Basic == Typed /\ Located /\ Counted

LEMMA NoFrames ==
  ASSUME NEW S
  PROVE  <<>> \in Seq(S) /\ Len(<<>>) = 0
BY EmptySeq

LEMMA OneFrame ==
  ASSUME NEW S, NEW x \in S
  PROVE  <<x>> \in Seq(S) /\ Len(<<x>>) = 1 /\ <<x>>[1] = x
OBVIOUS

LEMMA InHand ==
  ASSUME Basic, Len(hand) = 1
  PROVE  hand[1] \in Frame
<1>1. 1 \in 1 .. Len(hand) /\ hand \in Seq(Frame)
  BY DEF Basic, Typed
<1> QED
  BY <1>1, ElementOfSeq

LEMMA Lengths ==
  ASSUME Basic
  PROVE  /\ Len(hand) \in Nat /\ Len(driver.full) \in Nat
         /\ grabs \in 0 .. MaxFrame
<1>1. driver.full \in Seq(Frame) /\ hand \in Seq(Frame)
  BY DEF Basic, Typed, Driver
<1>2. Len(hand) \in Nat /\ Len(driver.full) \in Nat
  BY <1>1, LenProperties
<1>3. grabs \in Nat /\ captured \in 0 .. MaxFrame
  BY DEF Basic, Typed
<1>4. grabs + Len(hand) + Len(driver.full) <= captured
  BY DEF Basic, Counted
<1> DEFINE h == Len(hand)
           l == Len(driver.full)
<1> HIDE DEF h, l
<1>5. h \in Nat /\ l \in Nat /\ grabs + h + l <= captured
  BY <1>2, <1>4 DEF h, l
<1> QED
  BY <1>2, <1>3, <1>5, BoundOK

LEMMA SumKept ==
  ASSUME NEW a \in Nat, NEW b \in Nat, NEW c \in Nat, NEW d \in Nat,
         NEW e \in Nat, NEW f \in Nat, a + b + c <= d, e <= a, f <= c
  PROVE  e + b + f <= d
OBVIOUS

\* Nothing is counted twice when frames are only dropped.
LEMMA CountedKept ==
  ASSUME Basic, UNCHANGED <<hand, captured>>, grabs' \in {0, grabs},
         driver'.full \in {driver.full, <<>>}
  PROVE  Counted'
<1> DEFINE h == Len(hand)
           l == Len(driver.full)
           m == Len(driver'.full)
<1>1. /\ h \in Nat /\ l \in Nat /\ m \in {0, l} /\ grabs \in 0 .. MaxFrame
      /\ captured \in 0 .. MaxFrame /\ grabs + h + l <= captured
  BY Lengths, NoFrames DEF Basic, Typed, Counted
<1>2. Counted' <=> grabs' + h + m <= captured
  BY DEF Counted
<1> HIDE DEF h, l, m
<1>3. /\ grabs' \in Nat /\ grabs' <= grabs /\ m \in Nat /\ m <= l
      /\ captured \in Nat /\ grabs \in Nat
      /\ h \in Nat /\ l \in Nat /\ grabs + h + l <= captured
  BY <1>1, BoundOK
<1>4. grabs' + h + m <= captured
  BY <1>3, SumKept
<1> QED
  BY <1>2, <1>4

LEMMA BasicInit == Init => Basic
<1> SUFFICES ASSUME Init PROVE Basic
  OBVIOUS
<1>1. driver \in Driver /\ hand \in Seq(Frame) /\ Len(hand) = 0
      /\ Len(driver.full) = 0
  BY NoFrames DEF Init, Driver
<1>0. 0 \in 0 .. Every - 1 /\ 0 \in 0 .. MaxFrame
  BY EveryOK, BoundOK
<1>2. Typed
  BY <1>0, <1>1, ResOK, EveryOK, BoundOK DEF Init, Typed, CamPC, SetPC
<1>3. Located /\ Counted
  BY <1>1 DEF Init, Located, Counted, Setters
<1> QED
  BY <1>2, <1>3 DEF Basic

LEMMA BasicCapture ==
  ASSUME Basic, Capture, UNCHANGED use
  PROVE  Basic'
<1> USE DEF Basic, Typed
<1>1. PICK b \in driver.empty,
           f \in {captured + 1} \cup (IF EmptyFrames THEN {0} ELSE {}) :
          driver' = [driver EXCEPT
                       !.empty = @ \ {b},
                       !.full = Append(@, [buf |-> b, frame |-> f, size |-> res])]
  BY DEF Capture
<1>1a. f \in 0 .. MaxFrame
  BY BoundOK DEF Capture
<1>2. PICK q : q = [buf |-> b, frame |-> f, size |-> res]
  OBVIOUS
<1>3. q \in Frame
  BY <1>1a, <1>2 DEF Driver, Frame
<1>4. /\ Append(driver.full, q) \in Seq(Frame)
      /\ Len(Append(driver.full, q)) = Len(driver.full) + 1
  BY <1>3, AppendProperties DEF Driver
<1>5. /\ driver' \in Driver /\ driver'.full = Append(driver.full, q)
  BY <1>1, <1>2, <1>4 DEF Driver
<1>6. Typed'
  BY <1>5, BoundOK DEF Capture, framevars
<1>7. Located'
  BY DEF Capture, Located
<1>8. Counted'
  <2>1. PICK h \in Nat, l \in Nat : h = Len(hand) /\ l = Len(driver.full)
    <3>1. driver.full \in Seq(Frame) /\ hand \in Seq(Frame)
      BY DEF Driver
    <3> HIDE DEF Basic, Typed
    <3> QED
      BY <3>1, LenProperties
  <2>2. grabs + h + l <= captured /\ grabs \in Nat /\ captured \in Nat
    <3>1. grabs \in Nat /\ captured \in Nat /\ Counted
      BY BoundOK
    <3> HIDE DEF Basic, Typed
    <3> QED
      BY <2>1, <3>1 DEF Counted
  <2>3. UNCHANGED <<hand, grabs>> /\ captured' = captured + 1
    BY DEF Capture, framevars
  <2>4. Len(driver'.full) = l + 1
    BY <1>4, <1>5, <2>1
  <2> HIDE DEF Basic, Typed
  <2>5. grabs' + h + (l + 1) <= captured'
    BY <2>2, <2>3
  <2> QED
    BY <2>1, <2>3, <2>4, <2>5 DEF Counted
<1> QED
  BY <1>6, <1>7, <1>8

LEMMA BasicDequeue ==
  ASSUME Basic, Dequeue, UNCHANGED use
  PROVE  Basic'
<1> USE DEF Basic, Typed
<1>1. /\ driver.full \in Seq(Frame) /\ driver.full # <<>>
      /\ hand = <<>> /\ Len(hand) = 0
  BY EmptySeq DEF Dequeue, Driver, CamGoto, Located
<1>2. /\ Head(driver.full) \in Frame /\ Tail(driver.full) \in Seq(Frame)
      /\ Len(Tail(driver.full)) = Len(driver.full) - 1
      /\ Len(driver.full) \in Nat \ {0}
  BY <1>1, HeadTailProperties, EmptySeq
<1>3. /\ driver' \in Driver /\ driver'.full = Tail(driver.full)
      /\ hand' \in Seq(Frame) /\ Len(hand') = 1
  BY <1>2, OneFrame DEF Dequeue, Driver
<1>4. Typed'
  BY <1>3 DEF Dequeue, CamGoto, CamPC, framevars
<1>5. Located'
  BY <1>3 DEF Dequeue, CamGoto, Located
<1>6. Counted'
  BY <1>1, <1>2, <1>3 DEF Dequeue, Counted, framevars
<1> QED
  BY <1>4, <1>5, <1>6

LEMMA BasicRequeue ==
  ASSUME Basic, Requeue, UNCHANGED use
  PROVE  Basic'
<1> USE DEF Basic, Typed
<1>1. hand \in Seq(Frame) /\ Len(hand) = 1 /\ hand[1] \in Frame
  BY InHand DEF Requeue, CamGoto, Located
<1>2. /\ driver' \in Driver /\ driver'.full = driver.full
      /\ hand' \in Seq(Frame) /\ Len(hand') = 0 /\ hand' = <<>>
  BY <1>1, EmptySeq DEF Requeue, Driver, Frame
<1>3. Typed'
  BY <1>2 DEF Requeue, CamGoto, CamPC
<1>4. Located'
  BY <1>2 DEF Requeue, CamGoto, Located
<1>5. Counted'
  BY <1>1, <1>2, LenProperties DEF Requeue, Counted, Driver
<1> QED
  BY <1>3, <1>4, <1>5

LEMMA BasicCam ==
  ASSUME Basic, CamNext, UNCHANGED use
  PROVE  Basic'
<1> SUFFICES ASSUME ~Dequeue, ~Requeue PROVE Basic'
  BY BasicDequeue, BasicRequeue
<1>a. Off \in Driver /\ Off.full = <<>> /\ grabs \in 0 .. MaxFrame
      /\ 0 \in 0 .. MaxFrame /\ 0 \in 0 .. Every - 1
  BY NoFrames, Lengths, BoundOK, EveryOK DEF Driver, Off
<1>b. /\ UNCHANGED <<hand, captured>> /\ grabs' \in {0, grabs}
      /\ driver'.full \in {driver.full, <<>>}
  BY <1>a DEF CamNext, CamStep, CamTop, CamPaused, CamSelect, CamTimeout, SourceChange,
      CamNoEvent, DequeueRefused, CopyOut, RequeueRefused, GrabError, SkipFrame, DropFrame,
      Publish, CamCancelled, CamLeave, devvars, framevars
<1>c. Counted'
  BY <1>b, CountedKept
<1> SUFFICES Typed' /\ Located'
  BY <1>c DEF Basic
<1> USE TwoThreads, BoundOK, EveryOK DEF Basic, Typed, Located, CamGoto, CamPC,
        SetPC, devvars, framevars, Setters
<1>1. CASE CamTop        BY <1>1 DEF CamTop
<1>2. CASE CamPaused     BY <1>2 DEF CamPaused
<1>3. CASE CamSelect     BY <1>3 DEF CamSelect
<1>4. CASE CamTimeout    BY <1>4 DEF CamTimeout
<1>5. CASE SourceChange  BY <1>5 DEF SourceChange
<1>6. CASE CamNoEvent    BY <1>6 DEF CamNoEvent
<1>7. CASE DequeueRefused BY <1>7 DEF DequeueRefused
<1>8. CASE CopyOut
  <2>1. hand[1] \in Frame
    BY <1>8, InHand DEF CopyOut
  <2> QED
    BY <1>8, <2>1 DEF CopyOut, Frame
<1>9. CASE RequeueRefused \/ GrabError
  BY <1>9 DEF RequeueRefused, GrabError
<1>10. CASE SkipFrame    BY <1>10 DEF SkipFrame
<1>11. CASE DropFrame    BY <1>11, <1>a DEF DropFrame
<1>12. CASE Publish      BY <1>12, <1>a DEF Publish
<1>13. CASE CamCancelled BY <1>13 DEF CamCancelled, Cancellable
<1>14. CASE CamLeave     BY <1>14, <1>a DEF CamLeave
<1> QED
  BY <1>1, <1>2, <1>3, <1>4, <1>5, <1>6, <1>7, <1>8, <1>9, <1>10, <1>11, <1>12,
     <1>13, <1>14 DEF CamNext, CamStep

\* setResolution keeps the frames that wait, or the driver forgets them all.
LEMMA SetDriver ==
  ASSUME Basic, NEW t \in Setters, SetNext(t)
  PROVE  driver' \in Driver /\ driver'.full \in {driver.full, <<>>}
<1>1. /\ Off \in Driver /\ Off.full = <<>> /\ driver \in Driver
      /\ [driver EXCEPT !.empty = Bufs, !.full = <<>>] \in Driver
      /\ [driver EXCEPT !.empty = Bufs, !.full = <<>>].full = <<>>
      /\ [driver EXCEPT !.on = TRUE] \in Driver
      /\ [driver EXCEPT !.on = TRUE].full = driver.full
  BY NoFrames DEF Basic, Typed, Driver, Off
<1> QED
  BY <1>1 DEF SetNext, SetStep, SetPause, SetOff, SetUnmap, SetClose, SetOpen, SetMap,
      SetFree, SetAlloc, SetOn, SetRefused, SetError, SetBreaks, devvars

LEMMA BasicSet ==
  ASSUME Basic, NEW t \in Setters, SetNext(t), UNCHANGED use
  PROVE  Basic'
<1>b. driver' \in Driver /\ driver'.full \in {driver.full, <<>>}
  BY SetDriver
<1>c. UNCHANGED <<hand, captured, grabs, gap, every, pub, ignored, stop>>
  BY DEF SetNext, SetStep, SetPause, SetOff, SetUnmap, SetClose, SetOpen, SetMap, SetFree,
      SetAlloc, SetOn, SetRefused, SetError, SetBreaks, framevars
<1>d. Counted'
  BY <1>b, <1>c, CountedKept
<1>e. tmp' \in [room : Resolutions \cup {0}, frame : 0 .. MaxFrame]
  <2>1. tmp \in [room : Resolutions \cup {0}, frame : 0 .. MaxFrame]
    BY DEF Basic, Typed
  <2>2. \A r \in Resolutions \cup {0} :
          /\ [tmp EXCEPT !.room = r] \in [room : Resolutions \cup {0}, frame : 0 .. MaxFrame]
          /\ [tmp EXCEPT !.room = r, !.frame = 0]
                \in [room : Resolutions \cup {0}, frame : 0 .. MaxFrame]
    <3>1. 0 \in 0 .. MaxFrame
      BY BoundOK
    <3> QED
      BY <3>1, <2>1
  <2>3. \/ tmp' = tmp \/ tmp' = [tmp EXCEPT !.room = 0]
        \/ tmp' = [tmp EXCEPT !.room = res, !.frame = 0]
    BY DEF SetNext, SetStep, SetPause, SetOff, SetUnmap, SetClose, SetOpen, SetMap, SetFree,
       SetAlloc, SetOn, SetRefused, SetError, SetBreaks, framevars
  <2> QED
    BY <2>1, <2>2, <2>3 DEF Basic, Typed
<1>i. /\ res' \in Resolutions /\ state' \in {"ON", "PAUSED", "OFF"}
      /\ open' \in BOOLEAN /\ mapped' \in BOOLEAN /\ blank' \in BOOLEAN
  BY DEF Basic, Typed, SetNext, SetStep, SetPause, SetOff, SetUnmap, SetClose,
      SetOpen, SetMap, SetFree, SetAlloc, SetOn, SetRefused, SetError, SetBreaks, devvars, framevars
<1>f. \/ pc' = pc /\ want' = want /\ \E l \in SetPC \ {"idle"} : /\ spc[t] # "idle"
                                          /\ spc' = [spc EXCEPT ![t] = l]
      \/ /\ spc[t] # "idle" /\ spc' = [spc EXCEPT ![t] = "idle"] /\ want' = want
         /\ pc' \in IF t = Cam THEN {"top", "leave"} ELSE {pc}
  BY DEF SetNext, SetStep, SetPause, SetOff, SetUnmap, SetClose, SetOpen, SetMap, SetFree,
      SetAlloc, SetOn, SetRefused, SetError, SetBreaks, Setting, SetGoto, SetReturn, SetPC
<1>g. Typed'
  BY <1>b, <1>c, <1>e, <1>f, <1>i DEF Basic, Typed, CamPC, SetPC
<1>h. Located'
  BY <1>c, <1>f, TwoThreads DEF Basic, Typed, Located, Setters, SetPC
<1> QED
  BY <1>d, <1>g, <1>h DEF Basic

LEMMA BasicNext ==
  ASSUME Basic, [Next]_vars
  PROVE  Basic'
<1>1. CASE UNCHANGED vars
  <2>1. UNCHANGED <<use, pc, spc, want, state, open, mapped, driver, hand, res, tmp,
                    every, pub, grabs, gap, ignored, blank, captured, stop>>
    BY <1>1 DEF vars, devvars, framevars
  <2>2. Typed'
    BY <2>1 DEF Basic, Typed
  <2>3. Located' /\ Counted'
    BY <2>1 DEF Basic, Located, Counted
  <2> QED
    BY <2>2, <2>3 DEF Basic
<1>2. CASE Stop /\ UNCHANGED use
  <2>1. stop' \in BOOLEAN
        /\ UNCHANGED <<use, pc, spc, want, state, open, mapped, driver, hand, res, tmp, every,
                       pub, grabs, gap, ignored, blank, captured>>
    BY <1>2 DEF Stop, devvars, framevars
  <2>2. Typed'
    BY <2>1 DEF Basic, Typed
  <2>3. Located' /\ Counted'
    BY <2>1 DEF Basic, Located, Counted
  <2> QED
    BY <2>2, <2>3 DEF Basic
<1>3. CASE CmdResolution /\ UNCHANGED use
  <2>1. UNCHANGED <<use, pc, state, open, mapped, driver, hand, res, tmp, every,
                    pub, grabs, gap, ignored, blank, captured, stop>>
    BY <1>3 DEF CmdResolution, devvars, framevars
  <2>2. want' \in [Setters -> Resolutions]
    BY <1>3 DEF Basic, Typed, CmdResolution
  <2>3. spc' \in [Setters -> SetPC] /\ spc'[Cam] = spc[Cam]
    BY <1>3, TwoThreads DEF Basic, Typed, CmdResolution, Setters, SetPC
  <2>4. Typed'
    BY <2>1, <2>2, <2>3 DEF Basic, Typed
  <2>5. Located' /\ Counted'
    BY <2>1, <2>3 DEF Basic, Located, Counted
  <2> QED
    BY <2>4, <2>5 DEF Basic
<1> QED
  BY <1>1, <1>2, <1>3, BasicCapture, BasicCam, BasicSet DEF Next

\* Types, places of the threads and counts of buffers hold in every state.
THEOREM BasicAlways == Spec => []Basic
BY BasicInit, BasicNext, PTL DEF Spec

\* Every variable keeps its type.
THEOREM TypeCorrect == Spec => []TypeOK
<1>1. ASSUME Basic PROVE TypeOK
  <2>1. hand = <<>> \/ hand[1] \in Frame
    <3>1. hand \in Seq(Frame) /\ Len(hand) \in Nat /\ (hand # <<>> => Len(hand) \in Nat \ {0})
      BY <1>1, Lengths, EmptySeq DEF Basic, Typed
    <3>2. hand # <<>> => 1 \in 1 .. Len(hand)
      BY <3>1
    <3> QED
      BY <3>1, <3>2, ElementOfSeq
  <2>2. grabs \in 0 .. MaxFrame
    BY <1>1, Lengths
  <2> QED
    BY <1>1, <2>1, <2>2 DEF Basic, Typed, TypeOK, Driver, Frame, CamPC, SetPC
<1> QED
  BY <1>1, BasicAlways, PTL

----------------------------------------------------------------------------
(* -e: every Every-th frame.                                                *)

LEMMA DivMod ==
  ASSUME NEW n \in Nat \ {0}, NEW x \in Nat
  PROVE  x = n * (x \div n) + (x % n) /\ x % n \in 0 .. n - 1 /\ x \div n \in Nat
OBVIOUS

LEMMA ModUnique ==
  ASSUME NEW n \in Nat \ {0}, NEW q \in Nat, NEW r \in 0 .. n - 1
  PROVE  (n * q + r) % n = r
OBVIOUS

\* Counting one on: within a group, and to the end of it.
LEMMA ModSucc ==
  ASSUME NEW n \in Nat \ {0}, NEW x \in Nat
  PROVE  (x + 1) % n = IF (x % n) + 1 = n THEN 0 ELSE (x % n) + 1
<1>1. PICK q \in Nat, r \in 0 .. n - 1 : x = n * q + r /\ r = x % n
  BY DivMod
<1>2. CASE r + 1 = n
  <2>1. x + 1 = n * (q + 1) + 0 /\ q + 1 \in Nat /\ 0 \in 0 .. n - 1
    BY <1>1, <1>2
  <2>2. (n * (q + 1) + 0) % n = 0
    BY <2>1, ModUnique
  <2> QED
    BY <1>1, <1>2, <2>1, <2>2
<1>3. CASE r + 1 # n
  <2>1. x + 1 = n * q + (r + 1) /\ r + 1 \in 0 .. n - 1
    BY <1>1, <1>3
  <2>2. (n * q + (r + 1)) % n = r + 1
    BY <2>1, ModUnique
  <2> QED
    BY <1>1, <1>3, <2>1, <2>2
<1> QED
  BY <1>2, <1>3

LEMMA ModSmall ==
  ASSUME NEW n \in Nat \ {0}, NEW r \in 0 .. n - 1
  PROVE  r % n = r /\ n % n = 0
OBVIOUS

\* The same, without %: the frames grabbed since the last one published are
\* whole groups of Every frames and those that every_count has counted, and
\* the frame that is about to be counted.
Position == /\ gap % Every = 0
            /\ grabs % Every = IF pc # "use" THEN every
                               ELSE IF every + 1 = Every THEN 0 ELSE every + 1

LEMMA PositionIsEveryNth ==
  ASSUME Basic
  PROVE  Position <=> EveryNth
<1>1. every \in 0 .. Every - 1 /\ every \in Nat
  BY EveryOK DEF Basic, Typed
<1>2. every % Every = every /\ Every % Every = 0
  BY <1>1, ModSmall, EveryOK
<1>3. (every + 1) % Every = IF every + 1 = Every THEN 0 ELSE every + 1
  <2>1. (every + 1) % Every = IF (every % Every) + 1 = Every THEN 0
                              ELSE (every % Every) + 1
    BY <1>1, ModSucc, EveryOK
  <2> QED
    BY <2>1, <1>2
<1>4. every + 0 = every
  BY <1>1
<1> QED
  BY <1>2, <1>3, <1>4 DEF Position, EveryNth

LEMMA PositionNext ==
  ASSUME Basic, Position, Next
  PROVE  Position'
<1>1. /\ every \in 0 .. Every - 1 /\ grabs \in Nat /\ Every \in Nat \ {0}
  BY EveryOK DEF Basic, Typed
<1>2. CASE Requeue
  <2>1. grabs % Every = every /\ grabs' = grabs + 1 /\ pc' = "use"
        /\ UNCHANGED <<every, gap>>
    BY <1>2 DEF Position, Requeue, CamGoto
  <2>2. (grabs + 1) % Every = IF (grabs % Every) + 1 = Every THEN 0
                              ELSE (grabs % Every) + 1
    BY <1>1, ModSucc
  <2> QED
    BY <2>1, <2>2 DEF Position
<1>3. CASE SkipFrame
  BY <1>1, <1>3 DEF SkipFrame, CamGoto, Position
<1>4. CASE DropFrame
  BY <1>1, <1>4 DEF DropFrame, CamGoto, Position
<1>5. CASE Publish
  <2>1. 0 % Every = 0
    BY <1>1, ModSmall
  <2> QED
    BY <1>1, <1>5, <2>1 DEF Publish, CamGoto, Position
<1>6. CASE /\ UNCHANGED <<every, grabs, gap>>
           /\ pc # "use" \/ pc' = "use"
           /\ pc' # "use" \/ pc = "use"
  BY <1>6 DEF Position
<1>7. CASE Capture \/ Stop \/ CmdResolution
  BY <1>6, <1>7 DEF Capture, Stop, CmdResolution, framevars
<1>8. ASSUME CamNext, ~Requeue, ~SkipFrame, ~DropFrame, ~Publish
      PROVE  Position'
  BY <1>6, <1>8 DEF CamNext, CamStep, CamTop, CamPaused, CamSelect, CamTimeout, SourceChange,
     CamNoEvent, Dequeue, DequeueRefused, CopyOut, RequeueRefused, GrabError, CamCancelled,
     Cancellable, CamLeave, CamGoto, framevars
<1>9. ASSUME NEW t \in Setters, SetNext(t)
      PROVE  Position'
  <2>1. UNCHANGED <<every, grabs, gap>>
    BY <1>9 DEF SetNext, SetStep, SetPause, SetOff, SetUnmap, SetClose, SetOpen, SetMap,
                SetFree, SetAlloc, SetOn, SetRefused, SetError, SetBreaks, framevars
  <2>2. pc' = pc \/ (t = Cam /\ spc[t] # "idle" /\ pc' \in {"top", "leave"})
    BY <1>9 DEF SetNext, SetStep, SetPause, SetOff, SetUnmap, SetClose, SetOpen, SetMap,
                SetFree, SetAlloc, SetOn, SetRefused, SetError, SetBreaks, Setting, SetGoto, SetReturn
  <2> QED
    BY <1>6, <2>1, <2>2 DEF Basic, Located
<1> QED
  BY <1>2, <1>3, <1>4, <1>5, <1>7, <1>8, <1>9 DEF Next

\* -e drops exactly Every - 1 frames for each one that may be used, also across
\* frames that are dropped for their size and changes of the resolution.
THEOREM EveryNthHolds == Spec => []EveryNth
<1>1. Init => Position
  <2>1. 0 % Every = 0
    BY EveryOK, ModSmall
  <2> QED
    BY <2>1 DEF Init, Position
<1>2. Basic /\ Position /\ [Next]_vars => Position'
  <2>1. CASE UNCHANGED vars
    BY <2>1 DEF vars, framevars, Position
  <2> QED
    BY <2>1, PositionNext
<1>3. Basic /\ Position => EveryNth
  BY PositionIsEveryNth
<1> QED
  BY <1>1, <1>2, <1>3, BasicAlways, PTL DEF Spec

----------------------------------------------------------------------------
(* The order of the frames.                                                 *)

\* A frame without a picture, or one newer than what was copied and what was
\* published.
Newer(f) == f.frame = 0 \/ (f.frame > pub /\ f.frame > tmp.frame)

\* A frame that waits is newer than the one in hand and those before it.
Placed(i) ==
    /\ Newer(driver.full[i]) /\ driver.full[i].frame <= captured
    /\ pc = "copy" /\ driver.full[i].frame # 0 =>
           driver.full[i].frame > hand[1].frame
    /\ \A j \in 1 .. i : j # i /\ driver.full[i].frame # 0 =>
           driver.full[i].frame > driver.full[j].frame

\* Frames wait in the order they were captured in; the one in hand was before
\* them, what was copied from it or an earlier one before that, and what was
\* published at the same time or earlier still.  What was just copied is newer
\* than all that was published.
Ordered ==
    /\ pub <= captured /\ tmp.frame <= captured
    /\ blank <=> tmp.frame = 0
    /\ blank \/ tmp.frame >= pub
    /\ pc \in {"requeue", "use"} => ignored \/ blank \/ tmp.frame > pub
    /\ pc = "copy" => Newer(hand[1]) /\ hand[1].frame <= captured
    /\ \A i \in 1 .. Len(driver.full) : Placed(i)

LEMMA FullFrames ==
  ASSUME Basic
  PROVE  /\ driver.full \in Seq(Frame) /\ Len(driver.full) \in Nat
         /\ \A i \in 1 .. Len(driver.full) :
                driver.full[i] \in Frame /\ driver.full[i].frame \in Nat
<1>1. driver.full \in Seq(Frame)
  BY DEF Basic, Typed, Driver
<1>2. \A i \in 1 .. Len(driver.full) : driver.full[i] \in Frame
  BY <1>1, ElementOfSeq
<1> QED
  BY <1>1, <1>2, LenProperties, BoundOK DEF Frame

\* Steps that leave the order alone, or forget frames.
LEMMA OrderedKept ==
  ASSUME Basic, Ordered, UNCHANGED <<pub, captured, ignored>>,
         \/ tmp'.frame = 0 /\ blank'
         \/ tmp'.frame = tmp.frame /\ blank' = blank,
         pc' \in {"requeue", "use"} => pc \in {"requeue", "use"},
         driver'.full \in {driver.full, <<>>},
         pc' = "copy" => pc = "copy" /\ hand' = hand
  PROVE  Ordered'
<1>1. pub \in Nat /\ captured \in Nat /\ tmp.frame \in Nat
  BY BoundOK DEF Basic, Typed
<1>2. pc = "copy" => hand[1].frame \in Nat
  BY InHand, BoundOK DEF Basic, Located, Frame
<1>3. \A f : Newer(f) /\ f.frame \in Nat => Newer(f)'
  BY <1>1 DEF Newer
<1>4. CASE driver'.full = driver.full
  BY <1>1, <1>2, <1>3, <1>4, FullFrames DEF Ordered, Placed
<1>5. CASE driver'.full = <<>>
  <2>1. 1 .. Len(driver'.full) = {}
    BY <1>5, EmptySeq
  <2> QED
    BY <1>1, <1>2, <1>3, <2>1 DEF Ordered
<1> QED
  BY <1>4, <1>5

LEMMA OrderedCapture ==
  ASSUME Basic, Ordered, Capture
  PROVE  Ordered'
<1>1. PICK b \in driver.empty,
           f \in {captured + 1} \cup (IF EmptyFrames THEN {0} ELSE {}) :
          driver' = [driver EXCEPT
                       !.empty = @ \ {b},
                       !.full = Append(@, [buf |-> b, frame |-> f, size |-> res])]
  BY DEF Capture
<1>2. PICK q : q = [buf |-> b, frame |-> f, size |-> res]
  OBVIOUS
<1> DEFINE s == driver.full
<1>0. PICK n \in Nat : n = Len(driver.full)
  BY FullFrames
<1>3. f \in 0 .. MaxFrame /\ q \in Frame /\ q.frame = f
  BY <1>2, BoundOK DEF Capture, Basic, Typed, Driver, Frame
<1>4. driver'.full = Append(s, q)
  BY <1>1, <1>2 DEF Basic, Typed, Driver
<1>5. /\ Len(driver'.full) = n + 1
      /\ \A i \in 1 .. n : driver'.full[i] = s[i]
      /\ driver'.full[n + 1] = q
  BY <1>0, <1>3, <1>4, FullFrames, AppendProperties
<1>6. /\ pub \in Nat /\ captured \in Nat /\ tmp.frame \in Nat
      /\ captured' = captured + 1
      /\ UNCHANGED <<pub, tmp, hand, pc, ignored, blank>>
  BY BoundOK DEF Basic, Typed, Capture, framevars
<1>7. pc = "copy" => hand[1].frame \in Nat
  BY InHand, BoundOK DEF Basic, Located, Frame
<1>8. \A g : Newer(g)' <=> Newer(g)
  BY <1>6 DEF Newer
<1>9. f = 0 \/ f = captured + 1
  OBVIOUS
<1>10. ASSUME NEW i \in 1 .. n
       PROVE  Placed(i)'
  <2>1. s[i].frame \in Nat /\ i \in Nat /\ 1 .. i \subseteq 1 .. n
    BY <1>0, <1>5, <1>10, FullFrames
  <2>2. \A j \in 1 .. i : driver'.full[j] = s[j]
    BY <1>5, <2>1
  <2> HIDE DEF s
  <2>3. driver'.full[i] = s[i] /\ Newer(s[i]) /\ s[i].frame <= captured
        /\ (pc = "copy" /\ s[i].frame # 0 => s[i].frame > hand[1].frame)
        /\ (\A j \in 1 .. i : j # i /\ s[i].frame # 0 => s[i].frame > s[j].frame)
    BY <1>0, <1>5, <1>10 DEF Ordered, Placed, s
  <2> QED
    BY <1>6, <1>8, <2>1, <2>2, <2>3 DEF Placed
<1>11. Placed(n + 1)'
  <2>1. \A j \in 1 .. n : s[j].frame \in Nat /\ s[j].frame <= captured
    BY <1>0, FullFrames DEF Ordered, Placed
  <2>2. ASSUME NEW j \in 1 .. n + 1, j # n + 1, f # 0
        PROVE  q.frame > driver'.full[j].frame
    <3>1. j \in 1 .. n /\ driver'.full[j] = s[j]
      BY <1>5, <2>2
    <3> HIDE DEF s
    <3> QED
      BY <1>3, <1>6, <1>9, <2>1, <2>2, <3>1
  <2>3. Newer(q)' /\ q.frame <= captured'
    BY <1>3, <1>6, <1>9 DEF Newer, Ordered
  <2> HIDE DEF s
  <2>4. pc' = "copy" /\ q.frame # 0 => q.frame > hand'[1].frame
    BY <1>3, <1>6, <1>7, <1>9 DEF Ordered
  <2> QED
    BY <1>3, <1>5, <2>2, <2>3, <2>4 DEF Placed
<1> HIDE DEF s
<1>12. \A i \in 1 .. Len(driver'.full) : Placed(i)'
  <2>1. \A i \in 1 .. n + 1 : i \in 1 .. n \/ i = n + 1
    BY <1>5
  <2> QED
    BY <1>5, <1>10, <1>11, <2>1
<1> QED
  BY <1>6, <1>7, <1>8, <1>12 DEF Ordered

LEMMA OrderedDequeue ==
  ASSUME Basic, Ordered, Dequeue
  PROVE  Ordered'
<1>0. PICK n \in Nat : n = Len(driver.full)
  BY FullFrames
<1>1. /\ n \in Nat \ {0} /\ hand' = <<driver.full[1]>> /\ pc = "grab" /\ pc' = "copy"
      /\ driver'.full = Tail(driver.full) /\ UNCHANGED <<pub, tmp, captured, blank>>
  BY <1>0, FullFrames, EmptySeq, HeadTailProperties
     DEF Dequeue, CamGoto, Basic, Typed, Driver, framevars
<1>2. /\ Len(driver'.full) = n - 1
      /\ \A i \in 1 .. n - 1 : driver'.full[i] = driver.full[i + 1]
  BY <1>0, <1>1, FullFrames, HeadTailProperties
<1>3. /\ pub \in Nat /\ captured \in Nat /\ tmp.frame \in Nat
      /\ \A g : Newer(g)' <=> Newer(g)
  BY <1>1, BoundOK DEF Basic, Typed, Newer
<1>4. hand'[1] = driver.full[1] /\ 1 \in 1 .. n
  BY <1>1
<1>5. Newer(hand[1])' /\ hand'[1].frame <= captured'
  BY <1>0, <1>1, <1>3, <1>4 DEF Ordered, Placed
<1>6. ASSUME NEW i \in 1 .. n - 1
      PROVE  Placed(i)'
  <2>1. i + 1 \in 1 .. n /\ 1 \in 1 .. i + 1
    BY <1>1
  <2>2. driver'.full[i] = driver.full[i + 1]
    BY <1>2
  <2>3. \A j \in 1 .. i : j + 1 \in 1 .. i + 1 /\ driver'.full[j] = driver.full[j + 1]
    BY <1>1, <1>2
  <2>4. Placed(i + 1)
    BY <1>0, <2>1 DEF Ordered
  <2> QED
    <3>1. Newer(driver.full[i])' /\ driver'.full[i].frame <= captured'
      BY <1>1, <1>3, <2>2, <2>4 DEF Placed
    <3>2. driver'.full[i].frame # 0 => driver'.full[i].frame > hand'[1].frame
      <4>1. i + 1 # 1 /\ hand'[1] = driver.full[1]
        BY <1>4
      <4> QED
        BY <2>1, <2>2, <2>4, <4>1 DEF Placed
    <3>3. ASSUME NEW j \in 1 .. i, j # i, driver'.full[i].frame # 0
          PROVE  driver'.full[i].frame > driver'.full[j].frame
      <4>1. j + 1 # i + 1
        BY <3>3
      <4> QED
        BY <2>2, <2>3, <2>4, <3>3, <4>1 DEF Placed
    <3> QED
      BY <3>1, <3>2, <3>3 DEF Placed
<1> QED
  BY <1>1, <1>2, <1>3, <1>5, <1>6 DEF Ordered

\* A frame is copied out: it is not older than the last one copied.
LEMMA OrderedCopyOut ==
  ASSUME Basic, Ordered, CopyOut
  PROVE  Ordered'
<1>1. /\ pub \in Nat /\ captured \in Nat /\ tmp.frame \in Nat
      /\ hand[1].frame \in Nat /\ pc = "copy" /\ pc' = "requeue"
      /\ UNCHANGED <<driver, pub, captured>>
  BY InHand, BoundOK
     DEF Basic, Typed, Located, Frame, CopyOut, CamGoto, devvars
<1>2. CASE hand[1].frame = 0
  <2>1. UNCHANGED tmp /\ ignored' /\ blank' = blank
    BY <1>2 DEF CopyOut, Basic, Typed
  <2>2. \A g : Newer(g)' <=> Newer(g)
    BY <1>1, <2>1 DEF Newer
  <2> QED
    BY <1>1, <2>1, <2>2 DEF Ordered, Placed
<1>3. CASE hand[1].frame # 0
  <2>1. /\ tmp'.frame = hand[1].frame /\ hand[1].frame > pub
        /\ hand[1].frame > tmp.frame /\ hand[1].frame <= captured
        /\ blank' = FALSE
    BY <1>1, <1>3 DEF CopyOut, Ordered, Newer, Basic, Typed
  <2>2. ASSUME NEW i \in 1 .. Len(driver.full)
        PROVE  Placed(i)'
    <3>1. Placed(i) /\ driver.full[i].frame \in Nat
      BY FullFrames DEF Ordered
    <3>2. Newer(driver.full[i])'
      BY <1>1, <2>1, <3>1 DEF Placed, Newer
    <3> QED
      BY <1>1, <3>1, <3>2 DEF Placed
  <2> QED
    BY <1>1, <1>3, <2>1, <2>2 DEF Ordered
<1> QED
  BY <1>2, <1>3

LEMMA OrderedPublish ==
  ASSUME Basic, Ordered, Publish
  PROVE  Ordered'
<1>1. /\ pub \in Nat /\ captured \in Nat /\ tmp.frame \in Nat /\ pc' = "other"
      /\ UNCHANGED <<driver, tmp, captured, ignored, blank>>
      /\ pub' = IF tmp.frame > pub THEN tmp.frame ELSE pub
  BY BoundOK DEF Basic, Typed, Publish, CamGoto, devvars
<1>2. ASSUME NEW i \in 1 .. Len(driver.full)
      PROVE  Placed(i)'
  <2>1. Placed(i) /\ driver.full[i].frame \in Nat
    BY FullFrames DEF Ordered
  <2>2. Newer(driver.full[i])'
    BY <1>1, <2>1 DEF Placed, Newer
  <2> QED
    BY <1>1, <2>1, <2>2 DEF Placed
<1> QED
  BY <1>1, <1>2 DEF Ordered

LEMMA OrderedNext ==
  ASSUME Basic, Ordered, [Next]_vars
  PROVE  Ordered'
<1> USE OrderedKept
<1>1. ASSUME Stop \/ CmdResolution \/ UNCHANGED vars
      PROVE  Ordered'
  BY <1>1 DEF Stop, CmdResolution, vars, devvars, framevars
<1>2. ASSUME CamNext, ~Dequeue, ~CopyOut, ~Publish
      PROVE  Ordered'
  <2>1. UNCHANGED <<pub, captured, ignored, blank>> /\ pc' # "copy"
    BY <1>2 DEF CamNext, CamStep, CamTop, CamPaused, CamSelect, CamTimeout,
       SourceChange, CamNoEvent, DequeueRefused, Requeue, RequeueRefused, GrabError,
       SkipFrame, DropFrame, CamCancelled, CamLeave, CamGoto, framevars
  <2>2. tmp'.frame = tmp.frame
    BY <1>2 DEF CamNext, CamStep, CamTop, CamPaused, CamSelect, CamTimeout,
       SourceChange, CamNoEvent, DequeueRefused, Requeue, RequeueRefused, GrabError,
       SkipFrame, DropFrame, CamCancelled, CamLeave, CamGoto, framevars, Basic, Typed
  <2>3. driver'.full \in {driver.full, <<>>}
    BY <1>2 DEF CamNext, CamStep, CamTop, CamPaused, CamSelect, CamTimeout,
       SourceChange, CamNoEvent, DequeueRefused, Requeue, RequeueRefused, GrabError,
       SkipFrame, DropFrame, CamCancelled, CamLeave, CamGoto, devvars, Basic, Typed, Driver, Off
  <2>4. pc' \in {"requeue", "use"} => pc \in {"requeue", "use"}
    BY <1>2 DEF CamNext, CamStep, CamTop, CamPaused, CamSelect, CamTimeout,
       SourceChange, CamNoEvent, DequeueRefused, Requeue, RequeueRefused, GrabError,
       SkipFrame, DropFrame, CamCancelled, CamLeave, CamGoto
  <2> QED
    BY <2>1, <2>2, <2>3, <2>4
<1>3. ASSUME NEW t \in Setters, SetNext(t)
      PROVE  Ordered'
  <2>1. UNCHANGED <<hand, pub, captured, ignored>> /\ pc' \in {pc, "top", "leave"}
    BY <1>3 DEF SetNext, SetStep, SetPause, SetOff, SetUnmap, SetClose, SetOpen,
       SetMap, SetFree, SetAlloc, SetOn, SetRefused, SetError, SetBreaks, SetGoto,
       SetReturn, framevars
  <2>2. \/ tmp'.frame = 0 /\ blank'
        \/ tmp'.frame = tmp.frame /\ blank' = blank
    BY <1>3 DEF SetNext, SetStep, SetPause, SetOff, SetUnmap, SetClose, SetOpen,
       SetMap, SetFree, SetAlloc, SetOn, SetRefused, SetError, SetBreaks, framevars,
       Basic, Typed
  <2>3. driver'.full \in {driver.full, <<>>}
    BY <1>3, SetDriver
  <2> QED
    BY <2>1, <2>2, <2>3
<1> QED
  BY <1>1, <1>2, <1>3, OrderedCapture, OrderedDequeue, OrderedCopyOut,
     OrderedPublish DEF Next

\* The frames on their way from the driver to the picture buffer are in the
\* order in which they were taken, in every state.
THEOREM OrderedAlways == Spec => []Ordered
<1>1. Init => Ordered
  <2> SUFFICES ASSUME Init PROVE Ordered
    OBVIOUS
  <2>1. 1 .. Len(driver.full) = {}
    BY EmptySeq DEF Init
  <2> QED
    BY <2>1 DEF Init, Ordered
<1> QED
  BY <1>1, OrderedNext, BasicAlways, PTL DEF Spec

\* Each picture published is newer than all before it, or the buffer grabbed
\* last was ignored and it is the one before once more, or none has come since
\* the buffer was allocated; whichever thread sets the resolution.
THEOREM PublishesFresh == Spec => FreshUnlessIgnored
<1>1. Basic /\ Ordered =>
        (Publish => \/ tmp.frame > pub
                    \/ ignored /\ tmp.frame = pub
                    \/ blank /\ tmp.frame = 0)
  <2> SUFFICES ASSUME Basic, Ordered, Publish, ~blank
               PROVE  tmp.frame > pub \/ (ignored /\ tmp.frame = pub)
    BY DEF Ordered
  <2>1. pc = "use" /\ tmp.frame \in Nat /\ pub \in Nat
    BY BoundOK DEF Publish, CamGoto, Basic, Typed
  <2> QED
    <3>1. tmp.frame >= pub
      BY DEF Ordered
    <3>2. tmp.frame > pub \/ tmp.frame = pub
      BY <2>1, <3>1
    <3>3. ignored \/ tmp.frame > pub
      BY <2>1, Zenon DEF Ordered
    <3> QED
      BY <3>2, <3>3, Zenon
<1> QED
  BY <1>1, OrderedAlways, BasicAlways, PTL DEF FreshUnlessIgnored

----------------------------------------------------------------------------
(* A device that only the camera thread sets up: buffers and resolution.    *)

Held(s) == {s[i].buf : i \in 1 .. Len(s)}

\* Every buffer is with the driver or with uvcGrab, once.
Whole == /\ driver.empty \cup Held(driver.full) \cup Held(hand) = Bufs
         /\ Cardinality(driver.empty) + Len(driver.full) + Len(hand)
                = Cardinality(Bufs)

Live == state = "ON" /\ open /\ mapped /\ driver.on /\ tmp.room = res

\* As init_v4l2 leaves the driver: all buffers queued, not yet streaming.
Fresh == [on |-> FALSE, empty |-> Bufs, full |-> <<>>]

\* What holds in the loop of cam_thread, and at each step of setResolution.
Phase ==
    /\ spc[Cmd] = "idle"
    /\ pc \notin {"change", "leave", "left"} =>
          /\ Live /\ Whole
          /\ \A i \in 1 .. Len(driver.full) : driver.full[i].size = res
    /\ pc = "copy" => hand[1].size = res
    /\ spc[Cam] \in {"pause", "off", "unmap", "free", "alloc", "on"} => open /\ mapped
    /\ spc[Cam] \in {"close", "map"} => open
    /\ spc[Cam] \in {"open", "map"} => driver = Off
    /\ spc[Cam] \in {"free", "alloc", "on"} => driver = Fresh
    /\ spc[Cam] = "on" => tmp.room = res

LEMMA HeldNone == Held(<<>>) = {}
BY EmptySeq DEF Held

LEMMA HeldOne ==
  ASSUME NEW f
  PROVE  Held(<<f>>) = {f.buf}
<1>1. Len(<<f>>) = 1 /\ <<f>>[1] = f /\ 1 .. 1 = {1}
  OBVIOUS
<1> QED
  BY <1>1 DEF Held

LEMMA HeldAppend ==
  ASSUME NEW s \in Seq(Frame), NEW f \in Frame
  PROVE  Held(Append(s, f)) = Held(s) \cup {f.buf}
<1>0. PICK n \in Nat : n = Len(s)
  BY LenProperties
<1>1. /\ Len(Append(s, f)) = n + 1 /\ Append(s, f)[n + 1] = f
      /\ \A i \in 1 .. n : Append(s, f)[i] = s[i]
  BY <1>0, AppendProperties
<1>2. \A i \in 1 .. n + 1 : i \in 1 .. n \/ i = n + 1
  OBVIOUS
<1>3. 1 .. n \subseteq 1 .. n + 1 /\ n + 1 \in 1 .. n + 1
  OBVIOUS
<1> QED
  BY <1>0, <1>1, <1>2, <1>3 DEF Held

LEMMA HeldTail ==
  ASSUME NEW s \in Seq(Frame), s # <<>>
  PROVE  Held(s) = Held(Tail(s)) \cup {Head(s).buf}
<1>0. PICK n \in Nat \ {0} : n = Len(s)
  BY EmptySeq
<1>1. /\ Len(Tail(s)) = n - 1 /\ Head(s) = s[1]
      /\ \A i \in 1 .. n - 1 : Tail(s)[i] = s[i + 1]
  BY <1>0, HeadTailProperties
<1>2. \A i \in 1 .. n : i = 1 \/ (i - 1 \in 1 .. n - 1 /\ (i - 1) + 1 = i)
  OBVIOUS
<1>3. 1 \in 1 .. n /\ \A i \in 1 .. n - 1 : i + 1 \in 1 .. n
  OBVIOUS
<1>4. ASSUME NEW b \in Held(s)
      PROVE  b \in Held(Tail(s)) \cup {Head(s).buf}
  <2>1. PICK i \in 1 .. n : b = s[i].buf
    BY <1>0, <1>4 DEF Held
  <2>2. CASE i # 1
    <3>1. i - 1 \in 1 .. n - 1 /\ Tail(s)[i - 1] = s[i]
      BY <1>1, <1>2, <2>2
    <3> QED
      BY <1>1, <2>1, <3>1 DEF Held
  <2> QED
    BY <1>1, <2>1, <2>2
<1>5. ASSUME NEW b \in Held(Tail(s)) \cup {Head(s).buf}
      PROVE  b \in Held(s)
  <2>1. CASE b = Head(s).buf
    BY <1>0, <1>1, <1>3, <2>1 DEF Held
  <2>2. CASE b \in Held(Tail(s))
    <3>1. PICK i \in 1 .. n - 1 : b = s[i + 1].buf
      BY <1>1, <2>2 DEF Held
    <3> QED
      BY <1>0, <1>3, <3>1 DEF Held
  <2> QED
    BY <1>5, <2>1, <2>2
<1> QED
  BY <1>4, <1>5

LEMMA EmptyFinite ==
  ASSUME Basic
  PROVE  /\ driver.empty \subseteq Bufs /\ IsFiniteSet(driver.empty)
         /\ Cardinality(driver.empty) \in Nat /\ Cardinality(Bufs) \in Nat
<1>1. driver.empty \subseteq Bufs
  BY DEF Basic, Typed, Driver
<1>2. IsFiniteSet(driver.empty)
  BY <1>1, BufsOK, FS_Subset
<1> QED
  BY <1>1, <1>2, BufsOK, FS_CardinalityType

\* A buffer that is filled moves from one end of the driver to the other.
LEMMA WholeCapture ==
  ASSUME Basic, Whole, Capture
  PROVE  Whole'
<1>1. PICK b \in driver.empty,
           f \in {captured + 1} \cup (IF EmptyFrames THEN {0} ELSE {}) :
          driver' = [driver EXCEPT
                       !.empty = @ \ {b},
                       !.full = Append(@, [buf |-> b, frame |-> f, size |-> res])]
  BY DEF Capture
<1>2. PICK q : q = [buf |-> b, frame |-> f, size |-> res]
  OBVIOUS
<1>3. q \in Frame /\ q.buf = b /\ hand' = hand
  BY <1>2, BoundOK DEF Capture, Basic, Typed, Driver, Frame
<1>4. driver'.full = Append(driver.full, q) /\ driver'.empty = driver.empty \ {b}
  BY <1>1, <1>2 DEF Basic, Typed, Driver
<1>5. Held(driver'.full) = Held(driver.full) \cup {b}
  BY <1>3, <1>4, FullFrames, HeldAppend
<1>6. Len(driver'.full) = Len(driver.full) + 1
  BY <1>3, <1>4, FullFrames, AppendProperties
<1>7. Cardinality(driver'.empty) = Cardinality(driver.empty) - 1
  BY <1>4, EmptyFinite, FS_RemoveElement
<1>8. driver'.empty \cup Held(driver'.full) \cup Held(hand') = Bufs
  BY <1>3, <1>4, <1>5 DEF Whole
<1>9. Cardinality(driver'.empty) + Len(driver'.full) + Len(hand') = Cardinality(Bufs)
  <2>1. PICK k \in Nat, m \in Nat, h \in Nat : /\ k = Cardinality(driver.empty)
                                            /\ m = Len(driver.full) /\ h = Len(hand)
    BY EmptyFinite, Lengths
  <2>2. k + m + h = Cardinality(Bufs)
    BY <2>1 DEF Whole
  <2>3. (k - 1) + (m + 1) + h = k + m + h
    OBVIOUS
  <2> QED
    BY <1>3, <1>6, <1>7, <2>1, <2>2, <2>3
<1> QED
  BY <1>8, <1>9 DEF Whole

LEMMA WholeDequeue ==
  ASSUME Basic, Whole, Dequeue
  PROVE  Whole'
<1>1. /\ driver.full # <<>> /\ driver'.full = Tail(driver.full)
      /\ driver'.empty = driver.empty /\ hand = <<>> /\ hand' = <<Head(driver.full)>>
  BY DEF Dequeue, CamGoto, Basic, Typed, Driver, Located
<1>2. Held(driver.full) = Held(driver'.full) \cup Held(hand') /\ Held(hand) = {}
  BY <1>1, FullFrames, HeldTail, HeldOne, HeldNone
<1>3. Len(driver'.full) = Len(driver.full) - 1 /\ Len(hand') = 1 /\ Len(hand) = 0
  BY <1>1, FullFrames, HeadTailProperties, EmptySeq, OneFrame
<1>4. driver'.empty \cup Held(driver'.full) \cup Held(hand') = Bufs
  BY <1>1, <1>2 DEF Whole
<1>5. Cardinality(driver'.empty) + Len(driver'.full) + Len(hand') = Cardinality(Bufs)
  <2>1. PICK k \in Nat, m \in Nat : /\ k = Cardinality(driver.empty)
                                  /\ m = Len(driver.full)
    BY EmptyFinite, Lengths
  <2>2. k + m + 0 = Cardinality(Bufs)
    BY <1>3, <2>1 DEF Whole
  <2>3. k + (m - 1) + 1 = k + m + 0
    OBVIOUS
  <2> QED
    BY <1>1, <1>3, <2>1, <2>2, <2>3
<1> QED
  BY <1>4, <1>5 DEF Whole

LEMMA WholeRequeue ==
  ASSUME Basic, Whole, Requeue
  PROVE  Whole'
<1>1. PICK f \in Frame : hand[1] = f /\ hand' = <<>> /\ Len(hand) = 1
  BY InHand DEF Requeue, CamGoto, Basic, Located
<1>2. /\ driver'.full = driver.full /\ driver'.empty = driver.empty \cup {f.buf}
      /\ f.buf \notin driver.empty
  BY <1>1 DEF Requeue, Basic, Typed, Driver, Queued
<1>3. Held(hand) = {f.buf} /\ Held(hand') = {} /\ Len(hand') = 0
  <2>1. 1 .. Len(hand) = {1}
    BY <1>1
  <2> QED
    BY <2>1, <1>1, HeldNone, EmptySeq DEF Held
<1>4. Cardinality(driver'.empty) = Cardinality(driver.empty) + 1
  BY <1>2, EmptyFinite, FS_AddElement
<1>5. driver'.empty \cup Held(driver'.full) \cup Held(hand') = Bufs
  BY <1>2, <1>3 DEF Whole
<1>6. Cardinality(driver'.empty) + Len(driver'.full) + Len(hand') = Cardinality(Bufs)
  <2>1. PICK k \in Nat, m \in Nat : /\ k = Cardinality(driver.empty)
                                  /\ m = Len(driver.full)
    BY EmptyFinite, Lengths
  <2>2. k + m + 1 = Cardinality(Bufs)
    BY <1>1, <2>1 DEF Whole
  <2>3. (k + 1) + m + 0 = k + m + 1
    OBVIOUS
  <2> QED
    BY <1>2, <1>3, <1>4, <2>1, <2>2, <2>3
<1> QED
  BY <1>5, <1>6 DEF Whole

LEMMA WholeFresh ==
  ASSUME driver.empty = Bufs, driver.full = <<>>, hand = <<>>
  PROVE  Whole
<1>1. Cardinality(Bufs) \in Nat /\ Len(<<>>) = 0
  BY BufsOK, FS_CardinalityType, EmptySeq
<1> QED
  BY <1>1, HeldNone DEF Whole

\* The frames that wait have the resolution of the device.
Sizes == \A i \in 1 .. Len(driver.full) : driver.full[i].size = res

LEMMA PhaseCapture ==
  ASSUME Basic, Phase, Capture
  PROVE  Phase'
<1>1. /\ UNCHANGED <<pc, spc, state, open, mapped, hand, res, tmp>>
      /\ driver.on /\ driver'.on
  BY DEF Capture, framevars, Basic, Typed, Driver
<1>2. spc[Cam] \notin {"open", "map", "free", "alloc", "on"}
  BY <1>1 DEF Phase, Off, Fresh
<1>3. ASSUME pc \notin {"change", "leave", "left"}
      PROVE  Live' /\ Whole' /\ Sizes'
  <2>1. Live' /\ Whole'
    BY <1>1, <1>3, WholeCapture DEF Phase, Live
  <2>2. PICK b \in driver.empty,
             f \in {captured + 1} \cup (IF EmptyFrames THEN {0} ELSE {}) :
          driver' = [driver EXCEPT
                       !.empty = @ \ {b},
                       !.full = Append(@, [buf |-> b, frame |-> f, size |-> res])]
    BY DEF Capture
  <2>3. PICK q : q = [buf |-> b, frame |-> f, size |-> res]
    OBVIOUS
  <2>4. q \in Frame /\ q.size = res
    BY <2>3, BoundOK DEF Capture, Basic, Typed, Driver, Frame
  <2>5. PICK n \in Nat : n = Len(driver.full)
    BY FullFrames
  <2>6. driver'.full = Append(driver.full, q)
    BY <2>2, <2>3 DEF Basic, Typed, Driver
  <2>7. /\ Len(driver'.full) = n + 1 /\ driver'.full[n + 1] = q
        /\ \A i \in 1 .. n : driver'.full[i] = driver.full[i]
    BY <2>4, <2>5, <2>6, FullFrames, AppendProperties
  <2>8. \A i \in 1 .. n + 1 : i \in 1 .. n \/ i = n + 1
    OBVIOUS
  <2>9. Sizes'
    BY <1>1, <1>3, <2>4, <2>5, <2>7, <2>8 DEF Phase, Sizes
  <2> QED
    BY <2>1, <2>9
<1> QED
  BY <1>1, <1>2, <1>3 DEF Phase, Sizes

LEMMA PhaseDequeue ==
  ASSUME Basic, Phase, Dequeue
  PROVE  Phase'
<1>0. PICK n \in Nat : n = Len(driver.full)
  BY FullFrames
<1>1. /\ n \in Nat \ {0} /\ hand' = <<driver.full[1]>> /\ pc = "grab" /\ pc' = "copy"
      /\ driver'.full = Tail(driver.full)
  BY <1>0, FullFrames, EmptySeq, HeadTailProperties
     DEF Dequeue, CamGoto, Basic, Typed, Driver, framevars
<1>a. driver'.on = driver.on /\ UNCHANGED <<spc, state, open, mapped, res, tmp>>
  BY DEF Dequeue, Basic, Typed, Driver, framevars
<1>2. /\ Len(driver'.full) = n - 1
      /\ \A i \in 1 .. n - 1 : driver'.full[i] = driver.full[i + 1]
  BY <1>0, <1>1, FullFrames, HeadTailProperties
<1>3. Sizes' /\ hand'[1].size = res'
  <2>1. 1 \in 1 .. n /\ \A i \in 1 .. n - 1 : i + 1 \in 1 .. n
    BY <1>1
  <2>2. hand'[1] = driver.full[1]
    BY <1>1
  <2> QED
    BY <1>0, <1>1, <1>a, <1>2, <2>1, <2>2 DEF Phase, Sizes
<1>4. Live' /\ Whole'
  BY <1>1, <1>a, WholeDequeue DEF Phase, Live
<1>5. spc[Cam] = "idle"
  BY <1>1 DEF Basic, Located
<1> QED
  BY <1>1, <1>a, <1>3, <1>4, <1>5 DEF Phase, Sizes

LEMMA PhaseRequeue ==
  ASSUME Basic, Phase, Requeue
  PROVE  Phase'
<1>1. /\ pc = "requeue" /\ pc' = "use"
      /\ driver'.full = driver.full /\ driver'.on = driver.on
      /\ UNCHANGED <<spc, state, open, mapped, res, tmp>>
  BY DEF Requeue, CamGoto, Basic, Typed, Driver
<1>2. Live' /\ Whole' /\ Sizes'
  BY <1>1, WholeRequeue DEF Phase, Live, Sizes
<1>3. spc[Cam] = "idle"
  BY <1>1 DEF Basic, Located
<1> QED
  BY <1>1, <1>2, <1>3 DEF Phase, Sizes

LEMMA PhaseCam ==
  ASSUME Basic, Phase, CamNext
  PROVE  Phase'
<1> SUFFICES ASSUME ~Dequeue, ~Requeue PROVE Phase'
  BY PhaseDequeue, PhaseRequeue
<1>1. CASE SourceChange
  <2>1. /\ pc \in {"select", "other"} /\ pc' = "change" /\ spc'[Cam] = "pause"
        /\ spc'[Cmd] = spc[Cmd]
        /\ UNCHANGED <<state, open, mapped, driver, res, hand, tmp>>
    BY <1>1, TwoThreads DEF SourceChange, CamGoto, Basic, Typed, Setters, devvars,
       framevars
  <2> QED
    BY <2>1 DEF Phase, Live
<1>2. CASE CamCancelled \/ CamLeave
  <2>1. /\ pc' \in {"leave", "left"} /\ spc'[Cmd] = spc[Cmd] /\ spc'[Cam] = "idle"
    BY <1>2, TwoThreads
       DEF CamCancelled, CamLeave, CamGoto, Basic, Typed, Located, Setters
  <2> QED
    BY <2>1 DEF Phase
<1>3. CASE CopyOut
  <2>1. /\ pc = "copy" /\ pc' = "requeue"
        /\ UNCHANGED <<spc, state, open, mapped, driver, res, hand>>
        /\ tmp'.room = tmp.room
    BY <1>3 DEF CopyOut, CamGoto, devvars, Basic, Typed
  <2>2. spc[Cam] = "idle"
    BY <2>1 DEF Basic, Located
  <2> QED
    BY <2>1, <2>2 DEF Phase, Live, Whole
<1>4. ASSUME CamNext, ~SourceChange, ~CamCancelled, ~CamLeave, ~CopyOut
      PROVE  Phase'
  <2>1. /\ pc \notin {"change", "leave", "left"} /\ pc' # "copy" /\ pc' # "change"
        /\ UNCHANGED <<spc, state, open, mapped, driver, res, hand, tmp>>
    BY <1>4 DEF CamNext, CamStep, CamTop, CamPaused, CamSelect, CamTimeout, CamNoEvent,
       DequeueRefused, RequeueRefused, GrabError, SkipFrame, DropFrame, Publish, CamGoto,
       devvars, framevars
  <2>2. spc[Cam] = "idle"
    BY <2>1 DEF Basic, Located
  <2> QED
    BY <2>1, <2>2 DEF Phase, Live, Whole
<1> QED
  BY <1>1, <1>2, <1>3, <1>4

LEMMA PhaseSet ==
  ASSUME Basic, Phase, NEW t \in Setters, SetNext(t)
  PROVE  Phase'
<1>1. t = Cam /\ pc = "change" /\ hand = <<>>
  <2>1. spc[t] # "idle"
    BY DEF SetNext, SetStep, SetPause, SetOff, SetUnmap, SetClose, SetOpen, SetMap, SetFree,
       SetAlloc, SetOn, SetRefused, SetError, SetBreaks, Setting
  <2> QED
    BY <2>1 DEF Basic, Located, Phase, Setters
<1>2. spc'[Cmd] = "idle" /\ hand' = hand
  BY <1>1, TwoThreads DEF SetNext, SetStep, SetPause, SetOff, SetUnmap, SetClose, SetOpen,
     SetMap, SetFree, SetAlloc, SetOn, SetRefused, SetError, SetBreaks, SetGoto, SetReturn, Basic, Typed,
     Phase, Setters
<1>3. CASE SetOn(t)
  <2>1. /\ spc[Cam] = "on" /\ spc'[Cam] = "idle" /\ pc' = "top"
        /\ driver'.on /\ driver'.empty = Bufs /\ driver'.full = <<>>
        /\ state' = "ON" /\ UNCHANGED <<open, mapped, res, tmp>>
    BY <1>1, <1>3 DEF SetOn, Setting, SetReturn, Basic, Typed, Setters, Phase, Fresh,
       framevars
  <2>2. Live'
    BY <2>1 DEF Phase, Live
  <2>3. Whole'
    <3>1. Cardinality(Bufs) \in Nat /\ Len(<<>>) = 0
      BY BufsOK, FS_CardinalityType, EmptySeq
    <3> QED
      BY <1>1, <1>2, <2>1, <3>1, HeldNone DEF Whole
  <2>4. 1 .. Len(driver'.full) = {}
    BY <2>1, EmptySeq
  <2> QED
    BY <1>2, <2>1, <2>2, <2>3, <2>4 DEF Phase
<1>4. CASE SetRefused(t) \/ SetError(t)
  <2>1. pc' = "leave" /\ spc'[Cam] = "idle"
    BY <1>1, <1>4 DEF SetRefused, SetError, SetBreaks, SetReturn, Basic, Typed, Setters
  <2> QED
    BY <1>2, <2>1 DEF Phase
<1> USE <1>1, <1>2
    DEF Phase, Setting, SetGoto, Basic, Typed, Setters, devvars, framevars
<1>5. CASE SetPause(t) BY <1>5 DEF SetPause
<1>6. CASE SetOff(t)   BY <1>6 DEF SetOff
<1>7. CASE SetUnmap(t) BY <1>7 DEF SetUnmap
<1>8. CASE SetClose(t) BY <1>8 DEF SetClose
<1>9. CASE SetOpen(t)  BY <1>9 DEF SetOpen
<1>10. CASE SetMap(t)
  <2>1. driver' = Fresh
    <3>1. driver = [on |-> FALSE, empty |-> {}, full |-> <<>>]
      BY <1>10 DEF SetMap, Off
    <3>2. driver' = [driver EXCEPT !.empty = Bufs, !.full = <<>>]
      BY <1>10 DEF SetMap
    <3> QED
      BY ONLY <3>1, <3>2 DEF Fresh
  <2> QED
    BY <1>10, <2>1 DEF SetMap
<1>11. CASE SetFree(t) BY <1>11 DEF SetFree
<1>12. CASE SetAlloc(t) BY <1>12 DEF SetAlloc
<1> QED
  BY <1>3, <1>4, <1>5, <1>6, <1>7, <1>8, <1>9, <1>10, <1>11, <1>12
     DEF SetNext, SetStep

\* While no system call has failed, each place of setResolution and of uvcGrab
\* goes with its own state of the device.
THEOREM PhaseAlways == Spec => [](Sound => Phase)
<1>1. Init => Phase
  <2> SUFFICES ASSUME Init PROVE Phase
    OBVIOUS
  <2>1. Whole
    BY WholeFresh DEF Init
  <2>2. 1 .. Len(driver.full) = {}
    BY EmptySeq DEF Init
  <2> QED
    BY <2>1, <2>2 DEF Init, Phase, Live, Setters
<1>2. Basic /\ (Sound => Phase) /\ [Next]_vars => (Sound => Phase)'
  <2> SUFFICES ASSUME Basic, [Next]_vars, Phase, Sound
               PROVE  Phase'
    BY DEF Next, vars, Sound, Commands
  <2>1. CASE UNCHANGED vars \/ Stop
    BY <2>1 DEF vars, Stop, devvars, framevars, Phase, Live, Whole
  <2>2. ~CmdResolution
    BY DEF CmdResolution, Sound
  <2> QED
    BY <2>1, <2>2, PhaseCapture, PhaseCam, PhaseSet DEF Next
<1> QED
  BY <1>1, <1>2, BasicAlways, PTL DEF Spec

\* When setResolution is over the device streams into buffers of its own
\* resolution, and uvcGrab copies from a mapped buffer into one with room.
THEOREM DeviceReady == Spec => []Ready
<1>1. ASSUME Basic, Sound => Phase PROVE Ready
  <2>1. Sound /\ Working /\ NoSetter => pc \notin {"change", "leave", "left"}
    BY <1>1 DEF Basic, Located, Working, NoSetter, Setters
  <2>2. Sound /\ pc = "copy" => Live /\ hand[1].size = res
    BY <1>1 DEF Phase
  <2>3. res \in Nat
    BY <1>1, ResOK DEF Basic, Typed
  <2> QED
    BY <1>1, <2>1, <2>2, <2>3 DEF Ready, Phase, Live
<1> QED
  BY <1>1, BasicAlways, PhaseAlways, PTL

\* Between two calls of setResolution no buffer is lost and none is in two
\* places: frames that are dropped, or hold no picture, do not starve the driver.
THEOREM NoBufferLost == Spec => []BuffersConserved
<1>1. ASSUME Basic, Sound => Phase PROVE BuffersConserved
  <2> SUFFICES ASSUME Sound, NoSetter, Working PROVE Whole
    BY DEF BuffersConserved, Whole, Queued, Held
  <2> QED
    BY <1>1 DEF Basic, Located, Working, NoSetter, Setters, Phase
<1> QED
  BY <1>1, BasicAlways, PhaseAlways, PTL
=============================================================================
