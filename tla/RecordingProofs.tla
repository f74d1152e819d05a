--------------------------- MODULE RecordingProofs ---------------------------
(* Proofs about Recording: a stop of the video recording leaves neither a   *)
(* loop nor an ffmpeg, and the recorder of video and sound is started when  *)
(* nobody else keeps the camera, for any number of shells, processes and    *)
(* commands.                                                                *)
EXTENDS Recording, SequenceTheorems, WellFoundedInduction, TLAPS

\* Lists of steps.  A step that needs a pid follows the one that started it.
IsList(l) == \E S : l \in Seq(S)
Linked(l) == \A i \in DOMAIN l : l[i].do \in {"write", "lock"} =>
                 i > 1 /\ l[i - 1].do = "start" /\ l[i - 1].arg # "mjpg"

\* What a step may be, if the recorder of video and sound may be started (av)
\* and if it may not.
StepOK(x, av) ==
    /\ x.do = "start" => x.arg \in Kinds \ {"ffmpeg"} /\ (av \/ x.arg \notin Execs)
    /\ x.do = "read"  => x.arg \in {"lock", "snap", "rec"}

\* A set of steps that holds those of their bodies, and a list of such steps.
Closed(S, av) == \A x \in S : StepOK(x, av) /\ x.body \in Seq(S) /\ Linked(x.body)
Good(l, av)   == \E S : Closed(S, av) /\ l \in Seq(S)

AvCommands == {"via_rec_av_start", "startGstrmAV"}

----------------------------------------------------------------------------
(* The inductive invariant.                                                 *)

LinkedOn(l) == \A i \in DOMAIN l : i > 1 /\ l[i].do \in {"write", "lock"} =>
                   l[i - 1].do = "start" /\ l[i - 1].arg # "mjpg"

\* A script is left with good steps; when the next one needs a pid, it has the
\* one that it started, which cannot have become an ffmpeg meanwhile.
ShellOK(s) ==
    LET l == shell[s].todo
    IN  /\ Good(l, shell[s].command \in AvCommands) /\ LinkedOn(l)
        /\ l # <<>> /\ l[1].do \in {"write", "lock"} =>
               Ps(s) # {} /\ \A p \in Ps(s) : kind[p] # "ffmpeg"

\* Scripts that run at the same time know of it.
Apart == \A s, t \in Shells : s # t /\ ~Idle(s) /\ ~Idle(t) => shell[s].overlap

\* What stoprecmjpg has left to do, from the last step to the first.
StopEnd  == <<Do("end", "mjpg")>>
StopIf   == <<StopServer>>
Stop5    == <<StopServerIfManual>>
Stop4    == <<Do("kill", "")>> \o Stop5
Stop3    == <<Do("list", "ffmpeg")>> \o Stop4
Stop2    == <<Do("kill", "")>> \o Stop3
Stop1    == <<Do("list", "loop")>> \o Stop2

NoLoop   == Running("loop") = {}
NoFfmpeg == Running("ffmpeg") = {}

\* Once the loops are gone no ffmpeg is started; then those there are go.
Stops(s) ==
    LET l     == shell[s].todo
        alone == ~shell[s].overlap
    IN  \/ l \in {<<>>, Stop1}
        \/ l = Stop2 /\ (alone => Running("loop") \subseteq Ps(s))
        \/ l = Stop3 /\ (alone => NoLoop)
        \/ l = Stop4 /\ (alone => NoLoop /\ Running("ffmpeg") \subseteq Ps(s))
        \/ l \in {Stop5, StopIf, StopEnd} /\ (alone => NoLoop /\ NoFfmpeg)

\* What via_rec_av_start and startGstrmAV have left to do.
StartAv  == <<Do("start", "c270")>>
StartWeb == <<Do("start", WebAv)>>
AvLast   == <<IfNone(WebAv, StartWeb)>>
AvEnd    == <<Do("end", "mjpg")>> \o AvLast
AvFirst  == <<IfSome("mjpg", <<Do("end", "mjpg")>>)>> \o AvLast

EndMjpg  == <<Do("end", "mjpg")>> \o StartAv
IfMjpg   == <<IfSome("mjpg", <<Do("end", "mjpg")>>)>> \o StartAv
Hand     == <<Agreed(<<IfSome("mjpg", <<Do("end", "mjpg")>>)>>)>> \o StartAv
EndAudio == <<Do("end", "audio")>> \o Hand
YesAudio == <<Agreed(<<Do("end", "audio")>>)>> \o Hand
AskAudio == <<Do("ask", "")>> \o YesAudio
AudioBody == <<Do("ask", ""), Agreed(<<Do("end", "audio")>>)>>
IfAudio  == <<IfSome("audio", AudioBody)>> \o Hand
Audio    == <<Agreed(<<IfSome("audio", AudioBody)>>)>> \o Hand
EndAv    == <<Do("end", "c270")>> \o Audio
YesAv    == <<Agreed(<<Do("end", "c270")>>)>> \o Audio
AskAv    == <<Do("ask", "")>> \o YesAv
AvBody   == <<Do("ask", ""), Agreed(<<Do("end", "c270")>>)>>
IfAv     == <<IfSome("av", AvBody)>> \o Audio

Told(k)  == Running(k) \subseteq told

\* A refusal is not taken back: nothing is asked after it.
Hands(s) ==
    LET l     == shell[s].todo
        alone == ~shell[s].overlap
        yes   == shell[s].statusConfirm
    IN  \/ l \in {<<>>, AvFirst, AvEnd, IfAv, AskAv, YesAv, EndAv}
        \/ l = AvLast /\ (alone => Told("mjpg"))
        \/ l \in {Audio, Hand} /\ (alone /\ yes => Told("c270"))
        \/ l \in {IfAudio, AskAudio, YesAudio, EndAudio, IfMjpg, EndMjpg}
               /\ (alone => Told("c270"))
        \/ l = StartAv /\ (alone /\ yes => Told("c270") /\ Told("mjpg"))
        \/ l = StartWeb /\ (alone => Told(WebAv) /\ Told("mjpg"))

ProcTyped ==
    /\ auto \subseteq {"mjpg", "snap", "loop"}
    /\ kind \in [Pids -> Kinds \cup {"none"}]
    /\ parent \in [Pids -> Pids \cup {0}] /\ told \subseteq Pids
    /\ {lockFile, snapFile, recFile} \subseteq Pids \cup {0}
    /\ cron \in {0, 1}
    /\ \A p \in Pids : parent[p] # 0 => kind[p] = "ffmpeg"

ShellTyped == \E C, L : shell \in [Shells -> [command : C, todo : L, ps : SUBSET Pids,
                                             statusConfirm : BOOLEAN,
                                             overlap : BOOLEAN]]

Scripted == /\ ProcTyped /\ ShellTyped /\ Apart
            /\ \A s \in Shells : ShellOK(s)

Inv == /\ Scripted
       /\ \A s \in Shells : shell[s].command = "stoprecmjpg" => Stops(s)
       /\ \A s \in Shells : shell[s].command \in AvCommands => Hands(s)

----------------------------------------------------------------------------
(* Lemmas about lists of steps.                                             *)

LEMMA ConsFacts ==
  ASSUME NEW h, NEW R, IsList(R)
  PROVE  /\ (<<h>> \o R)[1] = h /\ Tail(<<h>> \o R) = R
         /\ <<h>> \o R # <<>> /\ IsList(<<h>> \o R)
<1>1. PICK S : R \in Seq(S)
  BY DEF IsList
<1>2. <<h>> \in Seq(S \cup {h}) /\ R \in Seq(S \cup {h}) /\ Len(<<h>>) = 1 /\ <<h>>[1] = h
  BY <1>1, SeqMonotonic
<1>3. PICK q \in Seq(S \cup {h}) : q = <<h>>
  BY <1>2
<1>4. Len(q) = 1 /\ q[1] = h
  BY <1>2, <1>3
<1>5. /\ q \o R \in Seq(S \cup {h}) /\ Len(q \o R) = 1 + Len(R)
      /\ \A i \in 1 .. 1 + Len(R) : (q \o R)[i] = IF i <= 1 THEN q[i] ELSE R[i - 1]
  <2>1. /\ q \o R \in Seq(S \cup {h}) /\ Len(q \o R) = Len(q) + Len(R)
        /\ \A i \in 1 .. Len(q) + Len(R) :
               (q \o R)[i] = IF i <= Len(q) THEN q[i] ELSE R[i - Len(q)]
    BY <1>2, ConcatProperties
  <2> QED
    BY <1>4, <2>1
<1>6. PICK n \in Nat : n = Len(R)
  BY <1>2, LenProperties
<1>7. PICK u \in Seq(S \cup {h}) : u = q \o R
  BY <1>5
<1>8. Len(u) = n + 1 /\ u[1] = h /\ u # <<>> /\ \A i \in 1 .. n : u[i + 1] = R[i]
  <2>1. Len(u) = n + 1 /\ \A i \in 1 .. n + 1 : u[i] = IF i <= 1 THEN q[i] ELSE R[i - 1]
    BY <1>5, <1>6, <1>7
  <2>2. u[1] = h
    BY <2>1, <1>4
  <2>3. ASSUME NEW i \in 1 .. n PROVE u[i + 1] = R[i]
    BY <2>1
  <2> QED
    BY <2>1, <2>2, <2>3, EmptySeq
<1>9. Tail(u) \in Seq(S \cup {h}) /\ Len(Tail(u)) = n /\ \A i \in 1 .. n : Tail(u)[i] = R[i]
  BY <1>8, HeadTailProperties
<1>10. Tail(u) = R
  BY <1>2, <1>6, <1>9, SeqEqual
<1> QED
  BY <1>3, <1>7, <1>8, <1>10 DEF IsList

LEMMA NilFacts ==
  /\ IsList(<<>>)
  /\ \A R : IsList(R) => <<>> \o R = R /\ R \o <<>> = R
BY EmptySeq, ConcatEmptySeq DEF IsList

LEMMA ConsAssociative ==
  ASSUME NEW h, NEW Q, NEW R, IsList(Q), IsList(R)
  PROVE  (<<h>> \o Q) \o R = <<h>> \o (Q \o R)
<1>1. PICK S, T : Q \in Seq(S) /\ R \in Seq(T)
  BY DEF IsList
<1>2. /\ <<h>> \in Seq(S \cup T \cup {h}) /\ Q \in Seq(S \cup T \cup {h})
      /\ R \in Seq(S \cup T \cup {h})
  BY <1>1, SeqMonotonic
<1> QED
  BY <1>2, ConcatAssociative

LEMMA Singles ==
  ASSUME NEW h
  PROVE  IsList(<<h>>) /\ <<h>> \o <<>> = <<h>>
<1>1. <<h>> \in Seq({h})
  OBVIOUS
<1> QED
  BY <1>1, NilFacts DEF IsList

\* A tuple is its first step and the others.
LEMMA Pairs ==
  ASSUME NEW a, NEW b
  PROVE  <<a, b>> = <<a>> \o <<b>> /\ IsList(<<a, b>>)
<1>1. <<a>> \in Seq({a, b}) /\ <<b>> \in Seq({a, b}) /\ <<a, b>> \in Seq({a, b})
  OBVIOUS
<1>2. PICK q \in Seq({a, b}), r \in Seq({a, b}), s \in Seq({a, b}) :
         q = <<a>> /\ r = <<b>> /\ s = <<a, b>>
  BY <1>1
<1>3. Len(q) = 1 /\ Len(r) = 1 /\ Len(s) = 2 /\ q[1] = a /\ r[1] = b /\ s[1] = a /\ s[2] = b
  BY <1>2
<1>a. /\ q \o r \in Seq({a, b}) /\ Len(q \o r) = Len(q) + Len(r)
      /\ \A i \in 1 .. Len(q) + Len(r) :
             (q \o r)[i] = IF i <= Len(q) THEN q[i] ELSE r[i - Len(q)]
  BY ConcatProperties
<1>4. /\ q \o r \in Seq({a, b}) /\ Len(q \o r) = 2
      /\ (q \o r)[1] = a /\ (q \o r)[2] = b
  BY <1>3, <1>a
<1>5. q \o r = s
  <2>1. \A i \in 1 .. 2 : (q \o r)[i] = s[i]
    BY <1>3, <1>4
  <2> QED
    BY <1>3, <1>4, <2>1, SeqEqual
<1> QED
  BY <1>1, <1>2, <1>5 DEF IsList

LEMMA Triples ==
  ASSUME NEW a, NEW b, NEW c
  PROVE  <<a, b, c>> = <<a>> \o <<b, c>>
<1>1. <<a>> \in Seq({a, b, c}) /\ <<b, c>> \in Seq({a, b, c}) /\ <<a, b, c>> \in Seq({a, b, c})
  OBVIOUS
<1>2. PICK q \in Seq({a, b, c}), r \in Seq({a, b, c}), s \in Seq({a, b, c}) :
         q = <<a>> /\ r = <<b, c>> /\ s = <<a, b, c>>
  BY <1>1
<1>3. /\ Len(q) = 1 /\ Len(r) = 2 /\ Len(s) = 3 /\ q[1] = a
      /\ r[1] = b /\ r[2] = c /\ s[1] = a /\ s[2] = b /\ s[3] = c
  BY <1>2
<1>a. /\ q \o r \in Seq({a, b, c}) /\ Len(q \o r) = Len(q) + Len(r)
      /\ \A i \in 1 .. Len(q) + Len(r) :
             (q \o r)[i] = IF i <= Len(q) THEN q[i] ELSE r[i - Len(q)]
  BY ConcatProperties
<1>4. /\ q \o r \in Seq({a, b, c}) /\ Len(q \o r) = 3
      /\ (q \o r)[1] = a /\ (q \o r)[2] = b /\ (q \o r)[3] = c
  BY <1>3, <1>a
<1>5. q \o r = s
  <2>1. \A i \in 1 .. 3 : (q \o r)[i] = s[i]
    BY <1>3, <1>4
  <2> QED
    BY <1>3, <1>4, <2>1, SeqEqual
<1> QED
  BY <1>2, <1>5

LEMMA Quadruples ==
  ASSUME NEW a, NEW b, NEW c, NEW d
  PROVE  <<a, b>> \o <<c, d>> = <<a, b, c, d>>
<1> DEFINE S == {a, b, c, d}
<1>1. <<a, b>> \in Seq(S) /\ <<c, d>> \in Seq(S) /\ <<a, b, c, d>> \in Seq(S)
  OBVIOUS
<1>2. PICK q \in Seq(S), r \in Seq(S), s \in Seq(S) :
         q = <<a, b>> /\ r = <<c, d>> /\ s = <<a, b, c, d>>
  BY <1>1, Zenon
<1>3. /\ Len(q) = 2 /\ Len(r) = 2 /\ Len(s) = 4 /\ q[1] = a /\ q[2] = b
      /\ r[1] = c /\ r[2] = d /\ s[1] = a /\ s[2] = b /\ s[3] = c /\ s[4] = d
  BY <1>2
<1>a. /\ q \o r \in Seq(S) /\ Len(q \o r) = Len(q) + Len(r)
      /\ \A i \in 1 .. Len(q) + Len(r) :
             (q \o r)[i] = IF i <= Len(q) THEN q[i] ELSE r[i - Len(q)]
  BY ConcatProperties
<1>4. /\ q \o r \in Seq(S) /\ Len(q \o r) = 4
      /\ (q \o r)[1] = a /\ (q \o r)[2] = b /\ (q \o r)[3] = c /\ (q \o r)[4] = d
  BY <1>3, <1>a
<1>5. q \o r = s
  <2>1. \A i \in 1 .. 4 : (q \o r)[i] = s[i]
    BY <1>3, <1>4
  <2> QED
    BY <1>3, <1>4, <2>1, SeqEqual
<1> QED
  BY <1>2, <1>5

Five(a, b, c, d, e)   == <<a, b, c, d, e>>
Joined(a, b, c, d, e) == <<a>> \o (<<b>> \o (<<c>> \o <<d, e>>))

LEMMA Quintuples ==
  ASSUME NEW a, NEW b, NEW c, NEW d, NEW e
  PROVE  Five(a, b, c, d, e) = Joined(a, b, c, d, e)
<1> DEFINE S == {a, b, c, d, e}
<1>1. <<a>> \in Seq(S) /\ <<b>> \in Seq(S) /\ <<c, d, e>> \in Seq(S) /\ <<a, b, c, d, e>> \in Seq(S)
  OBVIOUS
<1>2. PICK q \in Seq(S), p \in Seq(S), r \in Seq(S), s \in Seq(S) :
         q = <<a>> /\ p = <<b>> /\ r = <<c, d, e>> /\ s = <<a, b, c, d, e>>
  BY <1>1, Zenon
<1>3. /\ Len(q) = 1 /\ Len(p) = 1 /\ Len(r) = 3 /\ Len(s) = 5 /\ q[1] = a /\ p[1] = b
      /\ r[1] = c /\ r[2] = d /\ r[3] = e
      /\ s[1] = a /\ s[2] = b /\ s[3] = c /\ s[4] = d /\ s[5] = e
  BY <1>2
<1>a. /\ p \o r \in Seq(S) /\ Len(p \o r) = Len(p) + Len(r)
      /\ \A i \in 1 .. Len(p) + Len(r) :
             (p \o r)[i] = IF i <= Len(p) THEN p[i] ELSE r[i - Len(p)]
  BY ConcatProperties
<1>4. /\ p \o r \in Seq(S) /\ Len(p \o r) = 4
      /\ (p \o r)[1] = b /\ (p \o r)[2] = c /\ (p \o r)[3] = d /\ (p \o r)[4] = e
  BY <1>3, <1>a
<1>5. PICK t \in Seq(S) : t = p \o r
  BY <1>4
<1>b. PICK u : u = q \o t
  OBVIOUS
<1>6. u \in Seq(S) /\ Len(u) = 5 /\ u[1] = a /\ u[2] = b /\ u[3] = c /\ u[4] = d /\ u[5] = e
  <2>1. /\ u \in Seq(S) /\ Len(u) = Len(q) + Len(t)
        /\ \A i \in 1 .. Len(q) + Len(t) : u[i] = IF i <= Len(q) THEN q[i] ELSE t[i - Len(q)]
    BY <1>b, ConcatProperties
  <2>2. Len(q) = 1 /\ Len(t) = 4 /\ t[1] = b /\ t[2] = c /\ t[3] = d /\ t[4] = e
    BY <1>3, <1>4, <1>5
  <2>3. Len(u) = 5 /\ \A i \in 1 .. 5 : u[i] = IF i <= 1 THEN q[i] ELSE t[i - 1]
    BY <2>1, <2>2
  <2> HIDE DEF S
  <2> QED
    BY <1>3, <2>1, <2>2, <2>3
<1>7. q \o t = s
  <2>1. \A i \in 1 .. 5 : i = 1 \/ i = 2 \/ i = 3 \/ i = 4 \/ i = 5
    OBVIOUS
  <2>2. \A i \in 1 .. 5 : u[i] = s[i]
    BY <1>3, <1>6, <2>1
  <2>3. Len(u) = Len(s) /\ \A i \in 1 .. Len(u) : u[i] = s[i]
    BY <1>3, <1>6, <2>2
  <2>4. \A Q : \A x, y \in Seq(Q) :
            (Len(x) = Len(y) /\ \A i \in 1 .. Len(x) : x[i] = y[i]) => x = y
    BY SeqEqual
  <2>5. u = s
    BY <1>6, <2>3, <2>4
  <2> QED
    BY <1>b, <2>5
<1>8. <<c, d, e>> = <<c>> \o <<d, e>>
  BY Triples
<1> QED
  BY <1>2, <1>5, <1>7, <1>8 DEF Five, Joined
----------------------------------------------------------------------------
(* The scripts are lists of good steps.                                     *)

GoodStep(x, av) == StepOK(x, av) /\ Good(x.body, av) /\ Linked(x.body)
NoPid(l)        == \A i \in DOMAIN l : l[i].do \notin {"write", "lock"}
Plain(l, av)    == Good(l, av) /\ NoPid(l)

LEMMA ClosedUnion ==
  ASSUME NEW S, NEW T, NEW av, Closed(S, av), Closed(T, av)
  PROVE  Closed(S \cup T, av)
<1> SUFFICES ASSUME NEW x \in S \cup T
             PROVE  StepOK(x, av) /\ x.body \in Seq(S \cup T) /\ Linked(x.body)
  BY DEF Closed
<1>1. CASE x \in S
  <2>1. StepOK(x, av) /\ x.body \in Seq(S) /\ Linked(x.body)
    BY <1>1 DEF Closed
  <2> QED
    BY <2>1, SeqMonotonic
<1>2. CASE x \in T
  <2>1. StepOK(x, av) /\ x.body \in Seq(T) /\ Linked(x.body)
    BY <1>2 DEF Closed
  <2> QED
    BY <2>1, SeqMonotonic
<1> QED
  BY <1>1, <1>2

LEMMA GoodConcat ==
  ASSUME NEW Q, NEW R, NEW av, Good(Q, av), Good(R, av)
  PROVE  Good(Q \o R, av)
<1>1. PICK S : Closed(S, av) /\ Q \in Seq(S)
  BY DEF Good
<1>2. PICK T : Closed(T, av) /\ R \in Seq(T)
  BY DEF Good
<1>3. Closed(S \cup T, av)
  BY <1>1, <1>2, ClosedUnion
<1>4. Q \in Seq(S \cup T) /\ R \in Seq(S \cup T)
  BY <1>1, <1>2, SeqMonotonic
<1>5. Q \o R \in Seq(S \cup T)
  BY <1>4, ConcatProperties
<1> QED
  BY <1>3, <1>5 DEF Good

LEMMA GoodOne ==
  ASSUME NEW x, NEW av, GoodStep(x, av)
  PROVE  Good(<<x>>, av)
<1>1. PICK S : Closed(S, av) /\ x.body \in Seq(S)
  BY DEF GoodStep, Good
<1>2. x.body \in Seq(S \cup {x})
  BY <1>1, SeqMonotonic
<1>3. Closed(S \cup {x}, av)
  <2> SUFFICES ASSUME NEW y \in S \cup {x}
               PROVE  StepOK(y, av) /\ y.body \in Seq(S \cup {x}) /\ Linked(y.body)
    BY DEF Closed
  <2>1. CASE y = x
    BY <1>2, <2>1 DEF GoodStep
  <2>2. CASE y \in S
    <3>1. StepOK(y, av) /\ y.body \in Seq(S) /\ Linked(y.body)
      BY <1>1, <2>2 DEF Closed
    <3> QED
      BY <3>1, SeqMonotonic
  <2> QED
    BY <2>1, <2>2
<1>4. <<x>> \in Seq(S \cup {x})
  OBVIOUS
<1> QED
  BY <1>3, <1>4 DEF Good

LEMMA GoodFirst ==
  ASSUME NEW l, NEW av, Good(l, av), l # <<>>
  PROVE  /\ GoodStep(l[1], av) /\ Good(Tail(l), av)
         /\ IsList(l) /\ IsList(Tail(l)) /\ IsList(l[1].body)
         /\ Len(l) \in Nat \ {0} /\ DOMAIN l = 1 .. Len(l)
         /\ Len(Tail(l)) = Len(l) - 1
         /\ DOMAIN Tail(l) = 1 .. Len(l) - 1
         /\ \A i \in 1 .. Len(l) - 1 : Tail(l)[i] = l[i + 1]
<1>1. PICK S : Closed(S, av) /\ l \in Seq(S)
  BY DEF Good
<1>2. l[1] \in S /\ Tail(l) \in Seq(S)
  BY <1>1
<1>3. Len(l) \in Nat \ {0} /\ DOMAIN l = 1 .. Len(l)
  BY <1>1, LenProperties, EmptySeq
<1>4. /\ Len(Tail(l)) = Len(l) - 1
      /\ \A i \in 1 .. Len(Tail(l)) : Tail(l)[i] = l[i + 1]
  BY <1>1, HeadTailProperties
<1>5. DOMAIN Tail(l) = 1 .. Len(Tail(l))
  BY <1>2, LenProperties
<1>6. StepOK(l[1], av) /\ l[1].body \in Seq(S) /\ Linked(l[1].body)
  BY <1>1, <1>2 DEF Closed
<1> QED
  BY <1>1, <1>2, <1>3, <1>4, <1>5, <1>6 DEF GoodStep, Good, IsList

LEMMA ConcatParts ==
  ASSUME NEW Q, NEW R, IsList(Q), IsList(R)
  PROVE  /\ IsList(Q \o R) /\ Len(Q) \in Nat /\ Len(R) \in Nat
         /\ DOMAIN Q = 1 .. Len(Q) /\ DOMAIN R = 1 .. Len(R)
         /\ DOMAIN (Q \o R) = 1 .. (Len(Q) + Len(R))
         /\ \A i \in 1 .. Len(Q) : (Q \o R)[i] = Q[i]
         /\ \A i \in 1 .. Len(R) : (Q \o R)[Len(Q) + i] = R[i]
<1>1. PICK S, T : Q \in Seq(S) /\ R \in Seq(T)
  BY DEF IsList
<1>2. Q \in Seq(S \cup T) /\ R \in Seq(S \cup T)
  BY <1>1, SeqMonotonic
<1>3. /\ Q \o R \in Seq(S \cup T) /\ Len(Q \o R) = Len(Q) + Len(R)
      /\ \A i \in 1 .. Len(Q) + Len(R) :
             (Q \o R)[i] = IF i <= Len(Q) THEN Q[i] ELSE R[i - Len(Q)]
  BY <1>2, ConcatProperties
<1>4. /\ Len(Q) \in Nat /\ Len(R) \in Nat
      /\ DOMAIN Q = 1 .. Len(Q) /\ DOMAIN R = 1 .. Len(R)
      /\ DOMAIN (Q \o R) = 1 .. (Len(Q) + Len(R))
  BY <1>2, <1>3, LenProperties
<1>5. PICK m \in Nat, n \in Nat : m = Len(Q) /\ n = Len(R)
  BY <1>4
<1>6. PICK u : u = Q \o R
  OBVIOUS
<1>7. \A i \in 1 .. m + n : u[i] = IF i <= m THEN Q[i] ELSE R[i - m]
  BY <1>3, <1>5, <1>6
<1>8. ASSUME NEW i \in 1 .. m PROVE u[i] = Q[i]
  BY <1>7
<1>9. ASSUME NEW i \in 1 .. n PROVE u[m + i] = R[i]
  <2>1. m + i \in 1 .. m + n /\ ~(m + i <= m) /\ (m + i) - m = i
    OBVIOUS
  <2> QED
    BY <1>7, <2>1
<1> QED
  BY <1>3, <1>4, <1>5, <1>6, <1>8, <1>9 DEF IsList

LEMMA PlainConcat ==
  ASSUME NEW Q, NEW R, NEW av, Plain(Q, av), Plain(R, av)
  PROVE  Plain(Q \o R, av)
<1>1. Good(Q \o R, av)
  BY GoodConcat DEF Plain
<1>2. IsList(Q) /\ IsList(R)
  BY DEF Plain, Good, IsList
<1>a. PICK m \in Nat, n \in Nat : m = Len(Q) /\ n = Len(R)
  BY <1>2, ConcatParts
<1>b. PICK u : u = Q \o R
  OBVIOUS
<1>3. /\ u = Q \o R /\ DOMAIN Q = 1 .. m /\ DOMAIN R = 1 .. n
      /\ DOMAIN u = 1 .. (m + n)
      /\ \A i \in 1 .. m : u[i] = Q[i]
      /\ \A i \in 1 .. n : u[m + i] = R[i]
  BY <1>2, <1>a, <1>b, ConcatParts
<1>4. ASSUME NEW i \in DOMAIN u PROVE u[i].do \notin {"write", "lock"}
  <2>1. CASE i \in 1 .. m
    BY <1>3, <2>1 DEF Plain, NoPid
  <2>2. CASE i \notin 1 .. m
    <3>1. i - m \in 1 .. n /\ m + (i - m) = i
      BY <1>3, <2>2
    <3>2. u[i] = R[i - m]
      BY <1>3, <3>1
    <3> QED
      BY <1>3, <3>1, <3>2 DEF Plain, NoPid
  <2> QED
    BY <2>1, <2>2
<1> QED
  BY <1>1, <1>3, <1>4 DEF Plain, NoPid

LEMMA PlainLinked ==
  ASSUME NEW l, NEW av, Plain(l, av)
  PROVE  Good(l, av) /\ Linked(l)
BY DEF Plain, NoPid, Linked

LEMMA PlainNil ==
  ASSUME NEW av
  PROVE  Plain(<<>>, av)
<1>1. Closed({}, av) /\ <<>> \in Seq({})
  BY EmptySeq DEF Closed
<1>2. NoPid(<<>>)
  BY DEF NoPid
<1> QED
  BY <1>1, <1>2 DEF Plain, Good

LEMMA PlainOne ==
  ASSUME NEW x, NEW av, GoodStep(x, av), x.do \notin {"write", "lock"}
  PROVE  Plain(<<x>>, av)
<1>1. NoPid(<<x>>)
  BY DEF NoPid
<1> QED
  BY <1>1, GoodOne DEF Plain

\* Tests whose body is plain, and steps that are no tests.
Tests == {"none", "some", "manual", "agreed", "nofile", "file"}

LEMMA PlainTest ==
  ASSUME NEW d \in Tests, NEW k, NEW b, NEW av, Plain(b, av)
  PROVE  Plain(<<[do |-> d, arg |-> k, body |-> b]>>, av)
<1>1. GoodStep([do |-> d, arg |-> k, body |-> b], av)
  BY PlainLinked DEF GoodStep, StepOK, Tests
<1> QED
  BY <1>1, PlainOne DEF Tests

LEMMA PlainDo ==
  ASSUME NEW d, NEW k, NEW av, d \notin {"write", "lock"},
         d = "start" => k \in Kinds \ {"ffmpeg"} /\ (av \/ k \notin Execs),
         d = "read" => k \in {"lock", "snap", "rec"}
  PROVE  Plain(<<Do(d, k)>>, av)
<1>1. Good(<<>>, av) /\ Linked(<<>>)
  BY PlainNil, PlainLinked
<1>2. GoodStep(Do(d, k), av)
  BY <1>1 DEF GoodStep, StepOK, Do
<1> QED
  BY <1>2, PlainOne DEF Do

Others == {"end", "ask", "list", "kill", "term", "remove", "killchildren",
           "addcronjob", "rmcronjob"}

LEMMA PlainOther ==
  ASSUME NEW d \in Others, NEW k, NEW av
  PROVE  Plain(<<Do(d, k)>>, av)
<1>1. d \notin {"write", "lock", "start", "read"}
  BY DEF Others
<1> QED
  BY <1>1, PlainDo

LEMMA PlainTwo ==
  ASSUME NEW a, NEW b, NEW av, Plain(<<a>>, av), Plain(<<b>>, av)
  PROVE  Plain(<<a, b>>, av)
BY Pairs, PlainConcat

LEMMA PlainThree ==
  ASSUME NEW a, NEW b, NEW c, NEW av, Plain(<<a>>, av), Plain(<<b>>, av), Plain(<<c>>, av)
  PROVE  Plain(<<a, b, c>>, av)
BY Triples, PlainTwo, PlainConcat

LEMMA PlainFive ==
  ASSUME NEW a, NEW b, NEW c, NEW d, NEW e, NEW av, Plain(<<a>>, av), Plain(<<b>>, av),
         Plain(<<c>>, av), Plain(<<d>>, av), Plain(<<e>>, av)
  PROVE  Plain(<<a, b, c, d, e>>, av)
<1>1. PICK R : R = <<b>> \o (<<c>> \o <<d, e>>) /\ Plain(R, av)
  BY PlainTwo, PlainConcat
<1>2. PICK q : q = <<a>> \o R /\ Plain(q, av)
  BY <1>1, PlainConcat
<1>3. <<a, b, c, d, e>> = q
  <2>1. Five(a, b, c, d, e) = Joined(a, b, c, d, e)
    BY Quintuples
  <2>2. q = Joined(a, b, c, d, e)
    BY <1>1, <1>2 DEF Joined
  <2> QED
    BY <2>1, <2>2 DEF Five
<1> QED
  BY <1>2, <1>3

LEMMA Bodies ==
  ASSUME NEW av
  PROVE  /\ Plain(<<StartServer>>, av) /\ Plain(<<StopServer>>, av)
         /\ Plain(<<StopServerIfManual>>, av) /\ Plain(<<CheckMutually>>, av)
<1>1. Plain(<<Do("start", "mjpg")>>, av)
  BY PlainDo DEF Kinds, Execs
<1>2. Plain(<<Do("end", "mjpg")>>, av) /\ Plain(<<Do("end", "c270")>>, av) /\ Plain(<<Do("ask", "")>>, av)
  BY PlainOther DEF Others
<1>3. Plain(<<StartServer>>, av)
  BY <1>1, PlainTest DEF Tests, StartServer, IfNone
<1>4. Plain(<<StopServer>>, av)
  BY <1>2, PlainTest DEF Tests, StopServer, IfSome
<1>5. Plain(<<StopServerIfManual>>, av)
  BY <1>4, PlainTest DEF Tests, StopServerIfManual, Manual
<1>6. Plain(<<Agreed(<<Do("end", "c270")>>)>>, av)
  BY <1>2, PlainTest DEF Tests, Agreed
<1>7. Plain(<<Do("ask", ""), Agreed(<<Do("end", "c270")>>)>>, av)
  BY <1>2, <1>6, PlainTwo
<1>8. Plain(<<CheckMutually>>, av)
  BY <1>7, PlainTest DEF Tests, CheckMutually, IfSome
<1> QED
  BY <1>3, <1>4, <1>5, <1>8

LEMMA Parts ==
  ASSUME NEW av
  PROVE  /\ Plain(CheckMutuallyRunning, av) /\ Plain(KillSnapshots, av)
         /\ Plain(StopRecMjpg, av) /\ Plain(StartSnapshots, av)
<1>1. Plain(CheckMutuallyRunning, av)
  <2>1. Plain(<<Do("end", "audio")>>, av) /\ Plain(<<Do("ask", "")>>, av)
    BY PlainOther DEF Others
  <2>2. Plain(<<Agreed(<<Do("end", "audio")>>)>>, av)
    BY <2>1, PlainTest DEF Tests, Agreed
  <2>3. Plain(<<Do("ask", ""), Agreed(<<Do("end", "audio")>>)>>, av)
    BY <2>1, <2>2, PlainTwo
  <2>4. Plain(<<IfSome("audio", <<Do("ask", ""), Agreed(<<Do("end", "audio")>>)>>)>>, av)
    BY <2>3, PlainTest DEF Tests, IfSome
  <2>5. Plain(<<Agreed(<<IfSome("audio", <<Do("ask", ""),
                                     Agreed(<<Do("end", "audio")>>)>>)>>)>>, av)
    BY <2>4, PlainTest DEF Tests, Agreed
  <2> QED
    BY <2>5, Bodies, PlainTwo DEF CheckMutuallyRunning
<1>2. Plain(KillSnapshots, av)
  <2>1. /\ Plain(<<Do("list", "snap")>>, av) /\ Plain(<<Do("kill", "")>>, av)
        /\ Plain(<<Do("rmcronjob", "")>>, av)
    BY PlainOther DEF Others
  <2> QED
    BY <2>1, PlainThree DEF KillSnapshots
<1>3. Plain(StopRecMjpg, av)
  <2>1. /\ Plain(<<Do("list", "loop")>>, av) /\ Plain(<<Do("kill", "")>>, av)
        /\ Plain(<<Do("list", "ffmpeg")>>, av)
    BY PlainOther DEF Others
  <2> QED
    BY <2>1, Bodies, PlainFive DEF StopRecMjpg
<1>4. Plain(StartSnapshots, av)
  <2>1. Plain(<<Do("addcronjob", "")>>, av)
    BY PlainOther DEF Others
  <2>2. Plain(<<Do("start", "snap")>>, av)
    BY PlainDo DEF Kinds, Execs
  <2> QED
    BY <2>1, <2>2, Bodies, PlainThree DEF StartSnapshots
<1> QED
  BY <1>1, <1>2, <1>3, <1>4

\* The steps that write a pid file or take the lock follow a start.
LEMMA Jobs ==
  ASSUME NEW av
  PROVE  /\ Good(<<Do("start", "job"), Do("lock", "")>>, av)
         /\ Linked(<<Do("start", "job"), Do("lock", "")>>)
         /\ Good(<<Do("start", "loop"), Do("write", "rec")>>, av)
         /\ Linked(<<Do("start", "loop"), Do("write", "rec")>>)
         /\ Good(StartSnapshots \o <<Do("write", "snap")>>, av)
         /\ Linked(StartSnapshots \o <<Do("write", "snap")>>)
<1>1. ASSUME NEW d, NEW k, d = "start" => k \in Kinds \ {"ffmpeg"} /\ k \notin Execs, d # "read"
      PROVE  Good(<<Do(d, k)>>, av)
  <2>1. Good(<<>>, av) /\ Linked(<<>>)
    BY PlainNil, PlainLinked
  <2>2. GoodStep(Do(d, k), av)
    BY <1>1, <2>1 DEF GoodStep, StepOK, Do
  <2> QED
    BY <2>2, GoodOne
<1>2. /\ Good(<<Do("start", "job")>>, av) /\ Good(<<Do("lock", "")>>, av)
      /\ Good(<<Do("start", "loop")>>, av) /\ Good(<<Do("write", "rec")>>, av)
      /\ Good(<<Do("write", "snap")>>, av)
  BY <1>1 DEF Kinds, Execs
<1>3. /\ Good(<<Do("start", "job"), Do("lock", "")>>, av)
      /\ Good(<<Do("start", "loop"), Do("write", "rec")>>, av)
  BY <1>2, Pairs, GoodConcat
<1>4. Good(StartSnapshots \o <<Do("write", "snap")>>, av)
  BY <1>2, Parts, GoodConcat DEF Plain
<1>5. ASSUME NEW k \in {"job", "loop"}, NEW d, NEW f
      PROVE  Linked(<<Do("start", k), Do(d, f)>>)
  <2>1. PICK l : l = <<Do("start", k), Do(d, f)>>
    OBVIOUS
  <2>2. /\ DOMAIN l = 1 .. 2 /\ l[1].do = "start" /\ l[1].arg # "mjpg"
    BY <2>1 DEF Do
  <2>3. ASSUME NEW i \in 1 .. 2, l[i].do \in {"write", "lock"}
        PROVE  i > 1 /\ l[i - 1].do = "start" /\ l[i - 1].arg # "mjpg"
    <3>1. i = 2
      BY <2>2, <2>3
    <3> QED
      BY <2>2, <3>1
  <2>4. Linked(l)
    BY <2>2, <2>3 DEF Linked
  <2> QED
    BY <2>1, <2>4
<1>6. Linked(StartSnapshots \o <<Do("write", "snap")>>)
  <2>1. PICK q, r : q = StartSnapshots /\ r = <<Do("write", "snap")>>
    OBVIOUS
  <2>2. IsList(q) /\ IsList(r)
    BY <2>1, Singles, Parts DEF Plain, Good, IsList
  <2>b. Len(q) = 3 /\ Len(r) = 1
    BY <2>1 DEF StartSnapshots
  <2>c. q[1] = StartServer /\ q[2] = Do("addcronjob", "") /\ q[3] = Do("start", "snap")
    BY <2>1 DEF StartSnapshots
  <2>d. /\ q[1].do \notin {"write", "lock"} /\ q[2].do \notin {"write", "lock"}
        /\ q[3].do = "start" /\ q[3].arg # "mjpg"
    <3>1. StartServer.do = "none"
      BY DEF StartServer, IfNone
    <3>2. /\ Do("addcronjob", "").do = "addcronjob"
          /\ Do("start", "snap").do = "start" /\ Do("start", "snap").arg = "snap"
      BY DEF Do
    <3> QED
      BY <2>c, <3>1, <3>2
  <2>3. /\ Len(q) = 3 /\ Len(r) = 1 /\ q[3].do = "start" /\ q[3].arg # "mjpg"
        /\ \A i \in 1 .. 3 : q[i].do \notin {"write", "lock"}
    BY <2>b, <2>d
  <2>4. PICK u : u = q \o r
    OBVIOUS
  <2>5. DOMAIN u = 1 .. 4 /\ \A i \in 1 .. 3 : u[i] = q[i]
    <3>1. /\ DOMAIN u = 1 .. (Len(q) + Len(r))
          /\ \A i \in 1 .. Len(q) : u[i] = q[i]
      BY <2>2, <2>4, ConcatParts
    <3> QED
      BY <2>b, <3>1
  <2>6. ASSUME NEW i \in 1 .. 4, u[i].do \in {"write", "lock"}
        PROVE  i > 1 /\ u[i - 1].do = "start" /\ u[i - 1].arg # "mjpg"
    <3>1. i = 4
      BY <2>3, <2>5, <2>6
    <3> QED
      BY <2>3, <2>5, <3>1
  <2>7. Linked(u)
    BY <2>5, <2>6 DEF Linked
  <2> QED
    BY <2>1, <2>4, <2>7
<1> QED
  BY <1>3, <1>4, <1>5, <1>6

LEMMA PlainService ==
  ASSUME NEW av
  PROVE  Plain(ServiceStart, av) /\ Plain(ServiceStop, av)
<1>1. ASSUME NEW d \in Tests, NEW k, NEW b, Good(b, av), Linked(b)
      PROVE  Plain(<<[do |-> d, arg |-> k, body |-> b]>>, av)
  <2>1. GoodStep([do |-> d, arg |-> k, body |-> b], av)
    BY <1>1 DEF GoodStep, StepOK, Tests
  <2> QED
    BY <2>1, PlainOne DEF Tests
<1>2. Plain(ServiceStart, av)
  <2>1. Plain(<<NoFile("lock", <<Do("start", "job"), Do("lock", "")>>)>>, av)
    BY <1>1, Jobs DEF NoFile, Tests
  <2>2. Plain(<<NoFile("snap", StartSnapshots \o <<Do("write", "snap")>>)>>, av)
    BY <1>1, Jobs DEF NoFile, Tests
  <2>3. Plain(<<NoFile("rec", <<Do("start", "loop"), Do("write", "rec")>>)>>, av)
    BY <1>1, Jobs DEF NoFile, Tests
  <2>4. Plain(<<>>, av)
    BY PlainNil
  <2>5. Plain(IF "snap" \in auto
                THEN <<NoFile("snap", StartSnapshots \o <<Do("write", "snap")>>)>>
                ELSE <<>>, av)
    BY <2>2, <2>4
  <2>6. Plain(IF "loop" \in auto
                THEN <<NoFile("rec", <<Do("start", "loop"), Do("write", "rec")>>)>>
                ELSE <<>>, av)
    BY <2>3, <2>4
  <2> QED
    BY <2>1, <2>5, <2>6, PlainConcat DEF ServiceStart
<1>3. Plain(ServiceStop, av)
  <2>a. Plain(<<Do("read", "lock")>>, av) /\ Plain(<<Do("read", "rec")>>, av)
    <3>1. ASSUME NEW k \in {"lock", "rec"} PROVE Plain(<<Do("read", k)>>, av)
      BY PlainDo
    <3> QED
      BY <3>1
  <2>1. /\ Plain(<<Do("remove", "snap")>>, av) /\ Plain(<<Do("remove", "rec")>>, av)
        /\ Plain(<<Do("term", "")>>, av) /\ Plain(<<Do("killchildren", "")>>, av)
    BY PlainOther DEF Others
  <2>2. Plain(<<Do("read", "lock"), Do("term", "")>>, av)
    BY <2>a, <2>1, PlainTwo
  <2>3. Plain(<<Do("remove", "snap"), Do("term", "")>>, av)
    BY <2>1, PlainTwo
  <2>4. Plain(<<Do("read", "rec"), Do("remove", "rec"), Do("killchildren", ""),
                Do("term", "")>>, av)
    <3>1. PICK a, b, c, d : /\ a = Do("read", "rec") /\ b = Do("remove", "rec")
                            /\ c = Do("killchildren", "") /\ d = Do("term", "")
      OBVIOUS
    <3>2. Plain(<<a, b>> \o <<c, d>>, av)
      BY <2>a, <2>1, <3>1, PlainTwo, PlainConcat
    <3>3. <<a, b>> \o <<c, d>> = <<a, b, c, d>>
      BY Quadruples
    <3> QED
      BY <3>1, <3>2, <3>3, Zenon
  <2>5. /\ Plain(<<File("lock", <<Do("read", "lock"), Do("term", "")>>)>>, av)
        /\ Plain(<<File("snap", <<Do("remove", "snap"), Do("term", "")>>)>>, av)
        /\ Plain(<<File("rec",  <<Do("read", "rec"), Do("remove", "rec"),
                                  Do("killchildren", ""), Do("term", "")>>)>>, av)
    BY <2>2, <2>3, <2>4, PlainTest DEF File, Tests
  <2> QED
    BY <2>5, PlainThree DEF ServiceStop
<1> QED
  BY <1>2, <1>3
\* Only two of the commands start the recorder of video and sound.
LEMMA Scripts ==
  ASSUME NEW c \in Commands
  PROVE  Plain(Script(c), c \in AvCommands)
<1>0. /\ c \in {"start_mjpgstrm", "startMJPGStreamer", "stop_mjpgstrm",
                "timelapse_start", "startRecSnapshots", "timelapse_stop"}
         \cup {"rec_video_start", "startrecmjpg", "stoprecmjpg",
               "via_rec_av_start", "via_rec_av_stop", "startGstrmAV",
               "via_rec_audio_start", "startGstrmA", "via_rec_audio_stop",
               "service_start", "service_stop"}
  BY CommandsOK
<1>1. CASE c = "start_mjpgstrm"
  BY <1>1, Bodies DEF Script
<1>2. CASE c = "startMJPGStreamer"
  <2>1. Plain(<<Agreed(<<StartServer>>)>>, c \in AvCommands)
    BY Bodies, PlainTest DEF Tests, Agreed
  <2>2. Plain(StartMJPGStreamer, c \in AvCommands)
    BY <2>1, Bodies, PlainTwo DEF StartMJPGStreamer
  <2> QED
    BY <1>2, <2>2 DEF Script
<1>3. CASE c = "stop_mjpgstrm"
  BY <1>3, Bodies DEF Script
<1>a. ASSUME NEW av
      PROVE  Plain(<<IfSome("ffmpeg", <<Do("end", "ffmpeg")>>)>>, av)
  <2>1. Plain(<<Do("end", "ffmpeg")>>, av)
    BY PlainOther DEF Others
  <2> QED
    BY <2>1, PlainTest DEF Tests, IfSome
<1>4. CASE c = "timelapse_start"
  <2>1. Plain(<<IfNone("snap", StartSnapshots)>>, c \in AvCommands)
    BY Parts, PlainTest DEF Tests, IfNone
  <2>2. Plain(TimelapseStart, c \in AvCommands)
    BY <2>1, <1>a, PlainTwo DEF TimelapseStart
  <2> QED
    BY <1>4, <2>2 DEF Script
<1>5. CASE c = "startRecSnapshots"
  <2>1. Plain(<<IfSome("ffmpeg", <<Do("end", "ffmpeg")>>)>> \o StartSnapshots,
              c \in AvCommands)
    BY <1>a, Parts, PlainConcat
  <2>2. Plain(<<Agreed(<<IfSome("ffmpeg", <<Do("end", "ffmpeg")>>)>> \o StartSnapshots)>>,
              c \in AvCommands)
    BY <2>1, PlainTest DEF Tests, Agreed
  <2>3. Plain(StartRecSnapshots, c \in AvCommands)
    BY <2>2, Bodies, PlainTwo DEF StartRecSnapshots
  <2> QED
    BY <1>5, <2>3 DEF Script
<1>6. CASE c = "timelapse_stop"
  <2>1. Plain(TimelapseStop, c \in AvCommands)
    BY Bodies, Parts, PlainConcat DEF TimelapseStop
  <2> QED
    BY <1>6, <2>1 DEF Script
<1>b. ASSUME NEW av
      PROVE  Plain(<<Do("start", "loop")>>, av)
  BY PlainDo DEF Kinds, Execs
<1>7. CASE c = "rec_video_start"
  <2>1. Plain(<<Do("end", "snap")>>, c \in AvCommands)
    BY PlainOther DEF Others
  <2>2. Plain(<<IfSome("snap", <<Do("end", "snap")>>)>>, c \in AvCommands)
    BY <2>1, PlainTest DEF Tests, IfSome
  <2>3. Plain(<<IfSome("snap", <<Do("end", "snap")>>), StartServer, Do("start", "loop")>>,
              c \in AvCommands)
    BY <1>b, <2>2, Bodies, PlainThree
  <2>4. Plain(RecVideoStart, c \in AvCommands)
    BY <2>3, PlainTest DEF Tests, IfNone, RecVideoStart
  <2> QED
    BY <1>7, <2>4 DEF Script
<1>8. CASE c = "startrecmjpg"
  <2>1. Plain(<<StartServer, Do("start", "loop")>>, c \in AvCommands)
    BY <1>b, Bodies, PlainTwo
  <2>2. Plain(KillSnapshots \o <<StartServer, Do("start", "loop")>>, c \in AvCommands)
    BY <2>1, Parts, PlainConcat
  <2>3. Plain(<<Agreed(KillSnapshots \o <<StartServer, Do("start", "loop")>>)>>,
              c \in AvCommands)
    BY <2>2, PlainTest DEF Tests, Agreed
  <2>4. Plain(StartRecMjpg, c \in AvCommands)
    BY <2>3, Bodies, PlainTwo DEF StartRecMjpg
  <2> QED
    BY <1>8, <2>4 DEF Script
<1>9. CASE c = "stoprecmjpg"
  BY <1>9, Parts DEF Script
<1>c. ASSUME NEW e \in Execs PROVE Plain(<<Do("start", e)>>, TRUE)
  <2>1. Good(<<>>, TRUE) /\ Linked(<<>>)
    BY PlainNil, PlainLinked
  <2>2. GoodStep(Do("start", e), TRUE)
    BY <2>1 DEF GoodStep, StepOK, Do, Kinds, Execs
  <2>3. Do("start", e).do \notin {"write", "lock"}
    BY DEF Do
  <2> QED
    BY <2>2, <2>3, PlainOne
<1>f. "c270" \in Execs /\ WebAv \in Execs
  BY WebAvOK DEF Execs
<1>d. Plain(<<IfSome("mjpg", <<Do("end", "mjpg")>>)>>, TRUE)
  BY Bodies DEF StopServer
<1>10. CASE c = "via_rec_av_start"
  <2>1. Plain(<<IfNone(WebAv, <<Do("start", WebAv)>>)>>, TRUE)
    BY <1>c, <1>f, PlainTest DEF Tests, IfNone
  <2>2. Plain(AvStart, TRUE)
    BY <2>1, <1>d, PlainTwo DEF AvStart
  <2>3. (c \in AvCommands) = TRUE
    BY <1>10 DEF AvCommands
  <2> QED
    BY <1>10, <2>2, <2>3 DEF Script
<1>11. CASE c = "via_rec_av_stop"
  <2>1. Plain(<<Do("end", WebAv)>>, c \in AvCommands)
    BY PlainOther DEF Others
  <2>2. Plain(AvStop, c \in AvCommands)
    BY <2>1, PlainTest DEF Tests, IfSome, AvStop
  <2> QED
    BY <1>11, <2>2 DEF Script
<1>12. CASE c = "startGstrmAV"
  <2>1. Plain(<<Agreed(<<IfSome("mjpg", <<Do("end", "mjpg")>>)>>)>>, TRUE)
    BY <1>d, PlainTest DEF Tests, Agreed
  <2>2. Plain(<<Agreed(<<IfSome("mjpg", <<Do("end", "mjpg")>>)>>), Do("start", "c270")>>, TRUE)
    BY <1>c, <1>f, <2>1, PlainTwo
  <2>3. Plain(StartGstrmAV, TRUE)
    BY <2>2, Parts, PlainConcat DEF StartGstrmAV
  <2>4. (c \in AvCommands) = TRUE
    BY <1>12 DEF AvCommands
  <2> QED
    BY <1>12, <2>3, <2>4 DEF Script
<1>e. ASSUME NEW av
      PROVE  Plain(<<IfNone("audio", <<Do("start", "audio")>>)>>, av)
  <2>1. Plain(<<Do("start", "audio")>>, av)
    BY PlainDo DEF Kinds, Execs
  <2> QED
    BY <2>1, PlainTest DEF Tests, IfNone
<1>13. CASE c = "via_rec_audio_start"
  BY <1>13, <1>e DEF Script, AudioStart
<1>14. CASE c = "startGstrmA"
  <2>1. Plain(<<Agreed(<<IfNone("audio", <<Do("start", "audio")>>)>>)>>, c \in AvCommands)
    BY <1>e, PlainTest DEF Tests, Agreed
  <2>2. Plain(StartGstrmA, c \in AvCommands)
    BY <2>1, Parts, PlainConcat DEF StartGstrmA
  <2> QED
    BY <1>14, <2>2 DEF Script
<1>15. CASE c = "via_rec_audio_stop"
  <2>1. Plain(<<Do("end", "audio")>>, c \in AvCommands)
    BY PlainOther DEF Others
  <2>2. Plain(AudioStop, c \in AvCommands)
    BY <2>1, PlainTest DEF Tests, IfSome, AudioStop
  <2> QED
    BY <1>15, <2>2 DEF Script
<1>16. CASE c = "service_start"
  BY <1>16, PlainService DEF Script
<1>17. CASE c = "service_stop"
  BY <1>17, PlainService DEF Script
<1> QED
  BY <1>0, <1>1, <1>2, <1>3, <1>4, <1>5, <1>6, <1>7, <1>8, <1>9, <1>10, <1>11, <1>12,
     <1>13, <1>14, <1>15, <1>16, <1>17

\* The lists of the invariant are those that the scripts leave.
LEMMA Shapes ==
  /\ Script("stoprecmjpg") = Stop1
  /\ Script("via_rec_av_start") = AvFirst
  /\ Script("startGstrmAV") = IfAv
<1>1. StopRecMjpg = Stop1
  <2>1. <<Do("kill", ""), StopServerIfManual>> = Stop4
    BY Pairs DEF Stop4, Stop5
  <2>2. StopRecMjpg = <<Do("list", "loop")>> \o (<<Do("kill", "")>> \o
                         (<<Do("list", "ffmpeg")>> \o <<Do("kill", ""), StopServerIfManual>>))
    <3>1. PICK a, b, c, d : /\ a = Do("list", "loop") /\ b = Do("kill", "")
                            /\ c = Do("list", "ffmpeg") /\ d = StopServerIfManual
      OBVIOUS
    <3>4. Five(a, b, c, b, d) = Joined(a, b, c, b, d)
      BY Quintuples
    <3>2. <<a, b, c, b, d>> = <<a>> \o (<<b>> \o (<<c>> \o <<b, d>>))
      BY <3>4 DEF Five, Joined
    <3>3. StopRecMjpg = <<a, b, c, b, d>>
      BY <3>1 DEF StopRecMjpg
    <3> QED
      BY <3>1, <3>2, <3>3
  <2> QED
    BY <2>1, <2>2, Zenon DEF Stop1, Stop2, Stop3
<1>2. AvStart = AvFirst
  BY Pairs, Zenon DEF AvStart, AvFirst, AvLast, StartWeb
<1>3. StartGstrmAV = IfAv
  <2>1. CheckMutuallyRunning =
            <<IfSome("av", AvBody)>> \o <<Agreed(<<IfSome("audio", AudioBody)>>)>>
    BY Pairs, Zenon DEF CheckMutuallyRunning, CheckMutually, AvBody, AudioBody
  <2>2. <<Agreed(<<IfSome("mjpg", <<Do("end", "mjpg")>>)>>), Do("start", "c270")>> = Hand
    BY Pairs, Zenon DEF Hand, StartAv
  <2>3. IsList(Hand) /\ IsList(<<Agreed(<<IfSome("audio", AudioBody)>>)>>)
    BY <2>2, Pairs, Singles
  <2>4. StartGstrmAV =
          (<<IfSome("av", AvBody)>> \o <<Agreed(<<IfSome("audio", AudioBody)>>)>>) \o Hand
    BY <2>1, <2>2, Zenon DEF StartGstrmAV
  <2>5. (<<IfSome("av", AvBody)>> \o <<Agreed(<<IfSome("audio", AudioBody)>>)>>) \o Hand
          = <<IfSome("av", AvBody)>> \o (<<Agreed(<<IfSome("audio", AudioBody)>>)>> \o Hand)
    BY <2>3, ConsAssociative
  <2> QED
    BY <2>4, <2>5, Zenon DEF IfAv, Audio
<1>4. /\ Script("stoprecmjpg") = StopRecMjpg /\ Script("via_rec_av_start") = AvStart
      /\ Script("startGstrmAV") = StartGstrmAV
  BY DEF Script
<1> QED
  BY <1>1, <1>2, <1>3, <1>4
\* What is left after a step that puts its body first, or does not.
LEMMA Rest ==
  ASSUME NEW l, NEW av, NEW b, Good(l, av), LinkedOn(l), l # <<>>,
         b = <<>> \/ (b = l[1].body /\ l[1].do # "start")
  PROVE  /\ Good(b \o Tail(l), av) /\ LinkedOn(b \o Tail(l))
         /\ b \o Tail(l) # <<>> /\ (b \o Tail(l))[1].do \in {"write", "lock"} =>
                b = <<>> /\ l[1].do = "start" /\ l[1].arg # "mjpg"
<1>1. /\ GoodStep(l[1], av) /\ Good(Tail(l), av) /\ IsList(Tail(l))
      /\ IsList(l[1].body)
      /\ Len(l) \in Nat \ {0} /\ DOMAIN l = 1 .. Len(l)
      /\ DOMAIN Tail(l) = 1 .. Len(l) - 1
      /\ \A i \in 1 .. Len(l) - 1 : Tail(l)[i] = l[i + 1]
  BY GoodFirst
<1>a. PICK n \in Nat : n + 1 = Len(l) /\ n = Len(l) - 1
  <2>1. ASSUME NEW k \in Nat \ {0} PROVE \E n \in Nat : n + 1 = k /\ n = k - 1
    <3>1. k - 1 \in Nat /\ (k - 1) + 1 = k
      OBVIOUS
    <3> QED
      BY <3>1
  <2> QED
    BY <1>1, <2>1
<1>b. PICK t : t = Tail(l)
  OBVIOUS
<1>2. n + 1 = Len(l) /\ n = Len(l) - 1 /\ t = Tail(l)
  BY <1>a, <1>b
<1>3. /\ DOMAIN l = 1 .. n + 1 /\ DOMAIN t = 1 .. n
      /\ \A i \in 1 .. n : t[i] = l[i + 1]
  BY <1>1, <1>2
<1>4. ASSUME NEW i \in 1 .. n, t[i].do \in {"write", "lock"}
      PROVE  l[i].do = "start" /\ l[i].arg # "mjpg"
  <2>1. i + 1 \in DOMAIN l /\ i + 1 > 1 /\ (i + 1) - 1 = i /\ t[i] = l[i + 1]
    BY <1>3
  <2> QED
    BY <1>4, <2>1 DEF LinkedOn
<1>5. LinkedOn(t)
  <2> SUFFICES ASSUME NEW i \in 1 .. n, i > 1, t[i].do \in {"write", "lock"}
               PROVE  t[i - 1].do = "start" /\ t[i - 1].arg # "mjpg"
    BY <1>3 DEF LinkedOn
  <2>1. i - 1 \in 1 .. n /\ (i - 1) + 1 = i
    OBVIOUS
  <2>2. t[i - 1] = l[i]
    BY <1>3, <2>1
  <2> QED
    BY <1>4, <2>2
<1>6. t # <<>> /\ t[1].do \in {"write", "lock"} => l[1].do = "start" /\ l[1].arg # "mjpg"
  <2> SUFFICES ASSUME t # <<>>, t[1].do \in {"write", "lock"}
               PROVE  l[1].do = "start" /\ l[1].arg # "mjpg"
    OBVIOUS
  <2>1. Good(t, av)
    BY <1>1, <1>2
  <2>2. Len(t) \in Nat \ {0} /\ DOMAIN t = 1 .. Len(t)
    BY <2>1, GoodFirst
  <2>3. 1 \in 1 .. n
    BY <1>3, <2>2
  <2> QED
    BY <1>4, <2>3
<1>7. CASE b = <<>>
  <2>1. b \o t = t
    BY <1>1, <1>2, <1>7, NilFacts
  <2> QED
    BY <1>1, <1>2, <1>5, <1>6, <1>7, <2>1
<1>8. CASE b # <<>> /\ b = l[1].body /\ l[1].do # "start"
  <2>1. Good(b, av) /\ Linked(b) /\ IsList(b) /\ Good(t, av) /\ IsList(t)
    BY <1>1, <1>2, <1>8 DEF GoodStep
  <2>2. Good(b \o t, av)
    BY <2>1, GoodConcat
  <2>3. Len(b) \in Nat \ {0}
    BY <1>8, <2>1, GoodFirst
  <2>4. PICK m \in Nat \ {0} : m = Len(b)
    BY <2>3
  <2>5. PICK u : u = b \o t
    OBVIOUS
  <2>6. Len(t) = n
    BY <1>3, <2>1, ConcatParts
  <2>7. /\ DOMAIN b = 1 .. m /\ DOMAIN u = 1 .. m + n
        /\ \A i \in 1 .. m : u[i] = b[i]
        /\ \A i \in 1 .. n : u[m + i] = t[i]
    BY <2>1, <2>4, <2>5, <2>6, ConcatParts
  <2>8. u[1].do \notin {"write", "lock"}
    <3>1. 1 \in DOMAIN b /\ u[1] = b[1]
      BY <2>7
    <3>2. ~(1 > 1)
      OBVIOUS
    <3> QED
      BY <2>1, <3>1, <3>2, Zenon DEF Linked
  <2>9. LinkedOn(u)
    <3> SUFFICES ASSUME NEW i \in 1 .. m + n, i > 1, u[i].do \in {"write", "lock"}
                 PROVE  u[i - 1].do = "start" /\ u[i - 1].arg # "mjpg"
      BY <2>7 DEF LinkedOn
    <3>1. CASE i \in 1 .. m
      <4>1. i - 1 \in 1 .. m /\ u[i] = b[i] /\ u[i - 1] = b[i - 1]
        BY <2>7, <3>1
      <4> QED
        BY <2>1, <2>7, <3>1, <4>1 DEF Linked
    <3>2. CASE i \notin 1 .. m /\ i - m > 1
      <4>1. i - m \in 1 .. n /\ (i - m) - 1 \in 1 .. n /\ m + (i - m) = i
            /\ m + ((i - m) - 1) = i - 1
        BY <3>2
      <4>2. u[i] = t[i - m] /\ u[i - 1] = t[(i - m) - 1]
        BY <2>7, <4>1
      <4> QED
        BY <1>3, <1>5, <3>2, <4>1, <4>2 DEF LinkedOn
    <3>3. CASE i = m + 1
      <4>1. 1 \in 1 .. n /\ u[i] = t[1]
        BY <2>7, <3>3
      <4> QED
        BY <1>4, <1>8, <4>1
    <3> QED
      BY <3>1, <3>2, <3>3
  <2> QED
    BY <1>2, <2>2, <2>5, <2>8, <2>9
<1> QED
  BY <1>7, <1>8

LEMMA GoodNil ==
  ASSUME NEW av
  PROVE  Good(<<>>, av) /\ LinkedOn(<<>>)
BY PlainNil, PlainLinked DEF LinkedOn, Linked

LEMMA ScriptGood ==
  ASSUME NEW c \in Commands
  PROVE  /\ Good(Script(c), c \in AvCommands) /\ LinkedOn(Script(c))
         /\ Script(c) # <<>> => Script(c)[1].do \notin {"write", "lock"}
<1>1. Plain(Script(c), c \in AvCommands)
  BY Scripts
<1>2. Script(c) # <<>> => 1 \in DOMAIN Script(c)
  BY <1>1, GoodFirst DEF Plain
<1> QED
  BY <1>1, <1>2 DEF Plain, NoPid, LinkedOn
----------------------------------------------------------------------------
(* The steps of a shell.                                                    *)

LEMMA PidsAreNat == Pids \subseteq Nat /\ 0 \notin Pids
BY BoundsOK DEF Pids

LEMMA NewPidFree ==
  ASSUME FreePids # {}
  PROVE  NewPid \in FreePids /\ NewPid \in Pids /\ kind[NewPid] = "none"
<1>1. FreePids \subseteq Nat
  BY PidsAreNat DEF FreePids, Running
<1>2. PICK p \in FreePids : \A q \in FreePids : ~(<<q, p>> \in OpToRel(<, Nat))
  BY <1>1, NatLessThanWellFounded, WFMin
<1>3. \A q \in FreePids : p <= q
  <2> SUFFICES ASSUME NEW q \in FreePids PROVE p <= q
    OBVIOUS
  <2>1. q < p => <<q, p>> \in OpToRel(<, Nat)
    BY <1>1 DEF OpToRel
  <2>2. ~(q < p)
    BY <1>2, <2>1
  <2>3. p \in Nat /\ q \in Nat
    BY <1>1
  <2> QED
    BY <2>2, <2>3
<1>4. NewPid \in FreePids
  BY <1>2, <1>3 DEF NewPid
<1> QED
  BY <1>4 DEF FreePids, Running

LEMMA StepFacts ==
  ASSUME ShellTyped, NEW s \in Shells, NEW b, NEW p \in SUBSET Pids, NEW y \in BOOLEAN,
         Step(s, b, p, y)
  PROVE  /\ ShellTyped'
         /\ \A t \in Shells \ {s} : shell'[t] = shell[t]
         /\ b \o Tail(shell[s].todo) = <<>> => shell'[s] = Prompt
         /\ b \o Tail(shell[s].todo) # <<>> =>
               /\ shell'[s].todo = b \o Tail(shell[s].todo)
               /\ shell'[s].ps = p /\ shell'[s].statusConfirm = y
               /\ shell'[s].command = shell[s].command
               /\ shell'[s].overlap = shell[s].overlap
<1> DEFINE rest == b \o Tail(shell[s].todo)
<1>1. PICK C, L : shell \in [Shells -> [command : C, todo : L, ps : SUBSET Pids,
                                       statusConfirm : BOOLEAN, overlap : BOOLEAN]]
  BY DEF ShellTyped
<1> DEFINE new == IF rest = <<>> THEN Prompt
                  ELSE [shell[s] EXCEPT !.todo = rest, !.ps = p, !.statusConfirm = y]
<1>2. shell' = [shell EXCEPT ![s] = new]
  BY DEF Step
<1>3. shell'[s] = new /\ \A t \in Shells \ {s} : shell'[t] = shell[t]
  BY <1>1, <1>2
<1>4. new \in [command : C \cup {""}, todo : L \cup {rest, <<>>}, ps : SUBSET Pids,
               statusConfirm : BOOLEAN, overlap : BOOLEAN]
  <2>1. Prompt \in [command : {""}, todo : {<<>>}, ps : SUBSET Pids,
                    statusConfirm : BOOLEAN, overlap : BOOLEAN]
    BY DEF Prompt
  <2>2. [shell[s] EXCEPT !.todo = rest, !.ps = p, !.statusConfirm = y]
          \in [command : C, todo : {rest}, ps : SUBSET Pids,
               statusConfirm : BOOLEAN, overlap : BOOLEAN]
    BY <1>1
  <2> QED
    BY <2>1, <2>2
<1>5. shell' \in [Shells -> [command : C \cup {""}, todo : L \cup {rest, <<>>},
                            ps : SUBSET Pids, statusConfirm : BOOLEAN, overlap : BOOLEAN]]
  <2> HIDE DEF new
  <2> QED
    BY <1>1, <1>2, <1>4
<1>6. ShellTyped'
  BY <1>5 DEF ShellTyped
<1> QED
  BY <1>1, <1>3, <1>6

LEMMA Prompted ==
  Prompt.command = "" /\ Prompt.todo = <<>> /\ Prompt.overlap = FALSE
<1>1. PICK l : l = <<>>
  OBVIOUS
<1>2. Prompt = [command |-> "", todo |-> l, ps |-> {}, statusConfirm |-> TRUE,
                overlap |-> FALSE]
  BY <1>1 DEF Prompt
<1> QED
  BY <1>1, <1>2

LEMMA PromptFacts ==
  ASSUME ShellTyped, NEW s \in Shells, shell' = [shell EXCEPT ![s] = Prompt]
  PROVE  /\ ShellTyped' /\ shell'[s] = Prompt
         /\ \A t \in Shells \ {s} : shell'[t] = shell[t]
<1>1. PICK C, L : shell \in [Shells -> [command : C, todo : L, ps : SUBSET Pids,
                                       statusConfirm : BOOLEAN, overlap : BOOLEAN]]
  BY DEF ShellTyped
<1>2. Prompt \in [command : C \cup {""}, todo : L \cup {<<>>}, ps : SUBSET Pids,
                  statusConfirm : BOOLEAN, overlap : BOOLEAN]
  BY DEF Prompt
<1>3. shell' \in [Shells -> [command : C \cup {""}, todo : L \cup {<<>>}, ps : SUBSET Pids,
                            statusConfirm : BOOLEAN, overlap : BOOLEAN]]
  BY <1>1, <1>2
<1> QED
  BY <1>1, <1>3 DEF ShellTyped

\* What a step of a shell does to the shell: its body is done next, or not; a
\* process that it started is in ps.
BodyOK(s, b) == b = <<>> \/ (b = Next1(s).body /\ Next1(s).do # "start")
PidOK(s, p)  == Next1(s).do = "start" /\ Next1(s).arg # "mjpg" =>
                    p # {} /\ \A q \in p : kind'[q] # "ffmpeg"
Moves(s) ==
    \/ shell' = [shell EXCEPT ![s] = Prompt]
    \/ \E b : \E p \in SUBSET Pids, y \in BOOLEAN :
          Step(s, b, p, y) /\ BodyOK(s, b) /\ PidOK(s, p)

LEMMA ShellMoves ==
  ASSUME ProcTyped, ShellTyped, NEW s \in Shells, ShellOK(s), ShellNext(s)
  PROVE  ~Idle(s) /\ Moves(s)
<1>1. Ps(s) \in SUBSET Pids /\ shell[s].statusConfirm \in BOOLEAN
  BY DEF ShellTyped, Ps
<1>2. ~Idle(s)
  BY DEF ShellNext, If, Ask, Start, Write, Lock, List, Read, Remove, Kill, KillChildren,
         End, Term, Cron, Is
<1> SUFFICES Moves(s)
  BY <1>2
<1>3. ASSUME NEW b, NEW p \in SUBSET Pids, NEW y \in BOOLEAN, Step(s, b, p, y),
             BodyOK(s, b), PidOK(s, p)
      PROVE  Moves(s)
  BY <1>3, Zenon DEF Moves
<1>4. ASSUME NEW b, Then(s, b), BodyOK(s, b), Next1(s).do = "start" => Next1(s).arg = "mjpg"
      PROVE  Moves(s)
  <2>1. PidOK(s, Ps(s))
    BY <1>4 DEF PidOK
  <2>2. Step(s, b, Ps(s), shell[s].statusConfirm)
    BY <1>4, Zenon DEF Then
  <2> QED
    BY <1>1, <1>3, <1>4, <2>1, <2>2, Zenon
<1>5. ASSUME NEW p \in SUBSET Pids, ThenPs(s, p), PidOK(s, p)
      PROVE  Moves(s)
  <2>1. Step(s, <<>>, p, shell[s].statusConfirm)
    BY <1>5, Zenon DEF ThenPs
  <2>2. BodyOK(s, <<>>)
    BY DEF BodyOK
  <2> QED
    BY <1>1, <1>3, <1>5, <2>1, <2>2, Zenon
<1>6. BodyOK(s, <<>>)
  BY DEF BodyOK
<1>7. CASE If(s)
  <2>1. Next1(s).do # "start"
    BY <1>7 DEF If
  <2>2. PICK b : b = (IF Test(s) THEN Next1(s).body ELSE <<>>)
    OBVIOUS
  <2>3. Then(s, b)
    BY <1>7, <2>2 DEF If
  <2>4. BodyOK(s, b)
    BY <2>1, <2>2 DEF BodyOK
  <2> QED
    BY <1>4, <2>1, <2>3, <2>4, Zenon
<1>8. CASE Ask(s)
  <2>1. PICK y \in BOOLEAN : Step(s, <<>>, Ps(s), y)
    BY <1>8 DEF Ask
  <2>2. PidOK(s, Ps(s))
    BY <1>8 DEF Ask, Is, PidOK
  <2> QED
    BY <1>1, <1>3, <1>6, <2>1, <2>2, Zenon
<1>9. CASE Start(s)
  <2>1. CASE Next1(s).arg = "mjpg" /\ Running("mjpg") # {}
    <3>1. Then(s, <<>>)
      BY <1>9, <2>1 DEF Start
    <3> QED
      BY <1>4, <1>6, <2>1, <3>1, Zenon
  <2>2. CASE ~(Next1(s).arg = "mjpg" /\ Running("mjpg") # {})
    <3>1. /\ FreePids # {} /\ kind' = [kind EXCEPT ![NewPid] = Next1(s).arg]
          /\ ThenPs(s, {NewPid})
      BY <1>9, <2>2 DEF Start
    <3>2. NewPid \in Pids
      BY <3>1, NewPidFree
    <3>3. Next1(s).arg # "ffmpeg"
      <4>1. GoodStep(Next1(s), shell[s].command \in AvCommands)
        BY <1>2, GoodFirst DEF ShellOK, Next1, Idle
      <4> QED
        BY <1>9, <4>1 DEF GoodStep, StepOK, Start, Is
    <3>4. kind'[NewPid] # "ffmpeg"
      BY <3>1, <3>2, <3>3 DEF ProcTyped
    <3>5. PICK p : p = {NewPid}
      OBVIOUS
    <3>6. p \in SUBSET Pids /\ p # {} /\ \A q \in p : kind'[q] # "ffmpeg"
      <4> HIDE DEF NewPid
      <4> QED
        BY <3>2, <3>4, <3>5
    <3>7. PidOK(s, p)
      BY <3>6, Zenon DEF PidOK
    <3>8. ThenPs(s, p)
      BY <3>1, <3>5, Zenon
    <3> QED
      BY <1>5, <3>6, <3>7, <3>8, Zenon
  <2> QED
    BY <2>1, <2>2
<1>10. CASE Lock(s)
  <2>1. Then(s, <<>>) \/ shell' = [shell EXCEPT ![s] = Prompt]
    BY <1>10 DEF Lock
  <2>2. Next1(s).do # "start"
    BY <1>10 DEF Lock, Is
  <2> QED
    BY <1>4, <1>6, <2>1, <2>2, Zenon DEF Moves
<1>11. CASE List(s)
  <2>1. Running(Next1(s).arg) \in SUBSET Pids
    BY DEF Running
  <2>2. ThenPs(s, Running(Next1(s).arg)) /\ PidOK(s, Running(Next1(s).arg))
    BY <1>11 DEF List, Is, PidOK
  <2> QED
    BY <1>5, <2>1, <2>2, Zenon
<1>12. CASE Read(s)
  <2>1. {FileOf(Next1(s).arg)} \ {0} \in SUBSET Pids
    <3>1. GoodStep(Next1(s), shell[s].command \in AvCommands)
      BY <1>2, GoodFirst DEF ShellOK, Next1, Idle
    <3>2. Next1(s).arg \in {"lock", "snap", "rec"}
      BY <1>12, <3>1 DEF GoodStep, StepOK, Read, Is
    <3> QED
      BY <3>2 DEF FileOf, ProcTyped
  <2>2. ThenPs(s, {FileOf(Next1(s).arg)} \ {0}) /\ PidOK(s, {FileOf(Next1(s).arg)} \ {0})
    BY <1>12 DEF Read, Is, PidOK
  <2> QED
    BY <1>5, <2>1, <2>2, Zenon
<1>13. CASE Write(s) \/ Remove(s) \/ Kill(s) \/ KillChildren(s) \/ End(s) \/ Term(s) \/ Cron(s)
  <2>1. Then(s, <<>>) /\ Next1(s).do # "start"
    BY <1>13 DEF Write, Remove, Kill, KillChildren, End, Term, Cron, Is
  <2> QED
    BY <1>4, <1>6, <2>1, Zenon
<1> QED
  BY <1>2, <1>7, <1>8, <1>9, <1>10, <1>11, <1>12, <1>13 DEF ShellNext
\* The steps of a shell keep the types of the processes and files; none makes
\* an ffmpeg, and run_job does not end one when it exits.
LEMMA ShellProcs ==
  ASSUME ProcTyped, ShellTyped, NEW s \in Shells, ShellOK(s), ShellNext(s)
  PROVE  ProcTyped' /\ \A p \in Pids : kind'[p] = "ffmpeg" => kind[p] = "ffmpeg"
<1>1. Ps(s) \subseteq Pids
  BY DEF ShellTyped, Ps
<1>2. ~Idle(s)
  BY ShellMoves
<1>3. GoodStep(Next1(s), shell[s].command \in AvCommands)
  BY <1>2, GoodFirst DEF ShellOK, Next1, Idle
<1>4. /\ Next1(s).do = "start" => Next1(s).arg \in Kinds \ {"ffmpeg"}
      /\ Next1(s).do = "read" => Next1(s).arg \in {"lock", "snap", "rec"}
  BY <1>3 DEF GoodStep, StepOK
<1>5. Next1(s).do \in {"write", "lock"} =>
          Ps(s) # {} /\ \A p \in Ps(s) : kind[p] # "ffmpeg"
  BY <1>2 DEF ShellOK, Next1, Idle
<1>6. CASE UNCHANGED <<procvars, filevars>> /\ UNCHANGED auto
  BY <1>6 DEF procvars, filevars, ProcTyped
<1>7. CASE Start(s) /\ UNCHANGED kind
  BY <1>7 DEF Start, filevars, ProcTyped
<1>8. CASE Start(s) /\ ~(Next1(s).arg = "mjpg" /\ Running("mjpg") # {})
  <2>1. FreePids # {} /\ kind' = [kind EXCEPT ![NewPid] = Next1(s).arg]
    BY <1>8 DEF Start
  <2>2. NewPid \in Pids /\ kind[NewPid] = "none"
    BY <2>1, NewPidFree
  <2>3. Next1(s).arg \in Kinds \ {"ffmpeg"}
    BY <1>4, <1>8 DEF Start, Is
  <2>4. PICK n : n = NewPid
    OBVIOUS
  <2>5. PICK k : k = Next1(s).arg
    OBVIOUS
  <2>6. kind' = [kind EXCEPT ![n] = k]
    BY <2>1, <2>4, <2>5
  <2>7. n \in Pids /\ kind[n] = "none" /\ k \in Kinds /\ k # "ffmpeg"
    BY <2>2, <2>3, <2>4, <2>5
  <2>8. /\ kind' \in [Pids -> Kinds \cup {"none"}]
        /\ \A p \in Pids : kind'[p] = IF p = n THEN k ELSE kind[p]
    BY <2>6, <2>7 DEF ProcTyped
  <2> QED
    BY <1>8, <2>7, <2>8 DEF Start, filevars, ProcTyped
<1>9. CASE Write(s)
  <2>1. (CHOOSE p \in Ps(s) : TRUE) \in Pids
    BY <1>1, <1>5, <1>9 DEF Write, Is
  <2>2. UNCHANGED <<auto, kind, parent, told, lockFile, cron>>
    BY <1>9 DEF Write, procvars
  <2>3. {snapFile', recFile'} \subseteq Pids \cup {0}
    BY <1>9, <2>1 DEF Write, ProcTyped
  <2> QED
    BY <2>2, <2>3 DEF ProcTyped
<1>10. CASE Lock(s)
  <2>1. (CHOOSE p \in Ps(s) : TRUE) \in Pids
    BY <1>1, <1>5, <1>10 DEF Lock, Is
  <2>2. UNCHANGED <<auto, parent, told, snapFile, recFile, cron>>
    BY <1>10 DEF Lock
  <2>3. lockFile' \in Pids \cup {0}
    BY <1>10, <2>1 DEF Lock
  <2>4. \/ kind' = kind
        \/ kind' = [p \in Pids |-> IF p \in Ps(s) THEN "none" ELSE kind[p]]
    BY <1>10 DEF Lock
  <2>5. \A p \in Ps(s) : kind[p] # "ffmpeg"
    BY <1>5, <1>10 DEF Lock, Is
  <2> QED
    BY <2>2, <2>3, <2>4, <2>5 DEF ProcTyped
<1>11. CASE Remove(s)
  <2>1. UNCHANGED <<auto, kind, parent, told, lockFile, cron>>
    BY <1>11 DEF Remove, procvars
  <2>2. {snapFile', recFile'} \subseteq Pids \cup {0}
    BY <1>11 DEF Remove, ProcTyped
  <2> QED
    BY <2>1, <2>2 DEF ProcTyped
<1>12. ASSUME NEW dead \in SUBSET Pids, Gone(dead), UNCHANGED <<auto, filevars>>
       PROVE  ProcTyped' /\ \A p \in Pids : kind'[p] = "ffmpeg" => kind[p] = "ffmpeg"
  BY <1>12 DEF Gone, filevars, ProcTyped
<1>13. CASE Kill(s)
  BY <1>1, <1>12, <1>13 DEF Kill
<1>14. CASE KillChildren(s)
  BY <1>12, <1>14 DEF KillChildren
<1>15. ASSUME NEW who \in SUBSET Pids, Signal(who), UNCHANGED <<auto, filevars>>
       PROVE  ProcTyped' /\ \A p \in Pids : kind'[p] = "ffmpeg" => kind[p] = "ffmpeg"
  BY <1>15 DEF Signal, filevars, ProcTyped
<1>16. CASE End(s)
  <2>1. Running(Next1(s).arg) \in SUBSET Pids
    BY DEF Running
  <2> QED
    BY <1>15, <1>16, <2>1 DEF End
<1>17. CASE Term(s)
  BY <1>1, <1>15, <1>17 DEF Term
<1>18. CASE Cron(s)
  BY <1>18 DEF Cron, procvars, ProcTyped
<1>19. CASE If(s) \/ Ask(s) \/ List(s) \/ Read(s)
  BY <1>6, <1>19 DEF If, Ask, List, Read
<1>20. CASE Start(s)
  BY <1>7, <1>8, <1>20 DEF Start
<1> QED
  BY <1>9, <1>10, <1>11, <1>13, <1>14, <1>16, <1>17, <1>18, <1>19, <1>20 DEF ShellNext
\* The steps of the processes: loops only go, an ffmpeg is only started by a
\* loop, and who has been told to end stays so until it does.
LEMMA ProcMoves ==
  ASSUME ProcTyped, NEW p \in Pids, ProcessNext(p)
  PROVE  /\ ProcTyped' /\ shell' = shell
         /\ Running("loop")' \subseteq Running("loop")
         /\ NoLoop => Running("ffmpeg")' \subseteq Running("ffmpeg")
         /\ \A k \in {"mjpg", "c270", "c910"} : Told(k) => Told(k)'
         /\ \A q \in Pids : kind'[q] = "ffmpeg" => kind[q] = "ffmpeg" \/ q \in FreePids
         /\ \A q \in Pids : kind'[q] \in Execs => kind[q] \in Execs
<1>1. CASE LoopRound(p)
  <2>1. /\ FreePids # {} /\ kind' = [kind EXCEPT ![NewPid] = "ffmpeg"]
        /\ parent' = [parent EXCEPT ![NewPid] = p]
        /\ UNCHANGED <<auto, told, filevars, shell>> /\ kind[p] = "loop"
    BY <1>1 DEF LoopRound
  <2>2. NewPid \in Pids /\ NewPid \in FreePids /\ kind[NewPid] = "none"
    BY <2>1, NewPidFree
  <2>3. PICK n : n = NewPid
    OBVIOUS
  <2>4. /\ kind' = [kind EXCEPT ![n] = "ffmpeg"] /\ parent' = [parent EXCEPT ![n] = p]
        /\ n \in Pids /\ n \in FreePids /\ kind[n] = "none"
    BY <2>1, <2>2, <2>3
  <2>5. /\ kind' \in [Pids -> Kinds \cup {"none"}] /\ parent' \in [Pids -> Pids \cup {0}]
        /\ \A q \in Pids : kind'[q] = IF q = n THEN "ffmpeg" ELSE kind[q]
        /\ \A q \in Pids : parent'[q] = IF q = n THEN p ELSE parent[q]
    BY <2>4 DEF ProcTyped, Kinds
  <2>6. ProcTyped'
    BY <2>1, <2>5 DEF ProcTyped, filevars
  <2>7. ~NoLoop
    BY <2>1 DEF NoLoop, Running
  <2>8. \A k \in {"loop", "mjpg", "c270", "c910"} : Running(k)' \subseteq Running(k)
    BY <2>5 DEF Running
  <2>9. \A k \in {"mjpg", "c270", "c910"} : Told(k) => Told(k)'
    BY <2>1, <2>8 DEF Told
  <2> QED
    BY <2>1, <2>4, <2>5, <2>6, <2>7, <2>8, <2>9 DEF Execs
<1>2. ASSUME Gone({p}), UNCHANGED <<auto, snapFile, recFile, cron, shell>>,
             lockFile' \in {lockFile, 0}
      PROVE  /\ ProcTyped' /\ shell' = shell
             /\ \A k \in Kinds : Running(k)' \subseteq Running(k)
             /\ \A k \in Kinds : Told(k) => Told(k)'
  <2>1. \A q \in Pids : kind'[q] = IF q = p THEN "none" ELSE kind[q]
    BY <1>2 DEF Gone
  <2>2. told' = told \ {p} /\ "none" \notin Kinds
    BY <1>2 DEF Gone, Kinds, Execs
  <2>3. ProcTyped'
    BY <1>2 DEF Gone, ProcTyped
  <2>4. \A k \in Kinds : Running(k)' \subseteq Running(k) \ {p}
    BY <2>1, <2>2 DEF Running
  <2>5. \A k \in Kinds : Told(k) => Told(k)'
    BY <2>2, <2>4 DEF Told
  <2> QED
    BY <1>2, <2>3, <2>4, <2>5
<1>3. CASE FfmpegEnds(p) \/ LoopEnds(p) \/ JobEnds(p) \/ ProgramEnds(p)
  <2>1. /\ Gone({p}) /\ UNCHANGED <<auto, snapFile, recFile, cron, shell>>
        /\ lockFile' \in {lockFile, 0}
    BY <1>3 DEF FfmpegEnds, LoopEnds, JobEnds, ProgramEnds, filevars
  <2>2. {"loop", "ffmpeg", "mjpg", "c270", "c910"} \cup Execs \subseteq Kinds
    BY DEF Kinds, Execs
  <2>3. \A q \in Pids, k \in Kinds : kind'[q] = k => kind[q] = k
    <3>1. \A k \in Kinds : Running(k)' \subseteq Running(k)
      BY <1>2, <2>1
    <3> QED
      BY <3>1 DEF Running
  <2> QED
    BY <1>2, <2>1, <2>2, <2>3
<1> QED
  BY <1>1, <1>3 DEF ProcessNext

\* After a step of its shell a script is as it should be.
LEMMA OwnStep ==
  ASSUME ProcTyped, ShellTyped, NEW s \in Shells, ShellOK(s), ShellNext(s)
  PROVE  /\ ShellTyped' /\ ShellOK(s)'
         /\ \A t \in Shells \ {s} : shell'[t] = shell[t]
         /\ \/ shell'[s] = Prompt
            \/ /\ shell'[s].command = shell[s].command
               /\ shell'[s].overlap = shell[s].overlap
<1>1. ~Idle(s) /\ Moves(s)
  BY ShellMoves
<1>2. ASSUME shell'[s] = Prompt PROVE ShellOK(s)'
  <2>1. shell'[s].todo = <<>>
    BY <1>2, Prompted
  <2> QED
    BY <1>2, <2>1, GoodNil DEF ShellOK
<1>3. CASE shell' = [shell EXCEPT ![s] = Prompt]
  BY <1>2, <1>3, PromptFacts
<1>4. CASE \E b : \E p \in SUBSET Pids, y \in BOOLEAN :
             Step(s, b, p, y) /\ BodyOK(s, b) /\ PidOK(s, p)
  <2>1. PICK b : \E p \in SUBSET Pids, y \in BOOLEAN :
                    Step(s, b, p, y) /\ BodyOK(s, b) /\ PidOK(s, p)
    BY <1>4, Zenon
  <2>2. PICK p \in SUBSET Pids, y \in BOOLEAN :
               Step(s, b, p, y) /\ BodyOK(s, b) /\ PidOK(s, p)
    BY <2>1, Zenon
  <2>3. /\ ShellTyped' /\ \A t \in Shells \ {s} : shell'[t] = shell[t]
        /\ b \o Tail(shell[s].todo) = <<>> => shell'[s] = Prompt
        /\ b \o Tail(shell[s].todo) # <<>> =>
               /\ shell'[s].todo = b \o Tail(shell[s].todo)
               /\ shell'[s].ps = p /\ shell'[s].statusConfirm = y
               /\ shell'[s].command = shell[s].command
               /\ shell'[s].overlap = shell[s].overlap
    BY <2>2, StepFacts
  <2>4. CASE b \o Tail(shell[s].todo) = <<>>
    BY <1>2, <2>3, <2>4
  <2>5. CASE b \o Tail(shell[s].todo) # <<>>
    <3> DEFINE av   == shell[s].command \in AvCommands
               rest == b \o Tail(shell[s].todo)
    <3>1. Good(shell[s].todo, av) /\ LinkedOn(shell[s].todo)
      BY DEF ShellOK
    <3>2. b = <<>> \/ (b = shell[s].todo[1].body /\ shell[s].todo[1].do # "start")
      BY <2>2 DEF BodyOK, Next1
    <3>3. /\ Good(rest, av) /\ LinkedOn(rest)
          /\ rest # <<>> /\ rest[1].do \in {"write", "lock"} =>
                 b = <<>> /\ shell[s].todo[1].do = "start" /\ shell[s].todo[1].arg # "mjpg"
      <4>1. shell[s].todo # <<>>
        BY <1>1 DEF Idle
      <4> QED
        BY <3>1, <3>2, <4>1, Rest
    <3>4. rest # <<>> /\ rest[1].do \in {"write", "lock"} =>
              p # {} /\ \A q \in p : kind'[q] # "ffmpeg"
      BY <2>2, <3>3 DEF PidOK, Next1
    <3> HIDE DEF av, rest
    <3>5. /\ shell'[s].todo = rest /\ (shell'[s].command \in AvCommands) = av
          /\ shell'[s].ps = p
      BY <2>3, <2>5 DEF rest, av
    <3>6. ShellOK(s)'
      BY <3>3, <3>4, <3>5 DEF ShellOK, Ps
    <3> QED
      BY <2>3, <2>5, <3>6
  <2> QED
    BY <2>4, <2>5
<1> QED
  BY <1>1, <1>3, <1>4 DEF Moves
\* A command that is given: its script is told if another one runs, and the
\* others are told of it.
LEMMA GiveFacts ==
  ASSUME ShellTyped, NEW s \in Shells, Give(s)
  PROVE  /\ Idle(s) /\ ShellTyped' /\ UNCHANGED <<auto, procvars, filevars>>
         /\ \E c \in Commands : /\ shell'[s].command = c /\ shell'[s].todo = Script(c)
                                /\ shell'[s].statusConfirm = TRUE
                                /\ shell'[s].overlap
                                     = ({t \in Shells \ {s} : ~Idle(t)} # {})
         /\ \A t \in Shells \ {s} :
               /\ shell'[t].command = shell[t].command
               /\ shell'[t].todo = shell[t].todo /\ shell'[t].ps = shell[t].ps
               /\ shell'[t].statusConfirm = shell[t].statusConfirm
               /\ shell'[t].overlap = (shell[t].overlap \/ ~Idle(t))
<1> DEFINE others == {t \in Shells \ {s} : ~Idle(t)}
<1>1. PICK C, L : shell \in [Shells -> [command : C, todo : L, ps : SUBSET Pids,
                                       statusConfirm : BOOLEAN, overlap : BOOLEAN]]
  BY DEF ShellTyped
<1>2. PICK c \in Commands :
         shell' = [t \in Shells |->
                      IF t = s THEN Runs(c, others # {})
                      ELSE [shell[t] EXCEPT !.overlap = @ \/ t \in others]]
  BY DEF Give
<1>a. PICK l : l = Script(c)
  OBVIOUS
<1>b. PICK yes \in BOOLEAN : yes = (others # {})
  OBVIOUS
<1>3. l = Script(c) /\ yes = (others # {})
  BY <1>a, <1>b
<1>4. PICK r : r = Runs(c, others # {})
  OBVIOUS
<1>5. r = [command |-> c, todo |-> l, ps |-> {}, statusConfirm |-> TRUE, overlap |-> yes]
  <2>1. PICK n : n = <<>>
    OBVIOUS
  <2>2. Prompt = [command |-> "", todo |-> n, ps |-> {}, statusConfirm |-> TRUE,
                  overlap |-> FALSE]
    BY <2>1 DEF Prompt
  <2>3. r = [Prompt EXCEPT !.command = c, !.todo = l, !.overlap = yes]
    BY <1>3, <1>4 DEF Runs
  <2> QED
    BY <2>2, <2>3
<1>6. ASSUME NEW t \in Shells \ {s}
      PROVE  /\ shell'[t] = [shell[t] EXCEPT !.overlap = @ \/ t \in others]
             /\ t \in others <=> ~Idle(t)
  BY <1>2
<1>7. shell'[s] = r
  BY <1>2, <1>4
<1>8. ASSUME NEW t \in Shells \ {s}
      PROVE  /\ shell'[t].command = shell[t].command
             /\ shell'[t].todo = shell[t].todo /\ shell'[t].ps = shell[t].ps
             /\ shell'[t].statusConfirm = shell[t].statusConfirm
             /\ shell'[t].overlap = (shell[t].overlap \/ ~Idle(t))
             /\ shell'[t] \in [command : C, todo : L, ps : SUBSET Pids,
                               statusConfirm : BOOLEAN, overlap : BOOLEAN]
  <2>1. PICK z \in BOOLEAN : z = ~Idle(t)
    BY DEF Idle
  <2>2. shell'[t] = [shell[t] EXCEPT !.overlap = @ \/ z]
    BY <1>6, <2>1
  <2>3. shell[t] \in [command : C, todo : L, ps : SUBSET Pids,
                      statusConfirm : BOOLEAN, overlap : BOOLEAN]
    BY <1>1
  <2> QED
    BY <2>1, <2>2, <2>3
<1>9. ShellTyped'
  <2> DEFINE R == [command : C \cup {c}, todo : L \cup {l}, ps : SUBSET Pids,
                   statusConfirm : BOOLEAN, overlap : BOOLEAN]
  <2>1. r \in R
    BY <1>5
  <2>2. \A t \in Shells \ {s} : shell'[t] \in R
    <3> SUFFICES ASSUME NEW t \in Shells \ {s} PROVE shell'[t] \in R
      OBVIOUS
    <3>1. shell'[t] \in [command : C, todo : L, ps : SUBSET Pids,
                         statusConfirm : BOOLEAN, overlap : BOOLEAN]
      BY <1>8
    <3> QED
      BY <3>1
  <2> HIDE DEF R
  <2>3. \A t \in Shells : shell'[t] \in R
    BY <1>7, <2>1, <2>2
  <2>4. shell' = [t \in Shells |-> shell'[t]]
    BY <1>2
  <2>5. shell' \in [Shells -> R]
    BY <2>3, <2>4
  <2> QED
    BY <2>5 DEF ShellTyped, R
<1>10. Idle(s) /\ UNCHANGED <<auto, procvars, filevars>>
  BY DEF Give
<1>11. /\ shell'[s].command = c /\ shell'[s].todo = Script(c)
       /\ shell'[s].statusConfirm = TRUE /\ shell'[s].overlap = (others # {})
  BY <1>3, <1>5, <1>7
<1> QED
  BY <1>8, <1>9, <1>10, <1>11

\* The scripts stay lists of good steps, and know of each other.
LEMMA ScriptedStep ==
  ASSUME Scripted, [Next]_vars
  PROVE  Scripted'
<1>1. ASSUME NEW s \in Shells, ShellNext(s)
      PROVE  Scripted'
  <2>1. /\ ProcTyped' /\ \A p \in Pids : kind'[p] = "ffmpeg" => kind[p] = "ffmpeg"
    BY <1>1, ShellProcs DEF Scripted
  <2>2. /\ ShellTyped' /\ ShellOK(s)'
        /\ \A t \in Shells \ {s} : shell'[t] = shell[t]
        /\ \/ shell'[s] = Prompt
           \/ shell'[s].command = shell[s].command /\ shell'[s].overlap = shell[s].overlap
    BY <1>1, OwnStep DEF Scripted
  <2>3. ASSUME NEW t \in Shells \ {s} PROVE ShellOK(t)'
    <3>1. ShellOK(t) /\ shell'[t] = shell[t] /\ Ps(t) \subseteq Pids
      BY <2>2 DEF Scripted, ShellTyped, Ps
    <3> QED
      BY <2>1, <3>1 DEF ShellOK, Ps
  <2>4. ~Idle(s) /\ (Idle(s)' \/ shell'[s].overlap = shell[s].overlap)
    <3>1. ~Idle(s)
      BY <1>1, ShellMoves DEF Scripted
    <3> QED
      BY <2>2, <3>1, Prompted DEF Idle
  <2>5. Apart'
    <3> SUFFICES ASSUME NEW t \in Shells, NEW u \in Shells, t # u, ~Idle(t)', ~Idle(u)'
                 PROVE  shell'[t].overlap
      BY DEF Apart
    <3>1. ~Idle(t) /\ ~Idle(u)
      BY <2>2, <2>4 DEF Idle
    <3>2. shell[t].overlap
      BY <3>1 DEF Scripted, Apart
    <3> QED
      BY <2>2, <2>4, <3>2
  <2> QED
    BY <2>1, <2>2, <2>3, <2>5 DEF Scripted
<1>2. ASSUME NEW s \in Shells, Give(s)
      PROVE  Scripted'
  <2>1. /\ Idle(s) /\ ShellTyped' /\ UNCHANGED <<auto, procvars, filevars>>
        /\ \A t \in Shells \ {s} :
              /\ shell'[t].command = shell[t].command
              /\ shell'[t].todo = shell[t].todo /\ shell'[t].ps = shell[t].ps
              /\ shell'[t].overlap = (shell[t].overlap \/ ~Idle(t))
    BY <1>2, GiveFacts DEF Scripted
  <2>2. PICK c \in Commands : /\ shell'[s].command = c /\ shell'[s].todo = Script(c)
                              /\ shell'[s].overlap
                                   = ({t \in Shells \ {s} : ~Idle(t)} # {})
    BY <1>2, GiveFacts DEF Scripted
  <2>3. ProcTyped'
    BY <2>1 DEF Scripted, ProcTyped, procvars, filevars
  <2>4. ShellOK(s)'
    BY <2>2, ScriptGood DEF ShellOK
  <2>5. ASSUME NEW t \in Shells \ {s} PROVE ShellOK(t)'
    <3>1. ShellOK(t) /\ kind' = kind
      BY <2>1 DEF Scripted, procvars
    <3> QED
      BY <2>1, <3>1 DEF ShellOK, Ps
  <2>6. Apart'
    <3> SUFFICES ASSUME NEW t \in Shells, NEW u \in Shells, t # u, ~Idle(t)', ~Idle(u)'
                 PROVE  shell'[t].overlap
      BY DEF Apart
    <3>1. CASE t = s
      <4>1. ~Idle(u) /\ u \in Shells \ {s}
        BY <2>1, <3>1 DEF Idle
      <4> QED
        BY <2>2, <3>1, <4>1
    <3>2. CASE t # s
      BY <2>1, <3>2 DEF Idle
    <3> QED
      BY <3>1, <3>2
  <2> QED
    BY <2>1, <2>3, <2>4, <2>5, <2>6 DEF Scripted
<1>3. ASSUME NEW p \in Pids, ProcessNext(p)
      PROVE  Scripted'
  <2>1. /\ ProcTyped' /\ shell' = shell
        /\ \A q \in Pids : kind'[q] = "ffmpeg" => kind[q] = "ffmpeg" \/ q \in FreePids
    BY <1>3, ProcMoves DEF Scripted
  <2>2. ASSUME NEW t \in Shells PROVE ShellOK(t)'
    <3>1. ShellOK(t) /\ Ps(t) \subseteq Pids /\ \A q \in FreePids : q \notin Ps(t)
      BY DEF Scripted, ShellTyped, Ps, FreePids
    <3> QED
      BY <2>1, <3>1 DEF ShellOK, Ps
  <2>3. ShellTyped' /\ Apart'
    BY <2>1 DEF Scripted, ShellTyped, Apart, Idle
  <2> QED
    BY <2>1, <2>2, <2>3 DEF Scripted
<1>4. CASE UNCHANGED vars
  BY <1>4 DEF vars, procvars, filevars, Scripted, ProcTyped, ShellTyped, Apart, ShellOK,
     Idle, Ps
<1> QED
  BY <1>1, <1>2, <1>3, <1>4 DEF Next
----------------------------------------------------------------------------
(* stoprecmjpg and the scripts that start the recorder of video and sound.  *)

\* What kind of step it is says which action is taken.
LEMMA ByStep ==
  ASSUME NEW s \in Shells, ShellNext(s)
  PROVE  /\ Next1(s).do = "list"  => List(s)
         /\ Next1(s).do = "kill"  => Kill(s)
         /\ Next1(s).do = "end"   => End(s)
         /\ Next1(s).do = "ask"   => Ask(s)
         /\ Next1(s).do = "start" => Start(s)
         /\ Next1(s).do \in {"none", "some", "manual", "agreed"} => If(s)
BY DEF ShellNext, If, Ask, Start, Write, Lock, List, Read, Remove, Kill, KillChildren,
       End, Term, Cron, Is

LEMMA AtStep ==
  ASSUME NEW s \in Shells, NEW h, NEW R, IsList(R), shell[s].todo = <<h>> \o R
  PROVE  Next1(s) = h /\ Tail(shell[s].todo) = R
BY ConsFacts DEF Next1

\* After a step with the body b before the list R, or nothing.
Done(s, u) ==
  \/ u = <<>> /\ shell'[s] = Prompt
  \/ /\ shell'[s].todo = u /\ shell'[s].todo # <<>>
     /\ shell'[s].ps = shell[s].ps
     /\ shell'[s].statusConfirm = shell[s].statusConfirm
     /\ shell'[s].command = shell[s].command
     /\ shell'[s].overlap = shell[s].overlap

LEMMA ThenTo ==
  ASSUME ShellTyped, NEW s \in Shells, NEW b, NEW R, Tail(shell[s].todo) = R, Then(s, b)
  PROVE  Done(s, b \o R)
<1>1. Ps(s) \in SUBSET Pids /\ shell[s].statusConfirm \in BOOLEAN
  BY DEF ShellTyped, Ps
<1>2. PICK p \in SUBSET Pids, y \in BOOLEAN : p = Ps(s) /\ y = shell[s].statusConfirm
  BY <1>1
<1>3. Step(s, b, p, y)
  BY <1>2, Zenon DEF Then
<1>4. /\ b \o Tail(shell[s].todo) = <<>> => shell'[s] = Prompt
      /\ b \o Tail(shell[s].todo) # <<>> =>
            /\ shell'[s].todo = b \o Tail(shell[s].todo)
            /\ shell'[s].ps = p /\ shell'[s].statusConfirm = y
            /\ shell'[s].command = shell[s].command
            /\ shell'[s].overlap = shell[s].overlap
  BY <1>3, StepFacts
<1> QED
  BY <1>2, <1>4 DEF Ps, Done

\* The lists of what is left, and their first steps.
LEMMA StopLists ==
  /\ IsList(<<>>) /\ IsList(Stop5) /\ IsList(Stop4) /\ IsList(Stop3) /\ IsList(Stop2)
  /\ StopEnd = <<Do("end", "mjpg")>> \o <<>> /\ StopIf = <<StopServer>> \o <<>>
  /\ Stop5 = <<StopServerIfManual>> \o <<>>
  /\ Stop1 # <<>> /\ Stop2 # <<>> /\ Stop3 # <<>> /\ Stop4 # <<>>
<1>1. IsList(<<>>) /\ IsList(Stop5)
  BY NilFacts, Singles DEF Stop5
<1>2. IsList(Stop4) /\ Stop4 # <<>>
  BY <1>1, ConsFacts, Zenon DEF Stop4
<1>3. IsList(Stop3) /\ Stop3 # <<>>
  BY <1>2, ConsFacts, Zenon DEF Stop3
<1>4. IsList(Stop2) /\ Stop2 # <<>>
  BY <1>3, ConsFacts, Zenon DEF Stop2
<1>5. Stop1 # <<>>
  BY <1>4, ConsFacts, Zenon DEF Stop1
<1>6. /\ StopEnd = <<Do("end", "mjpg")>> \o <<>> /\ StopIf = <<StopServer>> \o <<>>
      /\ Stop5 = <<StopServerIfManual>> \o <<>>
  BY Singles, Zenon DEF StopEnd, StopIf, Stop5
<1> QED
  BY <1>1, <1>2, <1>3, <1>4, <1>5, <1>6

\* What ps finds of one program, and of both recorders.
LEMMA FoundFacts ==
  /\ Found("mjpg") = Running("mjpg") /\ Found("audio") = Running("audio")
  /\ Found(WebAv) = Running(WebAv) /\ WebAv \in {"c270", "c910"}
  /\ Found("av") = {} => Running("c270") = {}
<1>1. WebAv # "av" /\ WebAv \in {"c270", "c910"} /\ "c270" \in Execs
  BY WebAvOK DEF Execs
<1>2. Found("av") = UNION {Running(e) : e \in Execs}
  BY Zenon DEF Found
<1>3. Running("c270") \subseteq Found("av")
  BY <1>1, <1>2
<1>4. \A k : k # "av" => Found(k) = Running(k)
  BY Zenon DEF Found
<1> QED
  BY <1>1, <1>3, <1>4

LEMMA AvLists ==
  /\ IsList(<<>>) /\ IsList(StartAv) /\ IsList(AvLast) /\ IsList(Hand) /\ IsList(YesAudio)
  /\ IsList(Audio) /\ IsList(YesAv) /\ IsList(StartWeb)
  /\ StartAv = <<Do("start", "c270")>> \o <<>> /\ StartWeb = <<Do("start", WebAv)>> \o <<>>
  /\ AvLast = <<IfNone(WebAv, StartWeb)>> \o <<>>
  /\ AudioBody \o Hand = AskAudio /\ AvBody \o Audio = AskAv
  /\ <<Do("end", "audio")>> \o Hand = EndAudio /\ <<Do("end", "c270")>> \o Audio = EndAv
  /\ \A l \in {StartAv, StartWeb, AvLast, Hand, YesAudio, Audio, YesAv} : <<>> \o l = l
<1>1. /\ IsList(<<>>) /\ IsList(StartAv) /\ IsList(StartWeb) /\ IsList(AvLast)
      /\ StartAv = <<Do("start", "c270")>> \o <<>>
      /\ StartWeb = <<Do("start", WebAv)>> \o <<>>
      /\ AvLast = <<IfNone(WebAv, StartWeb)>> \o <<>>
  BY NilFacts, Singles, Zenon DEF StartAv, StartWeb, AvLast
<1>2. IsList(Hand)
  BY <1>1, ConsFacts, Zenon DEF Hand
<1>3. IsList(YesAudio) /\ IsList(Audio)
  BY <1>2, ConsFacts, Zenon DEF YesAudio, Audio
<1>4. IsList(YesAv)
  BY <1>3, ConsFacts, Zenon DEF YesAv
<1>5. AudioBody \o Hand = AskAudio
  <2>1. AudioBody = <<Do("ask", "")>> \o <<Agreed(<<Do("end", "audio")>>)>>
    BY Pairs, Zenon DEF AudioBody
  <2>2. IsList(<<Agreed(<<Do("end", "audio")>>)>>)
    BY Singles
  <2>3. PICK h, q : h = Do("ask", "") /\ q = <<Agreed(<<Do("end", "audio")>>)>>
    BY Zenon
  <2>4. (<<h>> \o q) \o Hand = <<h>> \o (q \o Hand)
    <3>1. IsList(q) /\ IsList(Hand)
      BY <1>2, <2>2, <2>3, Zenon
    <3> QED
      BY <3>1, ConsAssociative
  <2> QED
    BY <2>1, <2>3, <2>4, Zenon DEF AskAudio, YesAudio
<1>6. AvBody \o Audio = AskAv
  <2>1. AvBody = <<Do("ask", "")>> \o <<Agreed(<<Do("end", "c270")>>)>>
    BY Pairs, Zenon DEF AvBody
  <2>2. IsList(<<Agreed(<<Do("end", "c270")>>)>>)
    BY Singles
  <2>3. PICK h, q : h = Do("ask", "") /\ q = <<Agreed(<<Do("end", "c270")>>)>>
    BY Zenon
  <2>4. (<<h>> \o q) \o Audio = <<h>> \o (q \o Audio)
    <3>1. IsList(q) /\ IsList(Audio)
      BY <1>3, <2>2, <2>3, Zenon
    <3> QED
      BY <3>1, ConsAssociative
  <2> QED
    BY <2>1, <2>3, <2>4, Zenon DEF AskAv, YesAv
<1>7. /\ <<Do("end", "audio")>> \o Hand = EndAudio
      /\ <<Do("end", "c270")>> \o Audio = EndAv
  BY Zenon DEF EndAudio, EndAv
<1>8. \A l \in {StartAv, StartWeb, AvLast, Hand, YesAudio, Audio, YesAv} : <<>> \o l = l
  <2>1. \A l \in {StartAv, StartWeb, AvLast, Hand, YesAudio, Audio, YesAv} : IsList(l)
    BY <1>1, <1>2, <1>3, <1>4
  <2> QED
    BY <2>1, NilFacts
<1> QED
  BY <1>1, <1>2, <1>3, <1>4, <1>5, <1>6, <1>7, <1>8
LEMMA DoFacts ==
  ASSUME NEW w, NEW k
  PROVE  Do(w, k).do = w /\ Do(w, k).arg = k
<1>1. PICK n : n = <<>>
  OBVIOUS
<1>2. Do(w, k) = [do |-> w, arg |-> k, body |-> n]
  BY <1>1 DEF Do
<1> QED
  BY <1>2

LEMMA IfFacts ==
  ASSUME NEW k, NEW b
  PROVE  /\ IfNone(k, b).do = "none" /\ IfNone(k, b).arg = k /\ IfNone(k, b).body = b
         /\ IfSome(k, b).do = "some" /\ IfSome(k, b).arg = k /\ IfSome(k, b).body = b
         /\ Manual(b).do = "manual" /\ Manual(b).body = b
         /\ Agreed(b).do = "agreed" /\ Agreed(b).body = b
BY DEF IfNone, IfSome, Manual, Agreed

\* A branch that is taken or not.
LEMMA IfTo ==
  ASSUME ShellTyped, NEW s \in Shells, ShellNext(s), NEW R,
         Tail(shell[s].todo) = R, <<>> \o R = R,
         Next1(s).do \in {"none", "some", "manual", "agreed"}
  PROVE  /\ kind' = kind /\ told' = told
         /\ \E b : /\ b = (IF Test(s) THEN Next1(s).body ELSE <<>>)
                   /\ \/ b \o R = <<>> /\ shell'[s] = Prompt
                      \/ /\ shell'[s].todo = b \o R
                         /\ shell'[s].statusConfirm = shell[s].statusConfirm
                         /\ shell'[s].overlap = shell[s].overlap
<1>1. If(s)
  BY ByStep
<1>2. PICK b : b = (IF Test(s) THEN Next1(s).body ELSE <<>>)
  OBVIOUS
<1>3. Then(s, b)
  BY <1>1, <1>2 DEF If
<1>4. kind' = kind /\ told' = told
  BY <1>1 DEF If, procvars
<1> QED
  BY <1>2, <1>3, <1>4, ThenTo DEF Done

\* Signals end snapshots at once; the others go on until they have handled it.
LEMMA SignalFacts ==
  ASSUME ProcTyped, NEW who \in SUBSET Pids, Signal(who)
  PROVE  /\ \A k \in Kinds : Running(k)' \subseteq Running(k)
         /\ \A k \in Kinds : Told(k) => Told(k)'
         /\ \A k \in Kinds \ {"snap"} : who = Running(k) => Told(k)'
<1> DEFINE dead == {p \in who : kind[p] = "snap"}
<1>1. /\ \A p \in Pids : kind'[p] = IF p \in dead THEN "none" ELSE kind[p]
      /\ told' = told \cup {p \in who \ dead : kind[p] # "none"}
  BY DEF Signal
<1>2. "none" \notin Kinds
  BY DEF Kinds, Execs
<1>3. \A k \in Kinds : Running(k)' \subseteq Running(k)
  BY <1>1, <1>2 DEF Running
<1>4. \A k \in Kinds : Told(k) => Told(k)'
  BY <1>1, <1>3 DEF Told
<1>5. ASSUME NEW k \in Kinds \ {"snap"}, who = Running(k) PROVE Told(k)'
  <2>1. \A p \in who : kind[p] = k
    BY <1>5 DEF Running
  <2>2. who \subseteq told'
    BY <1>1, <1>2, <2>1
  <2> QED
    BY <1>3, <1>5, <2>2 DEF Told
<1> QED
  BY <1>3, <1>4, <1>5

LEMMA EndTo ==
  ASSUME ProcTyped, ShellTyped, NEW s \in Shells, ShellNext(s), NEW R, NEW k \in Kinds,
         Tail(shell[s].todo) = R, <<>> \o R = R, Next1(s) = Do("end", k)
  PROVE  /\ \A x \in Kinds : Running(x)' \subseteq Running(x)
         /\ \A x \in Kinds : Told(x) => Told(x)'
         /\ k # "snap" => Told(k)'
         /\ \/ R = <<>> /\ shell'[s] = Prompt
            \/ /\ shell'[s].todo = R
               /\ shell'[s].statusConfirm = shell[s].statusConfirm
               /\ shell'[s].overlap = shell[s].overlap
<1>1. Next1(s).do = "end" /\ Next1(s).arg = k
  BY DoFacts
<1>2. End(s)
  BY <1>1, ByStep
<1>3. Then(s, <<>>) /\ Signal(Running(k))
  BY <1>1, <1>2 DEF End
<1>4. Running(k) \in SUBSET Pids
  BY DEF Running
<1>5. PICK b : b = <<>>
  OBVIOUS
<1>6. Then(s, b) /\ b \o R = R
  BY <1>3, <1>5, Zenon
<1>7. \/ R = <<>> /\ shell'[s] = Prompt
      \/ /\ shell'[s].todo = R
         /\ shell'[s].statusConfirm = shell[s].statusConfirm
         /\ shell'[s].overlap = shell[s].overlap
  <2>1. Done(s, b \o R)
    BY <1>6, ThenTo
  <2>2. Done(s, R)
    BY <1>6, <2>1
  <2> QED
    BY <2>2 DEF Done
<1>8. /\ \A x \in Kinds : Running(x)' \subseteq Running(x)
      /\ \A x \in Kinds : Told(x) => Told(x)'
      /\ k # "snap" => Told(k)'
  BY <1>3, <1>4, SignalFacts
<1> QED
  BY <1>7, <1>8
\* stoprecmjpg, step by step.
LEMMA StopsStep ==
  ASSUME ProcTyped, ShellTyped, NEW s \in Shells, ShellOK(s), ShellNext(s), Stops(s)
  PROVE  /\ shell'[s] = Prompt \/ Stops(s)'
         /\ shell'[s].todo = <<>> /\ ~shell[s].overlap => NoLoop' /\ NoFfmpeg'
<1> DEFINE alone == ~shell[s].overlap
           Goal  == /\ shell'[s] = Prompt \/ Stops(s)'
                    /\ shell'[s].todo = <<>> /\ ~shell[s].overlap => NoLoop' /\ NoFfmpeg'
<1>1. shell[s].todo # <<>> /\ Ps(s) \in SUBSET Pids
  <2>1. ~Idle(s)
    BY ShellMoves
  <2> QED
    BY <2>1 DEF Idle, ShellTyped, Ps
\* ps lists the processes of a kind.
<1>2. ASSUME NEW k, NEW R, IsList(R), R # <<>>, shell[s].todo = <<Do("list", k)>> \o R
      PROVE  /\ shell'[s].todo = R /\ shell'[s].todo # <<>> /\ Ps(s)' = Running(k)
             /\ shell'[s].overlap = shell[s].overlap /\ kind' = kind
  <2>1. Next1(s) = Do("list", k) /\ Tail(shell[s].todo) = R
    BY <1>2, AtStep
  <2>2. Next1(s).do = "list" /\ Next1(s).arg = k
    BY <2>1, DoFacts
  <2>3. List(s)
    BY <2>2, ByStep
  <2>4. Running(k) \in SUBSET Pids /\ shell[s].statusConfirm \in BOOLEAN
    BY DEF Running, ShellTyped
  <2>5. PICK p \in SUBSET Pids, y \in BOOLEAN :
           p = Running(k) /\ y = shell[s].statusConfirm
    BY <2>4
  <2>6. PICK b : b = <<>>
    OBVIOUS
  <2>7. Step(s, b, p, y) /\ kind' = kind
    BY <2>2, <2>3, <2>5, <2>6 DEF List, ThenPs, procvars
  <2>8. b \o R = R /\ b \o R # <<>>
    BY <1>2, <2>6, NilFacts
  <2>9. /\ shell'[s].todo = b \o R /\ shell'[s].ps = p
        /\ shell'[s].overlap = shell[s].overlap
    <3>1. b \o Tail(shell[s].todo) # <<>> =>
             /\ shell'[s].todo = b \o Tail(shell[s].todo)
             /\ shell'[s].ps = p /\ shell'[s].overlap = shell[s].overlap
      BY <2>7, StepFacts
    <3> QED
      BY <2>1, <2>8, <3>1
  <2> QED
    BY <1>2, <2>5, <2>7, <2>8, <2>9 DEF Ps
\* kill -9 ends those that were listed.
<1>3. ASSUME NEW R, IsList(R), R # <<>>, shell[s].todo = <<Do("kill", "")>> \o R
      PROVE  /\ shell'[s].todo = R /\ shell'[s].todo # <<>>
             /\ shell'[s].overlap = shell[s].overlap
             /\ \A k \in Kinds : Running(k)' \subseteq Running(k) \ Ps(s)
  <2>1. Next1(s) = Do("kill", "") /\ Tail(shell[s].todo) = R
    BY <1>3, AtStep
  <2>2. Kill(s)
    BY <2>1, DoFacts, ByStep
  <2>3. PICK b : b = <<>>
    OBVIOUS
  <2>4. Then(s, b) /\ b \o R = R
    BY <1>3, <2>2, <2>3, NilFacts DEF Kill
  <2>5. /\ shell'[s].todo = R /\ shell'[s].todo # <<>>
        /\ shell'[s].overlap = shell[s].overlap
    BY <1>3, <2>1, <2>4, ThenTo DEF Done
  <2>6. \A p \in Pids : kind'[p] = IF p \in Ps(s) THEN "none" ELSE kind[p]
    BY <2>2 DEF Kill, Gone
  <2>7. "none" \notin Kinds
    BY DEF Kinds, Execs
  <2>8. \A k \in Kinds : Running(k)' \subseteq Running(k) \ Ps(s)
    BY <2>6, <2>7 DEF Running
  <2> QED
    BY <2>5, <2>8
\* The server, which is another kind, is stopped if it is set to manual.
<1>4. ASSUME NEW i, NEW l, i.do \in {"some", "manual"}, i.body = l,
             shell[s].todo = <<i>> \o <<>>, l \in {StopIf, StopEnd}, IsList(l),
             alone => NoLoop /\ NoFfmpeg
      PROVE  Goal
  <2>1. IsList(<<>>) /\ shell[s].todo = <<i>> \o <<>>
    BY <1>4, NilFacts
  <2>2. PICK R : R = <<>> /\ IsList(R) /\ shell[s].todo = <<i>> \o R
    BY <2>1
  <2>a. Next1(s) = i /\ Tail(shell[s].todo) = R
    BY <2>2, AtStep
  <2>b. <<>> \o R = R /\ l \o R = l
    BY <1>4, <2>2, NilFacts
  <2>3. /\ Tail(shell[s].todo) = R /\ <<>> \o R = R /\ l \o R = l /\ R \o R = R
        /\ Next1(s).do \in {"none", "some", "manual", "agreed"} /\ Next1(s).body = l
    BY <1>4, <2>2, <2>a, <2>b
  <2>4. PICK b : /\ kind' = kind /\ b = (IF Test(s) THEN Next1(s).body ELSE <<>>)
                 /\ \/ b \o R = <<>> /\ shell'[s] = Prompt
                    \/ /\ shell'[s].todo = b \o R
                       /\ shell'[s].overlap = shell[s].overlap
    BY <2>3, IfTo
  <2>5. b \in {l, R} /\ b \o R \in {l, R}
    BY <2>2, <2>3, <2>4
  <2>6. shell'[s] = Prompt \/ (shell'[s].todo \in {StopIf, StopEnd, <<>>}
                                 /\ shell'[s].overlap = shell[s].overlap)
    BY <1>4, <2>2, <2>4, <2>5
  <2>7. alone => NoLoop' /\ NoFfmpeg'
    BY <1>4, <2>4 DEF NoLoop, NoFfmpeg, Running
  <2>8. shell'[s] = Prompt \/ Stops(s)'
    BY <2>6, <2>7 DEF Stops
  <2> QED
    BY <2>7, <2>8
<1>5. CASE shell[s].todo = Stop1
  <2>1. /\ shell'[s].todo = Stop2 /\ shell'[s].todo # <<>> /\ Ps(s)' = Running("loop")
        /\ shell'[s].overlap = shell[s].overlap /\ kind' = kind
    BY <1>2, <1>5, StopLists DEF Stop1
  <2>2. Running("loop")' \subseteq Ps(s)'
    BY <2>1 DEF Running
  <2>3. Stops(s)'
    BY <2>1, <2>2 DEF Stops
  <2> QED
    BY <2>1, <2>3
<1>6. CASE shell[s].todo = Stop2 /\ (alone => Running("loop") \subseteq Ps(s))
  <2>1. /\ shell'[s].todo = Stop3 /\ shell'[s].todo # <<>>
        /\ shell'[s].overlap = shell[s].overlap
        /\ \A k \in Kinds : Running(k)' \subseteq Running(k) \ Ps(s)
    BY <1>3, <1>6, StopLists DEF Stop2
  <2>2. Running("loop")' \subseteq Running("loop") \ Ps(s)
    BY <2>1 DEF Kinds, Execs
  <2>3. alone => NoLoop'
    BY <1>6, <2>2 DEF NoLoop
  <2>4. Stops(s)'
    BY <2>1, <2>3 DEF Stops
  <2> QED
    BY <2>1, <2>4
<1>7. CASE shell[s].todo = Stop3 /\ (alone => NoLoop)
  <2>1. /\ shell'[s].todo = Stop4 /\ shell'[s].todo # <<>> /\ Ps(s)' = Running("ffmpeg")
        /\ shell'[s].overlap = shell[s].overlap /\ kind' = kind
    BY <1>2, <1>7, StopLists DEF Stop3
  <2>2. Running("ffmpeg")' \subseteq Ps(s)' /\ (alone => NoLoop')
    BY <1>7, <2>1 DEF Running, NoLoop
  <2>3. Stops(s)'
    BY <2>1, <2>2 DEF Stops
  <2> QED
    BY <2>1, <2>3
<1>8. CASE shell[s].todo = Stop4 /\ (alone => NoLoop /\ Running("ffmpeg") \subseteq Ps(s))
  <2>1. Stop5 # <<>>
    BY StopLists, ConsFacts, NilFacts
  <2>2. /\ shell'[s].todo = Stop5 /\ shell'[s].todo # <<>>
        /\ shell'[s].overlap = shell[s].overlap
        /\ \A k \in Kinds : Running(k)' \subseteq Running(k) \ Ps(s)
    BY <1>3, <1>8, <2>1, StopLists DEF Stop4
  <2>3. /\ Running("loop")' \subseteq Running("loop")
        /\ Running("ffmpeg")' \subseteq Running("ffmpeg") \ Ps(s)
    BY <2>2 DEF Kinds, Execs
  <2>4. alone => NoLoop' /\ NoFfmpeg'
    BY <1>8, <2>3 DEF NoLoop, NoFfmpeg
  <2>5. Stops(s)'
    BY <2>2, <2>4 DEF Stops
  <2> QED
    BY <2>2, <2>5
<1>9. CASE shell[s].todo \in {Stop5, StopIf, StopEnd} /\ (alone => NoLoop /\ NoFfmpeg)
  <2>1. IsList(StopIf) /\ IsList(StopEnd)
    BY Singles DEF StopIf, StopEnd
  <2>2. CASE shell[s].todo = Stop5
    <3>1. StopServerIfManual.do = "manual" /\ StopServerIfManual.body = StopIf
      BY IfFacts, Zenon DEF StopServerIfManual, StopIf
    <3> QED
      BY <1>4, <1>9, <2>1, <2>2, <3>1, StopLists
  <2>3. CASE shell[s].todo = StopIf
    <3>1. StopServer.do = "some" /\ StopServer.body = StopEnd
      <4>1. PICK b : b = <<Do("end", "mjpg")>>
        OBVIOUS
      <4>2. StopServer = IfSome("mjpg", b) /\ StopEnd = b
        BY <4>1, Zenon DEF StopServer, StopEnd
      <4> QED
        BY <4>2, IfFacts
    <3> QED
      BY <1>4, <1>9, <2>1, <2>3, <3>1, StopLists
  <2>4. CASE shell[s].todo = StopEnd
    <3>1. IsList(<<>>) /\ shell[s].todo = <<Do("end", "mjpg")>> \o <<>>
      BY <2>4, StopLists
    <3>2. PICK R : /\ R = <<>> /\ IsList(R)
                   /\ shell[s].todo = <<Do("end", "mjpg")>> \o R
      BY <3>1
    <3>3. PICK k \in Kinds : k = "mjpg"
      BY DEF Kinds, Execs
    <3>4. Next1(s) = Do("end", k) /\ Tail(shell[s].todo) = R /\ <<>> \o R = R
      <4>1. Next1(s) = Do("end", "mjpg") /\ Tail(shell[s].todo) = R
        BY <3>2, AtStep
      <4> QED
        BY <3>2, <3>3, <4>1, NilFacts
    <3>5. /\ \A x \in Kinds : Running(x)' \subseteq Running(x)
          /\ \/ R = <<>> /\ shell'[s] = Prompt
             \/ shell'[s].todo = R /\ shell'[s].overlap = shell[s].overlap
      BY <3>4, EndTo
    <3>6. alone => NoLoop' /\ NoFfmpeg'
      BY <1>9, <3>5 DEF NoLoop, NoFfmpeg, Kinds
    <3>7. shell'[s] = Prompt \/ Stops(s)'
      BY <3>2, <3>5 DEF Stops
    <3> QED
      BY <3>6, <3>7
  <2> QED
    BY <1>9, <2>2, <2>3, <2>4
<1> QED
  BY <1>1, <1>5, <1>6, <1>7, <1>8, <1>9 DEF Stops
\* The scripts that start the recorder of video and sound, step by step.
LEMMA HandsStep ==
  ASSUME ProcTyped, ShellTyped, NEW s \in Shells, ShellOK(s), ShellNext(s), Hands(s)
  PROVE  shell'[s] = Prompt \/ Hands(s)'
<1> DEFINE alone == ~shell[s].overlap
           yes   == shell[s].statusConfirm
           Left(l)  == shell'[s].todo = l /\ shell'[s].overlap = shell[s].overlap
           After(l) == Left(l) /\ shell'[s].statusConfirm = shell[s].statusConfirm
<1>1. shell[s].todo # <<>>
  <2>1. ~Idle(s)
    BY ShellMoves
  <2> QED
    BY <2>1 DEF Idle
<1>2. ASSUME NEW i, NEW l, NEW R, IsList(R), i.do \in {"none", "some", "agreed"},
             i.body = l, shell[s].todo = <<i>> \o R
      PROVE  /\ kind' = kind /\ told' = told
             /\ \/ shell'[s] = Prompt
                \/ Test(s) /\ After(l \o R)
                \/ ~Test(s) /\ After(R)
             /\ i.do = "none"   => Test(s) = (Found(i.arg) = {})
             /\ i.do = "some"   => Test(s) = (Found(i.arg) # {})
             /\ i.do = "agreed" => Test(s) = yes
  <2>1. Next1(s) = i /\ Tail(shell[s].todo) = R
    BY <1>2, AtStep
  <2>2. /\ <<>> \o R = R /\ Next1(s).body = l
        /\ Next1(s).do \in {"none", "some", "manual", "agreed"}
    BY <1>2, <2>1, NilFacts
  <2>3. PICK b : /\ b = (IF Test(s) THEN Next1(s).body ELSE <<>>)
                 /\ \/ b \o R = <<>> /\ shell'[s] = Prompt
                    \/ After(b \o R)
    BY <2>1, <2>2, IfTo
  <2>4. kind' = kind /\ told' = told
    BY <2>1, <2>2, IfTo
  <2>5. (Test(s) /\ b = l) \/ (~Test(s) /\ b \o R = R)
    BY <2>2, <2>3
  <2>6. /\ i.do = "none"   => Test(s) = (Found(i.arg) = {})
        /\ i.do = "some"   => Test(s) = (Found(i.arg) # {})
        /\ i.do = "agreed" => Test(s) = yes
    BY <2>1 DEF Test
  <2> HIDE DEF After
  <2>7. \/ shell'[s] = Prompt
        \/ Test(s) /\ After(l \o R)
        \/ ~Test(s) /\ After(R)
    BY <2>3, <2>5
  <2> QED
    BY <2>4, <2>6, <2>7
<1>3. ASSUME NEW R, NEW k \in {"mjpg", "c270", "audio"}, IsList(R),
             shell[s].todo = <<Do("end", k)>> \o R
      PROVE  /\ shell'[s] = Prompt \/ After(R)
             /\ \A x \in {"mjpg", "c270", "c910"} : Told(x) \/ x = k => Told(x)'
  <2>1. Next1(s) = Do("end", k) /\ Tail(shell[s].todo) = R
    BY <1>3, AtStep
  <2>2. <<>> \o R = R /\ k \in Kinds /\ {"mjpg", "c270", "c910"} \subseteq Kinds
    BY <1>3, NilFacts DEF Kinds, Execs
  <2>3. /\ \A x \in Kinds : Told(x) => Told(x)'
        /\ k # "snap" => Told(k)'
        /\ \/ R = <<>> /\ shell'[s] = Prompt
           \/ After(R)
    BY <2>1, <2>2, EndTo
  <2> QED
    BY <2>2, <2>3
<1>4. ASSUME NEW R, IsList(R), R # <<>>, shell[s].todo = <<Do("ask", "")>> \o R
      PROVE  Left(R) /\ kind' = kind /\ told' = told
  <2>1. Next1(s) = Do("ask", "") /\ Tail(shell[s].todo) = R
    BY <1>4, AtStep
  <2>2. Ask(s)
    BY <2>1, DoFacts, ByStep
  <2>3. PICK y \in BOOLEAN : Step(s, <<>>, Ps(s), y)
    BY <2>2 DEF Ask
  <2>4. PICK b : b = <<>>
    OBVIOUS
  <2>5. PICK p \in SUBSET Pids : p = Ps(s)
    BY DEF ShellTyped, Ps
  <2>6. Step(s, b, p, y)
    BY <2>3, <2>4, <2>5, Zenon
  <2>7. b \o Tail(shell[s].todo) = R
    BY <1>4, <2>1, <2>4, NilFacts
  <2>8. b \o Tail(shell[s].todo) # <<>> =>
           /\ shell'[s].todo = b \o Tail(shell[s].todo)
           /\ shell'[s].overlap = shell[s].overlap
    BY <2>6, StepFacts
  <2>9. kind' = kind /\ told' = told
    BY <2>2 DEF Ask, procvars
  <2> QED
    BY <1>4, <2>7, <2>8, <2>9
<1>5. ASSUME kind' = kind, told' = told
      PROVE  \A k \in {"mjpg", "c270", "c910"} : Told(k)' = Told(k)
  BY <1>5 DEF Told, Running
<1>6. \A k \in {"mjpg", "c270", "c910"} : Running(k) = {} => Told(k)
  BY DEF Told
<1>7. ASSUME NEW k, NEW l, NEW R, IsList(R), shell[s].todo = <<IfSome(k, l)>> \o R
      PROVE  /\ kind' = kind /\ told' = told
             /\ \/ shell'[s] = Prompt
                \/ After(l \o R)
                \/ Found(k) = {} /\ After(R)
  <2>1. PICK i : i = IfSome(k, l)
    OBVIOUS
  <2>2. /\ i.do = "some" /\ i.arg = k /\ i.body = l
        /\ shell[s].todo = <<i>> \o R
    BY <1>7, <2>1, IfFacts
  <2> HIDE DEF After
  <2> QED
    BY <1>2, <1>7, <2>2
<1>8. ASSUME NEW l, NEW R, IsList(R), shell[s].todo = <<Agreed(l)>> \o R
      PROVE  /\ kind' = kind /\ told' = told
             /\ \/ shell'[s] = Prompt
                \/ yes /\ After(l \o R)
                \/ ~yes /\ After(R)
  <2>1. PICK i : i = Agreed(l)
    OBVIOUS
  <2>2. /\ i.do = "agreed" /\ i.body = l
        /\ shell[s].todo = <<i>> \o R
    BY <1>8, <2>1, IfFacts
  <2> HIDE DEF After
  <2> QED
    BY <1>2, <1>8, <2>2
<1> HIDE DEF After
<1>9. CASE shell[s].todo = AvFirst
  <2>1. /\ kind' = kind /\ told' = told
        /\ shell'[s] = Prompt \/ After(AvEnd) \/ (Running("mjpg") = {} /\ After(AvLast))
    BY <1>7, <1>9, AvLists, FoundFacts, Zenon DEF AvFirst, AvEnd
  <2>2. Running("mjpg") = {} => Told("mjpg")'
    BY <1>5, <1>6, <2>1
  <2> QED
    BY <2>1, <2>2 DEF After, Hands
<1>10. CASE shell[s].todo = AvEnd
  <2>1. /\ shell'[s] = Prompt \/ After(AvLast)
        /\ Told("mjpg")'
    BY <1>3, <1>10, AvLists DEF AvEnd
  <2> QED
    BY <2>1 DEF After, Hands
<1>11. CASE shell[s].todo = AvLast /\ (alone => Told("mjpg"))
  <2>1. PICK i, R : i = IfNone(WebAv, StartWeb) /\ R = <<>>
    BY Zenon
  <2>2. i.do = "none" /\ i.arg = WebAv /\ i.body = StartWeb
    BY <2>1, IfFacts
  <2>3. IsList(R) /\ shell[s].todo = <<i>> \o R
    BY <1>11, <2>1, AvLists, Zenon
  <2>4. StartWeb \o R = StartWeb
    BY <2>1, AvLists, NilFacts
  <2>5. /\ kind' = kind /\ told' = told
        /\ \/ shell'[s] = Prompt
           \/ Running(WebAv) = {} /\ After(StartWeb)
           \/ After(<<>>)
    <3>1. /\ kind' = kind /\ told' = told
          /\ \/ shell'[s] = Prompt
             \/ Test(s) /\ After(StartWeb \o R)
             \/ After(R)
          /\ Test(s) = (Running(WebAv) = {})
      <4> HIDE DEF StartWeb, Test
      <4> QED
        BY <1>2, <2>2, <2>3, FoundFacts
    <3>2. After(StartWeb \o R) = After(StartWeb)
      BY <2>4, Zenon
    <3>3. After(R) = After(<<>>)
      BY <2>1, Zenon
    <3> QED
      BY <3>1, <3>2, <3>3, Zenon
  <2>6. /\ Running(WebAv) = {} => Told(WebAv)'
        /\ Told("mjpg") => Told("mjpg")'
    BY <1>5, <1>6, <2>5, FoundFacts
  <2> QED
    BY <1>11, <2>5, <2>6 DEF After, Hands
<1>12. CASE shell[s].todo = IfAv
  <2>1. /\ kind' = kind /\ told' = told
        /\ shell'[s] = Prompt \/ After(AskAv) \/ (Found("av") = {} /\ After(Audio))
    <3>1. /\ kind' = kind /\ told' = told
          /\ \/ shell'[s] = Prompt \/ After(AvBody \o Audio)
             \/ (Found("av") = {} /\ After(Audio))
      BY <1>7, <1>12, AvLists, Zenon DEF IfAv
    <3>2. AvBody \o Audio = AskAv
      BY AvLists, Zenon
    <3> QED
      BY <3>1, <3>2
  <2>2. Found("av") = {} => Told("c270")'
    BY <1>5, <1>6, <2>1, FoundFacts
  <2> QED
    BY <2>1, <2>2 DEF After, Hands
<1>13. CASE shell[s].todo = AskAv
  <2>1. YesAv # <<>>
    BY AvLists, ConsFacts, Zenon DEF YesAv
  <2>2. Left(YesAv)
    BY <1>4, <1>13, <2>1, AvLists, Zenon DEF AskAv
  <2> QED
    BY <2>2 DEF Hands
<1>14. CASE shell[s].todo = YesAv
  <2>1. shell'[s] = Prompt \/ After(EndAv) \/ (~yes /\ After(Audio))
    BY <1>8, <1>14, AvLists, Zenon DEF YesAv, EndAv
  <2> QED
    BY <2>1 DEF After, Hands
<1>15. CASE shell[s].todo = EndAv
  <2>1. (shell'[s] = Prompt \/ After(Audio)) /\ Told("c270")'
    BY <1>3, <1>15, AvLists DEF EndAv
  <2> QED
    BY <2>1 DEF After, Hands
<1>16. CASE shell[s].todo = Audio /\ (alone /\ yes => Told("c270"))
  <2>1. /\ kind' = kind /\ told' = told
        /\ shell'[s] = Prompt \/ (yes /\ After(IfAudio)) \/ (~yes /\ After(Hand))
    BY <1>8, <1>16, AvLists, Zenon DEF Audio, IfAudio
  <2>2. Told("c270") => Told("c270")'
    BY <1>5, <2>1
  <2> QED
    BY <1>16, <2>1, <2>2 DEF After, Hands
<1>17. CASE shell[s].todo = IfAudio /\ (alone => Told("c270"))
  <2>1. /\ kind' = kind /\ told' = told
        /\ shell'[s] = Prompt \/ After(AskAudio) \/ After(Hand)
    <3>1. /\ kind' = kind /\ told' = told
          /\ shell'[s] = Prompt \/ After(AudioBody \o Hand) \/ After(Hand)
      BY <1>7, <1>17, AvLists, Zenon DEF IfAudio
    <3>2. AudioBody \o Hand = AskAudio
      BY AvLists, Zenon
    <3> QED
      BY <3>1, <3>2
  <2>2. Told("c270") => Told("c270")'
    BY <1>5, <2>1
  <2> QED
    BY <1>17, <2>1, <2>2 DEF After, Hands
<1>18. CASE shell[s].todo = AskAudio /\ (alone => Told("c270"))
  <2>1. YesAudio # <<>>
    BY AvLists, ConsFacts, Zenon DEF YesAudio
  <2>2. Left(YesAudio) /\ kind' = kind /\ told' = told
    BY <1>4, <1>18, <2>1, AvLists, Zenon DEF AskAudio
  <2>3. Told("c270") => Told("c270")'
    BY <1>5, <2>2
  <2> QED
    BY <1>18, <2>2, <2>3 DEF Hands
<1>19. CASE shell[s].todo = YesAudio /\ (alone => Told("c270"))
  <2>1. /\ kind' = kind /\ told' = told
        /\ shell'[s] = Prompt \/ After(EndAudio) \/ After(Hand)
    BY <1>8, <1>19, AvLists, Zenon DEF YesAudio, EndAudio
  <2>2. Told("c270") => Told("c270")'
    BY <1>5, <2>1
  <2> QED
    BY <1>19, <2>1, <2>2 DEF After, Hands
<1>20. CASE shell[s].todo = EndAudio /\ (alone => Told("c270"))
  <2>1. (shell'[s] = Prompt \/ After(Hand)) /\ (Told("c270") => Told("c270")')
    BY <1>3, <1>20, AvLists DEF EndAudio
  <2> QED
    BY <1>20, <2>1 DEF After, Hands
<1>21. CASE shell[s].todo = Hand /\ (alone /\ yes => Told("c270"))
  <2>1. /\ kind' = kind /\ told' = told
        /\ shell'[s] = Prompt \/ (yes /\ After(IfMjpg)) \/ (~yes /\ After(StartAv))
    BY <1>8, <1>21, AvLists, Zenon DEF Hand, IfMjpg
  <2>2. Told("c270") => Told("c270")'
    BY <1>5, <2>1
  <2> QED
    BY <1>21, <2>1, <2>2 DEF After, Hands
<1>22. CASE shell[s].todo = IfMjpg /\ (alone => Told("c270"))
  <2>1. /\ kind' = kind /\ told' = told
        /\ \/ shell'[s] = Prompt \/ After(EndMjpg)
           \/ (Running("mjpg") = {} /\ After(StartAv))
    BY <1>7, <1>22, AvLists, FoundFacts, Zenon DEF IfMjpg, EndMjpg
  <2>2. /\ Told("c270") => Told("c270")'
        /\ Running("mjpg") = {} => Told("mjpg")'
    BY <1>5, <1>6, <2>1
  <2> QED
    BY <1>22, <2>1, <2>2 DEF After, Hands
<1>23. CASE shell[s].todo = EndMjpg /\ (alone => Told("c270"))
  <2>1. /\ shell'[s] = Prompt \/ After(StartAv)
        /\ Told("c270") => Told("c270")'
        /\ Told("mjpg")'
    BY <1>3, <1>23, AvLists DEF EndMjpg
  <2> QED
    BY <1>23, <2>1 DEF After, Hands
<1>24. ASSUME NEW e, e # "mjpg", shell[s].todo = <<Do("start", e)>> \o <<>>
       PROVE  shell'[s] = Prompt
  <2>1. PICK R : R = <<>>
    OBVIOUS
  <2>2. IsList(R) /\ shell[s].todo = <<Do("start", e)>> \o R
    BY <1>24, <2>1, AvLists, Zenon
  <2>3. Next1(s) = Do("start", e) /\ Tail(shell[s].todo) = R
    BY <2>2, AtStep
  <2>4. Next1(s).do = "start" /\ Next1(s).arg # "mjpg"
    BY <1>24, <2>3, DoFacts
  <2>5. Start(s) /\ ThenPs(s, {NewPid}) /\ FreePids # {}
    BY <2>4, ByStep DEF Start
  <2>6. PICK p \in SUBSET Pids : p = {NewPid}
    BY <2>5, NewPidFree
  <2>7. PICK y \in BOOLEAN : y = shell[s].statusConfirm
    BY DEF ShellTyped
  <2>8. PICK b : b = <<>>
    OBVIOUS
  <2>9. Step(s, b, p, y)
    BY <2>5, <2>6, <2>7, <2>8, Zenon DEF ThenPs
  <2>10. b \o Tail(shell[s].todo) = <<>>
    BY <2>1, <2>2, <2>3, <2>8, NilFacts
  <2> QED
    BY <2>9, <2>10, StepFacts
<1>25. CASE shell[s].todo \in {StartAv, StartWeb}
  <2>1. "c270" # "mjpg" /\ WebAv # "mjpg"
    BY FoundFacts
  <2> QED
    BY <1>24, <1>25, <2>1, AvLists, Zenon
<1> QED
  BY <1>1, <1>9, <1>10, <1>11, <1>12, <1>13, <1>14, <1>15, <1>16, <1>17, <1>18, <1>19,
     <1>20, <1>21, <1>22, <1>23, <1>25 DEF Hands
\* Steps of the others: what a script that runs alone relies on stays.
LEMMA OthersStep ==
  ASSUME Scripted, NEW s \in Shells,
         \/ \E t \in Shells \ {s} : Give(t) \/ ShellNext(t)
         \/ \E p \in Pids : ProcessNext(p)
         \/ UNCHANGED vars
  PROVE  /\ shell'[s].command = shell[s].command /\ shell'[s].todo = shell[s].todo
         /\ Stops(s) => Stops(s)'
         /\ Hands(s) => Hands(s)'
<1>1. ASSUME shell'[s].todo = shell[s].todo, shell'[s].ps = shell[s].ps,
             shell'[s].statusConfirm = shell[s].statusConfirm,
             shell'[s].overlap \/ ~shell[s].overlap,
             \/ shell'[s].overlap
             \/ /\ NoLoop => NoLoop'
                /\ Running("loop")' \subseteq Running("loop")
                /\ NoLoop => Running("ffmpeg")' \subseteq Running("ffmpeg")
                /\ \A k \in {"mjpg", "c270", "c910"} : Told(k) => Told(k)'
             \/ Idle(s)
      PROVE  (Stops(s) => Stops(s)') /\ (Hands(s) => Hands(s)')
  <2>1. CASE Idle(s)
    BY <1>1, <2>1 DEF Idle, Stops, Hands
  <2>2. CASE shell'[s].overlap
    BY <1>1, <2>2 DEF Stops, Hands
  <2>3. CASE ~Idle(s) /\ ~shell'[s].overlap
    <3>1. ~shell[s].overlap
      BY <1>1, <2>3
    <3>2. /\ Running("loop")' \subseteq Running("loop")
          /\ NoLoop => NoLoop' /\ Running("ffmpeg")' \subseteq Running("ffmpeg")
          /\ Told("mjpg") => Told("mjpg")'
          /\ Told("c270") => Told("c270")'
          /\ Told(WebAv) => Told(WebAv)'
      BY <1>1, <2>3, FoundFacts
    <3>3. NoLoop /\ NoFfmpeg => NoFfmpeg'
      BY <3>2 DEF NoFfmpeg
    <3>4. Stops(s) => Stops(s)'
      BY <1>1, <3>1, <3>2, <3>3 DEF Stops, Ps
    <3>5. Hands(s) => Hands(s)'
      BY <1>1, <3>1, <3>2 DEF Hands
    <3> QED
      BY <3>4, <3>5
  <2> QED
    BY <2>1, <2>2, <2>3
<1>2. ASSUME UNCHANGED kind, UNCHANGED told
      PROVE  /\ NoLoop => NoLoop'
             /\ Running("loop")' \subseteq Running("loop")
             /\ NoLoop => Running("ffmpeg")' \subseteq Running("ffmpeg")
             /\ \A k \in {"mjpg", "c270", "c910"} : Told(k) => Told(k)'
  BY <1>2 DEF NoLoop, Running, Told
<1>3. shell[s].overlap \in BOOLEAN
  BY DEF Scripted, ShellTyped
<1>4. ASSUME NEW t \in Shells \ {s}, Give(t)
      PROVE  /\ shell'[s].command = shell[s].command /\ shell'[s].todo = shell[s].todo
             /\ Stops(s) => Stops(s)'
             /\ Hands(s) => Hands(s)'
  <2>1. /\ shell'[s].command = shell[s].command
        /\ shell'[s].todo = shell[s].todo /\ shell'[s].ps = shell[s].ps
        /\ shell'[s].statusConfirm = shell[s].statusConfirm
        /\ shell'[s].overlap = (shell[s].overlap \/ ~Idle(s))
        /\ UNCHANGED <<auto, procvars, filevars>>
    <3>1. ShellTyped /\ s \in Shells \ {t}
      BY DEF Scripted
    <3>2. /\ UNCHANGED <<auto, procvars, filevars>>
          /\ \A r \in Shells \ {t} :
               /\ shell'[r].command = shell[r].command
               /\ shell'[r].todo = shell[r].todo /\ shell'[r].ps = shell[r].ps
               /\ shell'[r].statusConfirm = shell[r].statusConfirm
               /\ shell'[r].overlap = (shell[r].overlap \/ ~Idle(r))
      BY <1>4, <3>1, GiveFacts
    <3> QED
      BY <3>1, <3>2
  <2>2. UNCHANGED kind /\ UNCHANGED told
    BY <2>1 DEF procvars
  <2>3. shell'[s].overlap \/ ~shell[s].overlap
    BY <1>3, <2>1
  <2> QED
    BY <1>1, <1>2, <2>1, <2>2, <2>3
<1>5. ASSUME NEW t \in Shells \ {s}, ShellNext(t)
      PROVE  /\ shell'[s].command = shell[s].command /\ shell'[s].todo = shell[s].todo
             /\ Stops(s) => Stops(s)'
             /\ Hands(s) => Hands(s)'
  <2>1. shell'[s] = shell[s]
    BY <1>5, OwnStep DEF Scripted
  <2>2. ~Idle(t)
    BY <1>5, ShellMoves DEF Scripted
  <2>3. Idle(s) \/ shell'[s].overlap
    BY <2>1, <2>2 DEF Scripted, Apart
  <2>4. shell'[s].overlap \/ ~shell[s].overlap
    BY <1>3, <2>1
  <2> QED
    BY <1>1, <2>1, <2>3, <2>4
<1>6. ASSUME NEW p \in Pids, ProcessNext(p)
      PROVE  /\ shell'[s].command = shell[s].command /\ shell'[s].todo = shell[s].todo
             /\ Stops(s) => Stops(s)'
             /\ Hands(s) => Hands(s)'
  <2>1. /\ shell' = shell
        /\ Running("loop")' \subseteq Running("loop")
        /\ NoLoop => Running("ffmpeg")' \subseteq Running("ffmpeg")
        /\ \A k \in {"mjpg", "c270", "c910"} : Told(k) => Told(k)'
    BY <1>6, ProcMoves DEF Scripted
  <2>2. NoLoop => NoLoop'
    BY <2>1 DEF NoLoop
  <2>3. shell'[s].overlap \/ ~shell[s].overlap
    BY <1>3, <2>1
  <2> QED
    BY <1>1, <2>1, <2>2, <2>3
<1>7. CASE UNCHANGED vars
  <2>1. shell' = shell /\ UNCHANGED kind /\ UNCHANGED told
    BY <1>7 DEF vars, procvars
  <2>2. shell'[s].overlap \/ ~shell[s].overlap
    BY <1>3, <2>1
  <2> QED
    BY <1>1, <1>2, <2>1, <2>2
<1> QED
  BY <1>4, <1>5, <1>6, <1>7

\* A script that starts is at its beginning.
LEMMA GiveStep ==
  ASSUME Scripted, NEW s \in Shells, Give(s)
  PROVE  /\ shell'[s].command = "stoprecmjpg" => Stops(s)'
         /\ shell'[s].command \in AvCommands => Hands(s)'
<1>1. PICK c \in Commands : shell'[s].command = c /\ shell'[s].todo = Script(c)
  BY GiveFacts DEF Scripted
<1>2. c = "stoprecmjpg" => shell'[s].todo = Stop1
  BY <1>1, Shapes
<1>3. c \in AvCommands => shell'[s].todo \in {AvFirst, IfAv}
  BY <1>1, Shapes DEF AvCommands
<1> QED
  BY <1>1, <1>2, <1>3 DEF Stops, Hands

LEMMA PromptCommand ==
  ASSUME NEW s \in Shells, shell'[s] = Prompt
  PROVE  shell'[s].command # "stoprecmjpg" /\ shell'[s].command \notin AvCommands
BY Prompted DEF AvCommands

LEMMA InvStep ==
  ASSUME Inv, [Next]_vars
  PROVE  Inv'
<1>1. Scripted /\ Scripted'
  BY ScriptedStep DEF Inv
<1> SUFFICES ASSUME NEW s \in Shells
             PROVE  /\ shell'[s].command = "stoprecmjpg" => Stops(s)'
                    /\ shell'[s].command \in AvCommands => Hands(s)'
  BY <1>1 DEF Inv
<1>2. /\ shell[s].command = "stoprecmjpg" => Stops(s)
      /\ shell[s].command \in AvCommands => Hands(s)
  BY DEF Inv
<1>3. CASE \/ \E t \in Shells \ {s} : Give(t) \/ ShellNext(t)
           \/ \E p \in Pids : ProcessNext(p)
           \/ UNCHANGED vars
  BY <1>1, <1>2, <1>3, OthersStep
<1>4. CASE Give(s)
  BY <1>1, <1>4, GiveStep
<1>5. CASE ShellNext(s)
  <2>1. /\ ProcTyped /\ ShellTyped /\ ShellOK(s)
        /\ shell'[s] = Prompt \/ shell'[s].command = shell[s].command
    BY <1>1, <1>5, OwnStep DEF Scripted
  <2>2. CASE shell'[s] = Prompt
    BY <2>2, PromptCommand
  <2>3. CASE shell'[s] # Prompt
    <3>1. shell[s].command = "stoprecmjpg" => Stops(s)'
      BY <1>2, <1>5, <2>1, <2>3, StopsStep
    <3>2. shell[s].command \in AvCommands => Hands(s)'
      BY <1>2, <1>5, <2>1, <2>3, HandsStep
    <3> QED
      BY <2>1, <2>3, <3>1, <3>2
  <2> QED
    BY <2>2, <2>3
<1> QED
  BY <1>3, <1>4, <1>5 DEF Next
\* Only the last step of these scripts starts a process.
LEMMA FirstSteps ==
  \A l \in {AvFirst, AvEnd, IfAv, AskAv, YesAv, EndAv, AvLast, Audio, Hand, IfAudio,
           AskAudio, YesAudio, EndAudio, IfMjpg, EndMjpg} : l[1].do # "start"
<1>1. ASSUME NEW w \in {"end", "ask"}, NEW k, NEW R, IsList(R)
      PROVE  (<<Do(w, k)>> \o R)[1].do # "start"
  <2>1. (<<Do(w, k)>> \o R)[1] = Do(w, k)
    BY <1>1, ConsFacts
  <2> QED
    BY <2>1, DoFacts
<1>2. ASSUME NEW k, NEW b, NEW R, IsList(R)
      PROVE  /\ (<<IfSome(k, b)>> \o R)[1].do # "start"
             /\ (<<IfNone(k, b)>> \o R)[1].do # "start"
             /\ (<<Agreed(b)>> \o R)[1].do # "start"
  <2>1. /\ (<<IfSome(k, b)>> \o R)[1] = IfSome(k, b)
        /\ (<<IfNone(k, b)>> \o R)[1] = IfNone(k, b)
        /\ (<<Agreed(b)>> \o R)[1] = Agreed(b)
    BY <1>2, ConsFacts
  <2> QED
    BY <2>1, IfFacts
<1>3. "end" \in {"end", "ask"} /\ "ask" \in {"end", "ask"}
  OBVIOUS
<1>4. AvFirst[1].do # "start"
  BY <1>2, AvLists, Zenon DEF AvFirst
<1>5. AvEnd[1].do # "start"
  BY <1>1, <1>3, AvLists, Zenon DEF AvEnd
<1>6. IfAv[1].do # "start"
  BY <1>2, AvLists, Zenon DEF IfAv
<1>7. AskAv[1].do # "start"
  BY <1>1, <1>3, AvLists, Zenon DEF AskAv
<1>8. YesAv[1].do # "start"
  BY <1>2, AvLists, Zenon DEF YesAv
<1>9. EndAv[1].do # "start"
  BY <1>1, <1>3, AvLists, Zenon DEF EndAv
<1>10. AvLast[1].do # "start"
  BY <1>2, AvLists, Zenon DEF AvLast
<1>11. Audio[1].do # "start"
  BY <1>2, AvLists, Zenon DEF Audio
<1>12. Hand[1].do # "start"
  BY <1>2, AvLists, Zenon DEF Hand
<1>13. IfAudio[1].do # "start"
  BY <1>2, AvLists, Zenon DEF IfAudio
<1>14. AskAudio[1].do # "start"
  BY <1>1, <1>3, AvLists, Zenon DEF AskAudio
<1>15. YesAudio[1].do # "start"
  BY <1>2, AvLists, Zenon DEF YesAudio
<1>16. EndAudio[1].do # "start"
  BY <1>1, <1>3, AvLists, Zenon DEF EndAudio
<1>17. IfMjpg[1].do # "start"
  BY <1>2, AvLists, Zenon DEF IfMjpg
<1>18. EndMjpg[1].do # "start"
  BY <1>1, <1>3, AvLists, Zenon DEF EndMjpg
<1> QED
  BY <1>4, <1>5, <1>6, <1>7, <1>8, <1>9, <1>10, <1>11, <1>12, <1>13, <1>14, <1>15, 
     <1>16, <1>17, <1>18

LEMMA InvInit ==
  ASSUME Init
  PROVE  Inv
<1>1. ProcTyped
  BY PidsAreNat DEF Init, ProcTyped, Kinds
<1>2. ASSUME NEW s \in Shells
      PROVE  /\ Boot(s) => shell[s] = Runs("service_start", FALSE)
             /\ ~Boot(s) => shell[s] = Prompt
  BY DEF Init
<1>3. PICK r : r = Runs("service_start", FALSE)
  OBVIOUS
<1>4. PICK l : l = Script("service_start")
  OBVIOUS
<1>5. r = [command |-> "service_start", todo |-> l, ps |-> {}, statusConfirm |-> TRUE,
           overlap |-> FALSE]
  <2>1. PICK n : n = <<>>
    OBVIOUS
  <2>2. Prompt = [command |-> "", todo |-> n, ps |-> {}, statusConfirm |-> TRUE,
                  overlap |-> FALSE]
    BY <2>1 DEF Prompt
  <2>3. r = [Prompt EXCEPT !.command = "service_start", !.todo = l, !.overlap = FALSE]
    BY <1>3, <1>4 DEF Runs
  <2> QED
    BY <2>2, <2>3
<1>6. ShellTyped
  <2> DEFINE R == [command : {"", "service_start"}, todo : {<<>>, l}, ps : SUBSET Pids,
                   statusConfirm : BOOLEAN, overlap : BOOLEAN]
  <2>1. r \in R
    BY <1>5
  <2>2. Prompt \in R
    BY DEF Prompt
  <2>3. shell = [s \in Shells |-> IF Boot(s) THEN r ELSE Prompt]
    BY <1>3 DEF Init
  <2>4. shell \in [Shells -> R]
    <3> HIDE DEF R
    <3> QED
      BY <2>1, <2>2, <2>3
  <2> QED
    BY <2>4 DEF ShellTyped
<1>7. Good(l, FALSE) /\ LinkedOn(l) /\ (l # <<>> => l[1].do \notin {"write", "lock"})
  <2>1. Plain(l, FALSE)
    <3>1. Script("service_start") = ServiceStart
      BY DEF Script
    <3> QED
      BY <1>4, <3>1, PlainService
  <2>2. l # <<>> => 1 \in DOMAIN l
    BY <2>1, GoodFirst DEF Plain
  <2> QED
    BY <2>1, <2>2 DEF Plain, NoPid, LinkedOn
<1>8. ASSUME NEW s \in Shells
      PROVE  /\ ShellOK(s) /\ shell[s].command # "stoprecmjpg"
             /\ shell[s].command \notin AvCommands
             /\ ~Boot(s) => Idle(s)
  <2>1. CASE Boot(s)
    <3>1. shell[s].command = "service_start" /\ shell[s].todo = l
      <4>1. shell[s] = r
        BY <1>2, <1>3, <2>1, Zenon
      <4>2. r.command = "service_start" /\ r.todo = l
        BY <1>5
      <4> QED
        BY <4>1, <4>2
    <3>2. ("service_start" \in AvCommands) = FALSE
      BY DEF AvCommands
    <3> QED
      BY <1>7, <2>1, <3>1, <3>2 DEF ShellOK, AvCommands
  <2>2. CASE ~Boot(s)
    <3>1. shell[s].command = "" /\ shell[s].todo = <<>>
      BY <1>2, <2>2, Prompted
    <3> QED
      BY <3>1, GoodNil DEF ShellOK, AvCommands, Idle
  <2> QED
    BY <2>1, <2>2
<1>9. Apart
  <2>1. \A s, t \in Shells : Boot(s) /\ Boot(t) => s = t
    BY DEF Boot
  <2> QED
    BY <1>8, <2>1 DEF Apart
<1> QED
  BY <1>1, <1>6, <1>8, <1>9 DEF Inv, Scripted

----------------------------------------------------------------------------
(* The theorems.                                                            *)

\* The invariant holds: scripts that run at the same time know of it, what a
\* script has left to do is one of the lists it leaves, and each list says
\* what the script has reached if nobody else interfered.
THEOREM Invariant == Spec => []Inv
<1>1. Init => Inv
  BY InvInit
<1>2. Inv /\ [Next]_vars => Inv'
  BY InvStep
<1> QED
  BY <1>1, <1>2, PTL DEF Spec

\* Types: what the scripts remember are processes, a pid file names one or is
\* not there, there is one line in the crontab at most, and only an ffmpeg
\* has a parent, also when run_job exits with the process it has started.
THEOREM TypeCorrect == Spec => []TypeOK
<1>1. Inv => TypeOK
  <2> SUFFICES ASSUME Inv PROVE TypeOK
    OBVIOUS
  <2>1. \A s \in Shells : /\ Ps(s) \subseteq Pids
                          /\ {shell[s].statusConfirm, shell[s].overlap} \subseteq BOOLEAN
    BY DEF Inv, Scripted, ShellTyped, Ps
  <2> QED
    BY <2>1 DEF Inv, Scripted, ProcTyped, TypeOK
<1> QED
  BY <1>1, Invariant, PTL

\* The stop of a video recording that runs alone leaves neither a loop nor an
\* ffmpeg: after the first kill there is no loop that would start one, and
\* those that are listed then are all there are.
THEOREM StopEndsRecording == Spec => StopLeavesNone
<1> DEFINE Ends == \A s \in Shells :
          shell[s].command = "stoprecmjpg" /\ Finishes(s) /\ ~shell[s].overlap =>
              \A p \in Pids : kind'[p] \notin {"loop", "ffmpeg"}
<1>1. ASSUME Inv, [Next]_vars PROVE Ends
  <2> SUFFICES ASSUME NEW s \in Shells, shell[s].command = "stoprecmjpg", Finishes(s),
                      ~shell[s].overlap
               PROVE  \A p \in Pids : kind'[p] \notin {"loop", "ffmpeg"}
    OBVIOUS
  <2>1. Scripted /\ Stops(s)
    BY <1>1 DEF Inv
  <2>2. shell'[s].todo # shell[s].todo /\ shell'[s].todo = <<>> /\ ~Idle(s)
    BY DEF Finishes, Idle
  <2>3. ShellNext(s)
    <3>1. ~Give(s)
      BY <2>1, <2>2, GiveFacts DEF Scripted
    <3>2. ~(\/ \E t \in Shells \ {s} : Give(t) \/ ShellNext(t)
            \/ \E p \in Pids : ProcessNext(p)
            \/ UNCHANGED vars)
      BY <2>1, <2>2, OthersStep
    <3> QED
      BY <1>1, <3>1, <3>2 DEF Next
  <2>4. NoLoop' /\ NoFfmpeg'
    BY <2>1, <2>2, <2>3, StopsStep DEF Scripted
  <2> QED
    BY <2>4 DEF NoLoop, NoFfmpeg, Running
<1>2. Inv /\ [Next]_vars => [Ends]_vars
  BY <1>1
<1> QED
  BY <1>2, Invariant, PTL DEF Spec, StopLeavesNone

\* The camera is handed over: a script that runs alone starts the recorder of
\* video and sound when mjpg_streamer and the same recorder before it have been
\* told to end, unless the user has refused one of the questions.
THEOREM CameraHandedOver == Spec => HandedOver
<1> DEFINE Over == \A p \in Pids : AvStarts(p) =>
          \A s \in Shells : Starting(s) /\ shell[s].statusConfirm =>
              Running("mjpg") \cup Running(kind'[p]) \subseteq told
<1>1. ASSUME Inv, [Next]_vars PROVE Over
  <2> SUFFICES ASSUME NEW p \in Pids, kind[p] = "none", kind'[p] \in Execs,
                      NEW s \in Shells, Is(s, "start"), ~shell[s].overlap,
                      shell[s].statusConfirm
               PROVE  Running("mjpg") \cup Running(kind'[p]) \subseteq told
    BY DEF AvStarts, Starting
  <2>1. Scripted /\ ~Idle(s) /\ kind[p] \notin Execs /\ kind' # kind
    BY <1>1 DEF Inv, Is, Execs
  <2>2. PICK t \in Shells : ShellNext(t)
    <3>1. \A t \in Shells : ~Give(t)
      BY <2>1 DEF Give, procvars
    <3>2. \A q \in Pids : ~ProcessNext(q)
      BY <2>1, ProcMoves DEF Scripted
    <3>3. ~UNCHANGED vars
      BY <2>1 DEF vars, procvars
    <3> QED
      BY <1>1, <3>1, <3>2, <3>3 DEF Next
  <2>3. t = s
    <3>1. ~Idle(t)
      BY <2>1, <2>2, ShellMoves DEF Scripted
    <3> QED
      BY <2>1, <3>1 DEF Scripted, Apart
  <2>4. Start(s) /\ Next1(s).do = "start"
    BY <2>2, <2>3, ByStep DEF Is
  <2>5. Next1(s).arg = kind'[p]
    <3>1. FreePids # {} /\ kind' = [kind EXCEPT ![NewPid] = Next1(s).arg]
      BY <2>1, <2>4 DEF Start
    <3>2. NewPid \in Pids
      BY <3>1, NewPidFree
    <3>3. PICK n, k : n = NewPid /\ k = Next1(s).arg
      BY Zenon
    <3>4. kind' = [kind EXCEPT ![n] = k] /\ n \in Pids /\ kind \in [Pids -> Kinds \cup {"none"}]
      BY <2>1, <3>1, <3>2, <3>3 DEF Scripted, ProcTyped
    <3>5. kind'[p] = IF p = n THEN k ELSE kind[p]
      BY <3>4
    <3> QED
      BY <2>1, <3>3, <3>5
  <2>6. shell[s].command \in AvCommands
    <3>1. GoodStep(Next1(s), shell[s].command \in AvCommands)
      BY <2>1, GoodFirst DEF Scripted, ShellOK, Next1, Idle
    <3> QED
      BY <2>4, <2>5, <3>1 DEF GoodStep, StepOK
  <2>7. Hands(s)
    BY <1>1, <2>6 DEF Inv
  <2>8. Told(kind'[p]) /\ Told("mjpg")
    <3>1. shell[s].todo # <<>> /\ shell[s].todo[1].do = "start"
      BY <2>1, <2>4 DEF Idle, Next1
    <3>2. ASSUME NEW e, shell[s].todo = <<Do("start", e)>> \o <<>>
          PROVE  e = kind'[p]
      <4>1. Next1(s) = Do("start", e)
        BY <3>2, AtStep, NilFacts
      <4> QED
        BY <2>5, <4>1, DoFacts
    <3>3. /\ shell[s].todo = StartAv => "c270" = kind'[p]
          /\ shell[s].todo = StartWeb => WebAv = kind'[p]
      BY <3>2, AvLists, Zenon
    <3>4. \/ shell[s].todo = StartAv /\ Told("c270") /\ Told("mjpg")
          \/ shell[s].todo = StartWeb /\ Told(WebAv) /\ Told("mjpg")
      BY <2>7, <3>1, FirstSteps DEF Hands
    <3>5. PICK e : e = kind'[p]
      OBVIOUS
    <3>6. Told(e) /\ Told("mjpg")
      BY <3>3, <3>4, <3>5
    <3> QED
      BY <3>5, <3>6
  <2> QED
    BY <2>8 DEF Told
<1>2. Inv /\ [Next]_vars => [Over]_vars
  BY <1>1
<1> QED
  BY <1>2, Invariant, PTL DEF Spec, HandedOver
=============================================================================
