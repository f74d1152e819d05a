---------------------------- MODULE AutoloadProofs ----------------------------
(* Proofs about Autoload, for everything the other entries of the gstreamer *)
(* menu may leave in PARAM and any number of background removals.           *)
EXTENDS Autoload, SequenceTheorems, TLAPS

Settings    == Values \cup {"yes", "no"}
ValuesOf(f) == IF f = Hourly THEN {"yes", "no"} ELSE Values
AllEdits    == {RemoveRc, Defaults} \cup
               {Set(f, v) : f \in Flags, v \in Settings}
Fits(e)     == \A f \in Flags, v \in Settings : e = Set(f, v) => v \in ValuesOf(f)

----------------------------------------------------------------------------
(* What a list of edits will have done when its last edit is done.          *)

Sets(e, f) == e.do = "set" /\ e.flag = f

\* No flag is set twice by an entry.
Once(s) == \A i, j \in 1 .. Len(s), f \in Flags :
               Sets(s[i], f) /\ Sets(s[j], f) => i = j

\* Will flag f be on, after a set of edits that sets it at most once?
EndsOn(E, f) ==
    IF \E e \in E : Sets(e, f) THEN Set(f, "autoload") \in E ELSE On(f)

Apart(E) == /\ ~(EndsOn(E, Snap) /\ EndsOn(E, Rec))
            /\ EndsOn(E, AV) => ~(\/ EndsOn(E, Snap) \/ EndsOn(E, Rec)
                                  \/ EndsOn(E, Mjpg) \/ EndsOn(E, Audio))

\* An entry that enables the service sets its flag.
Backed(E) == Defaults \in E => EndsOn(E, Mjpg)

Plan(s) == /\ s \in Seq(AllEdits) /\ Len(s) <= 6
           /\ \A e \in Range(s) : Fits(e)
           /\ Once(s)

\* An entry that keeps the modes apart; it removes the service where it
\* clears its flag.
Keeps(E) == /\ Backed(E)
            /\ "entry" \notin lost => Apart(E)
            /\ On(Mjpg) => EndsOn(E, Mjpg) \/ RemoveRc \in E
Proper(s) == Plan(s) /\ Keeps(Range(s))

----------------------------------------------------------------------------
(* The invariant.                                                           *)

Typed ==
    /\ conf \in [Flags -> Settings]
    /\ \A f \in Flags : conf[f] \in ValuesOf(f)
    /\ rc \in BOOLEAN /\ jobs \in 0 .. MaxJobs
    /\ menu \in {"none", "mjpg", "gst"}
    /\ PARAM \in {"", "autoload"} \cup Leftovers
    /\ Plan(todo)
    /\ lost \subseteq {"entry", "removal"}
    /\ boot \in [BootJobs -> {"read", "check", "mjpg", "stop", "start", "done"}]
    /\ runs \subseteq {"mjpg", "snapshots", "recvideo", "av", "audio"}

\* The entry at work, if there is one, will leave the modes apart, and the
\* service enabled only where its flag says so.
Kept ==
    /\ "entry" \notin lost => Apart(Range(todo))
    /\ Backed(Range(todo))
    /\ lost = {} /\ jobs = 0 /\ rc /\ RemoveRc \notin Range(todo) =>
           EndsOn(Range(todo), Mjpg)

\* The flags do not change while the boot jobs run, so that what a job has
\* read is still so when it acts.
Boots ==
    /\ Booting => todo = <<>> /\ menu = "none" /\ jobs = 0
    /\ "entry" \notin lost =>
           /\ \A b \in BootJobs : boot[b] \notin {"read", "done"} => On(FlagOf(b))
           /\ boot["av"] = "start" => "mjpg" \notin runs
           /\ "av" \in runs => "mjpg" \notin runs
           /\ "av" \in runs /\ Booting => On(AV)

Inv == Typed /\ Kept /\ Boots
----------------------------------------------------------------------------
(* Lemmas about edits and lists of edits.                                   *)

LEMMA Names ==
  /\ Mjpg \in Flags /\ Snap \in Flags /\ Rec \in Flags /\ AV \in Flags
  /\ Audio \in Flags /\ Hourly \in Flags
  /\ Mjpg # Snap /\ Mjpg # Rec /\ Mjpg # AV /\ Mjpg # Audio /\ Mjpg # Hourly
  /\ Snap # Rec /\ Snap # AV /\ Snap # Audio /\ Snap # Hourly
  /\ Rec # AV /\ Rec # Audio /\ Rec # Hourly
  /\ AV # Audio /\ AV # Hourly /\ Audio # Hourly
BY DEF Flags, Mjpg, Snap, Rec, AV, Audio, Hourly

LEMMA EditsDiffer ==
  /\ \A f, g, v, w : Set(f, v) = Set(g, w) <=> f = g /\ v = w
  /\ \A f, g, v : Sets(Set(f, v), g) <=> f = g
  /\ \A f, v : Set(f, v) # RemoveRc /\ Set(f, v) # Defaults
  /\ \A f : ~Sets(RemoveRc, f) /\ ~Sets(Defaults, f)
  /\ RemoveRc # Defaults
  /\ \A f, v : Set(f, v).do = "set" /\ Set(f, v).flag = f /\ Set(f, v).to = v
  /\ RemoveRc.do = "remove" /\ Defaults.do = "defaults"
BY DEF Set, RemoveRc, Defaults, Sets

LEMMA EditTypes ==
  /\ RemoveRc \in AllEdits /\ Defaults \in AllEdits
  /\ Fits(RemoveRc) /\ Fits(Defaults)
  /\ \A f \in Flags : \A v \in ValuesOf(f) : Set(f, v) \in AllEdits /\ Fits(Set(f, v))
  /\ \A f \in Flags : "noautoload" \in Values
BY EditsDiffer DEF AllEdits, Fits, ValuesOf, Settings, Values

LEMMA AutoloadIsNoLeftover ==
  "autoload" \notin Leftovers /\ "noautoload" \notin Leftovers
BY LeftoversOK

LEMMA EmptyPlan ==
  /\ Range(<<>>) = {} /\ Plan(<<>>)
<1>1. <<>> \in Seq(AllEdits) /\ Len(<<>>) = 0
  BY EmptySeq
<1>2. PICK s \in Seq(AllEdits) : s = <<>> /\ Len(s) = 0
  BY <1>1
<1>a. Range(s) = {s[i] : i \in 1 .. Len(s)}
  BY RangeEquality
<1>3. Range(s) = {}
  BY <1>2, <1>a
<1> QED
  BY <1>2, <1>3 DEF Plan, Once

\* A list of edits that sets each flag at most once, and is not longer than n.
Does(s, E, n) == /\ s \in Seq(AllEdits) /\ Range(s) = E /\ Len(s) <= n
                 /\ Once(s)

LEMMA DoesNone == Does(<<>>, {}, 0)
BY EmptyPlan, EmptySeq DEF Plan, Does

LEMMA DoesOne ==
  ASSUME NEW e \in AllEdits
  PROVE  Does(<<e>>, {e}, 1)
<1>1. <<e>> \in Seq(AllEdits) /\ Len(<<e>>) = 1 /\ <<e>>[1] = e
  OBVIOUS
<1>2. Range(<<e>>) = {<<e>>[i] : i \in 1 .. 1}
  BY <1>1, RangeEquality
<1> QED
  BY <1>1, <1>2 DEF Does, Once

\* One list after another that sets other flags.
LEMMA DoesBoth ==
  ASSUME NEW s, NEW t, NEW E, NEW F, NEW m \in Nat, NEW n \in Nat,
         Does(s, E, m), Does(t, F, n),
         \A e \in E, g \in F, f \in Flags : ~(Sets(e, f) /\ Sets(g, f))
  PROVE  Does(s \o t, E \cup F, m + n)
<1>1. s \in Seq(AllEdits) /\ t \in Seq(AllEdits) /\ Range(s) = E /\ Range(t) = F
  BY DEF Does
<1>2. /\ s \o t \in Seq(AllEdits) /\ Len(s \o t) = Len(s) + Len(t)
      /\ \A i \in 1 .. Len(s) + Len(t) :
             (s \o t)[i] = IF i <= Len(s) THEN s[i] ELSE t[i - Len(s)]
  BY <1>1, ConcatProperties
<1>3. Range(s \o t) = E \cup F
  BY <1>1, RangeConcatenation
<1>4. PICK k \in Nat, l \in Nat : k = Len(s) /\ l = Len(t) /\ k <= m /\ l <= n
  BY <1>1, LenProperties DEF Does
<1>5. PICK u : u = s \o t
  OBVIOUS
<1>6. /\ \A i \in 1 .. k : s[i] \in E
      /\ \A i \in 1 .. l : t[i] \in F
  BY <1>1, <1>4, RangeEquality
<1>7. /\ \A i \in 1 .. k, j \in 1 .. k, f \in Flags :
             Sets(s[i], f) /\ Sets(s[j], f) => i = j
      /\ \A i \in 1 .. l, j \in 1 .. l, f \in Flags :
             Sets(t[i], f) /\ Sets(t[j], f) => i = j
  BY <1>4 DEF Does, Once
<1>8. \A i \in 1 .. k + l : u[i] = IF i <= k THEN s[i] ELSE t[i - k]
  BY <1>2, <1>4, <1>5
<1>9. ASSUME NEW i \in 1 .. k + l, NEW j \in 1 .. k + l, NEW f \in Flags,
             Sets(u[i], f), Sets(u[j], f)
      PROVE  i = j
  <2>1. CASE i <= k /\ j <= k
    <3>1. i \in 1 .. k /\ j \in 1 .. k /\ u[i] = s[i] /\ u[j] = s[j]
      BY <1>8, <2>1
    <3> QED
      BY <1>7, <1>9, <3>1
  <2>2. CASE i <= k /\ ~(j <= k)
    <3>1. i \in 1 .. k /\ j - k \in 1 .. l /\ u[i] = s[i] /\ u[j] = t[j - k]
      BY <1>8, <2>2
    <3> QED
      BY <1>6, <1>9, <3>1
  <2>3. CASE ~(i <= k) /\ j <= k
    <3>1. i - k \in 1 .. l /\ j \in 1 .. k /\ u[i] = t[i - k] /\ u[j] = s[j]
      BY <1>8, <2>3
    <3> QED
      BY <1>6, <1>9, <3>1
  <2>4. CASE ~(i <= k) /\ ~(j <= k)
    <3>1. /\ i - k \in 1 .. l /\ j - k \in 1 .. l
          /\ u[i] = t[i - k] /\ u[j] = t[j - k]
      BY <1>8, <2>4
    <3>2. i - k = j - k
      BY <1>7, <1>9, <3>1
    <3> QED
      BY <3>2
  <2> QED
    BY <2>1, <2>2, <2>3, <2>4
<1>10. Len(u) = k + l
  BY <1>2, <1>4, <1>5
<1>11. Once(u)
  BY <1>9, <1>10 DEF Once
<1>12. Len(u) <= m + n
  BY <1>4, <1>10
<1> QED
  BY <1>2, <1>3, <1>5, <1>11, <1>12 DEF Does

LEMMA JoinedTwo ==
  ASSUME NEW S, NEW q \in Seq(S), NEW r \in Seq(S), NEW s \in Seq(S),
         Len(q) = 1, Len(r) = 1, Len(s) = 2, s[1] = q[1], s[2] = r[1]
  PROVE  q \o r = s
<1>0. /\ q \o r \in Seq(S) /\ Len(q \o r) = Len(q) + Len(r)
      /\ \A i \in 1 .. Len(q) + Len(r) :
             (q \o r)[i] = IF i <= Len(q) THEN q[i] ELSE r[i - Len(q)]
  BY ConcatProperties
<1>1. /\ q \o r \in Seq(S) /\ Len(q \o r) = 2
      /\ (q \o r)[1] = q[1] /\ (q \o r)[2] = r[1]
  BY <1>0
<1>2. \A i \in 1 .. 2 : (q \o r)[i] = s[i]
  BY <1>1
<1> QED
  BY <1>1, <1>2, SeqEqual

LEMMA JoinedThree ==
  ASSUME NEW S, NEW q \in Seq(S), NEW r \in Seq(S), NEW s \in Seq(S),
         Len(q) = 1, Len(r) = 2, Len(s) = 3,
         s[1] = q[1], s[2] = r[1], s[3] = r[2]
  PROVE  q \o r = s
<1>0. /\ q \o r \in Seq(S) /\ Len(q \o r) = Len(q) + Len(r)
      /\ \A i \in 1 .. Len(q) + Len(r) :
             (q \o r)[i] = IF i <= Len(q) THEN q[i] ELSE r[i - Len(q)]
  BY ConcatProperties
<1>1. /\ q \o r \in Seq(S) /\ Len(q \o r) = 3
      /\ (q \o r)[1] = q[1] /\ (q \o r)[2] = r[1] /\ (q \o r)[3] = r[2]
  BY <1>0
<1>2. \A i \in 1 .. 3 : (q \o r)[i] = s[i]
  BY <1>1
<1> QED
  BY <1>1, <1>2, SeqEqual

LEMMA Joined ==
  ASSUME NEW c \in AllEdits, NEW d \in AllEdits, NEW e \in AllEdits
  PROVE  /\ <<d>> \o <<e>> = <<d, e>>
         /\ <<c>> \o <<d, e>> = <<c, d, e>>
<1>1. /\ <<c>> \in Seq(AllEdits) /\ Len(<<c>>) = 1 /\ <<c>>[1] = c
      /\ <<d>> \in Seq(AllEdits) /\ Len(<<d>>) = 1 /\ <<d>>[1] = d
      /\ <<e>> \in Seq(AllEdits) /\ Len(<<e>>) = 1 /\ <<e>>[1] = e
  OBVIOUS
<1>2. /\ <<d, e>> \in Seq(AllEdits) /\ Len(<<d, e>>) = 2
      /\ <<d, e>>[1] = d /\ <<d, e>>[2] = e
  OBVIOUS
<1>3. /\ <<c, d, e>> \in Seq(AllEdits) /\ Len(<<c, d, e>>) = 3
      /\ <<c, d, e>>[1] = c /\ <<c, d, e>>[2] = d /\ <<c, d, e>>[3] = e
  OBVIOUS
<1>4. <<d>> \o <<e>> = <<d, e>>
  BY <1>1, <1>2, JoinedTwo, Zenon
<1>5. <<c>> \o <<d, e>> = <<c, d, e>>
  BY <1>1, <1>2, <1>3, JoinedThree, Zenon
<1> QED
  BY <1>4, <1>5

LEMMA DoesTwo ==
  ASSUME NEW d \in AllEdits, NEW e \in AllEdits,
         \A f \in Flags : ~(Sets(d, f) /\ Sets(e, f))
  PROVE  Does(<<d, e>>, {d, e}, 2)
<1>1. Does(<<d>>, {d}, 1) /\ Does(<<e>>, {e}, 1)
  BY DoesOne
<1>2. Does(<<d>> \o <<e>>, {d} \cup {e}, 1 + 1)
  BY <1>1, DoesBoth
<1>a. 1 + 1 = 2
  OBVIOUS
<1>3. <<d>> \o <<e>> = <<d, e>> /\ {d} \cup {e} = {d, e}
  BY Joined
<1> QED
  BY <1>2, <1>3, <1>a, Zenon

LEMMA DoesThree ==
  ASSUME NEW c \in AllEdits, NEW d \in AllEdits, NEW e \in AllEdits,
         \A f \in Flags : /\ ~(Sets(c, f) /\ Sets(d, f))
                          /\ ~(Sets(c, f) /\ Sets(e, f))
                          /\ ~(Sets(d, f) /\ Sets(e, f))
  PROVE  Does(<<c, d, e>>, {c, d, e}, 3)
<1>1. Does(<<c>>, {c}, 1) /\ Does(<<d, e>>, {d, e}, 2)
  BY DoesOne, DoesTwo
<1>2. Does(<<c>> \o <<d, e>>, {c} \cup {d, e}, 1 + 2)
  BY <1>1, DoesBoth
<1>a. 1 + 2 = 3
  OBVIOUS
<1>3. <<c>> \o <<d, e>> = <<c, d, e>> /\ {c} \cup {d, e} = {c, d, e}
  BY Joined
<1> QED
  BY <1>2, <1>3, <1>a, Zenon

\* The first edit, and the others.
LEMMA FirstEdit ==
  ASSUME NEW s, Plan(s), s # <<>>
  PROVE  /\ Head(s) \in AllEdits /\ Fits(Head(s)) /\ Plan(Tail(s))
         /\ Range(s) = {Head(s)} \cup Range(Tail(s))
         /\ \A e \in Range(Tail(s)), f \in Flags : ~(Sets(Head(s), f) /\ Sets(e, f))
<1>1. s \in Seq(AllEdits)
  BY DEF Plan
<1>2. /\ Head(s) \in AllEdits /\ Tail(s) \in Seq(AllEdits)
      /\ Len(Tail(s)) = Len(s) - 1
      /\ \A i \in 1 .. Len(Tail(s)) : Tail(s)[i] = s[i + 1]
  BY <1>1, HeadTailProperties
<1>3. Head(s) = s[1]
  BY <1>1
<1>4. PICK n \in Nat \ {0} : n = Len(s) /\ n <= 6
  BY <1>1, EmptySeq DEF Plan
<1>5. PICK t \in Seq(AllEdits) : t = Tail(s)
  BY <1>2
<1>6. Len(t) = n - 1 /\ \A i \in 1 .. n - 1 : t[i] = s[i + 1]
  BY <1>2, <1>4, <1>5
<1>7. Range(s) = {s[i] : i \in 1 .. n}
  BY <1>1, <1>4, RangeEquality
<1>8. Range(t) = {t[i] : i \in 1 .. n - 1}
  BY <1>6, RangeEquality
<1>9. \A i \in 1 .. n : i = 1 \/ (i - 1 \in 1 .. n - 1 /\ s[i] = t[i - 1])
  BY <1>6
<1>10. Range(s) = {s[1]} \cup Range(t)
  <2>1. ASSUME NEW e \in Range(s)
        PROVE  e \in {s[1]} \cup Range(t)
    <3>1. PICK i \in 1 .. n : e = s[i]
      BY <1>7
    <3> QED
      BY <1>8, <1>9, <3>1
  <2>2. s[1] \in Range(s)
    BY <1>4, <1>7
  <2>3. ASSUME NEW e \in Range(t)
        PROVE  e \in Range(s)
    <3>1. PICK i \in 1 .. n - 1 : e = s[i + 1]
      BY <1>6, <1>8
    <3>2. i + 1 \in 1 .. n
      BY <1>4
    <3> QED
      BY <1>7, <3>1, <3>2
  <2> QED
    BY <2>1, <2>2, <2>3
<1>11. \A i, j \in 1 .. n, f \in Flags : Sets(s[i], f) /\ Sets(s[j], f) => i = j
  BY <1>4 DEF Plan, Once
<1>12. Once(t)
  BY <1>6, <1>11 DEF Once
<1>13. ASSUME NEW e \in Range(t), NEW f \in Flags
       PROVE  ~(Sets(s[1], f) /\ Sets(e, f))
  <2>1. PICK i \in 1 .. n - 1 : e = s[i + 1]
    BY <1>6, <1>8
  <2>2. i + 1 \in 1 .. n /\ 1 \in 1 .. n /\ i + 1 # 1
    BY <1>4
  <2> QED
    BY <1>11, <2>1, <2>2
<1>14. Plan(t)
  BY <1>4, <1>6, <1>10, <1>12 DEF Plan
<1>15. Fits(s[1])
  BY <1>10 DEF Plan
<1> QED
  BY <1>2, <1>3, <1>5, <1>10, <1>13, <1>14, <1>15
----------------------------------------------------------------------------
(* Each entry of the menus is proper.                                       *)

\* When no entry is at work, the flags themselves are apart.
Idle == Inv /\ todo = <<>>

LEMMA IdleApart ==
  ASSUME Idle
  PROVE  /\ "entry" \notin lost =>
                /\ ~(On(Snap) /\ On(Rec))
                /\ On(AV) => ~(On(Snap) \/ On(Rec) \/ On(Mjpg) \/ On(Audio))
         /\ lost = {} /\ jobs = 0 /\ rc => On(Mjpg)
BY EmptyPlan DEF Idle, Inv, Kept, Apart, EndsOn

LEMMA Proved ==
  ASSUME NEW s, NEW E, NEW n \in 0 .. 6, Does(s, E, n), \A e \in E : Fits(e),
         Keeps(E)
  PROVE  Proper(s)
<1>1. s \in Seq(AllEdits) /\ Range(s) = E /\ Len(s) <= n /\ Once(s)
  BY DEF Does
<1>2. Len(s) <= 6
  <2>1. Len(s) \in Nat
    BY <1>1, LenProperties
  <2> QED
    BY <1>1, <2>1
<1> QED
  BY <1>1, <1>2 DEF Proper, Plan

\* What an entry may clear on its way.
Off(f) == Set(f, "noautoload")

LEMMA OffType ==
  ASSUME NEW f \in Flags \ {Hourly}
  PROVE  /\ Set(f, "autoload") \in AllEdits /\ Fits(Set(f, "autoload"))
         /\ Off(f) \in AllEdits /\ Fits(Off(f))
         /\ Off(f) # Set(f, "autoload")
BY EditTypes, EditsDiffer DEF Off, ValuesOf, Values

LEMMA Cleared ==
  ASSUME NEW f \in Flags \ {Hourly}
  PROVE  \E C \in SUBSET {Off(f)} :
             Does(Clear(f), C, 1) /\ (C = {} => ~On(f))
<1>1. CASE conf[f] # "noautoload"
  <2>1. Clear(f) = <<Off(f)>>
    BY <1>1 DEF Clear, Off
  <2>2. Does(<<Off(f)>>, {Off(f)}, 1)
    BY OffType, DoesOne
  <2>3. Does(Clear(f), {Off(f)}, 1)
    BY <2>1, <2>2
  <2> QED
    BY <2>3
<1>2. CASE conf[f] = "noautoload"
  <2>1. Clear(f) = <<>>
    BY <1>2 DEF Clear
  <2>2. Does(<<>>, {}, 1)
    BY DoesNone, EmptySeq DEF Does
  <2>3. Does(Clear(f), {}, 1) /\ ~On(f)
    BY <1>2, <2>1, <2>2 DEF On
  <2> QED
    BY <2>3
<1> QED
  BY <1>1, <1>2

LEMMA MjpgEntry ==
  ASSUME Idle, NEW s,
         s = IF On(Mjpg) THEN <<RemoveRc, Set(Mjpg, "noautoload")>>
             ELSE <<Defaults, Set(Mjpg, "autoload")>> \o Clear(AV)
  PROVE  Proper(s)
<1> USE Names, EditsDiffer
<1>1. CASE On(Mjpg)
  <2>1. Does(s, {RemoveRc, Off(Mjpg)}, 2)
    BY <1>1, DoesTwo, EditTypes, OffType DEF Off
  <2>2. Keeps({RemoveRc, Off(Mjpg)})
    BY <1>1, IdleApart DEF Keeps, Backed, Apart, EndsOn, Off
  <2>3. \A e \in {RemoveRc, Off(Mjpg)} : Fits(e)
    BY EditTypes, OffType
  <2> QED
    BY <2>1, <2>2, <2>3, Proved
<1>2. CASE ~On(Mjpg)
  <2>1. PICK C \in SUBSET {Off(AV)} : Does(Clear(AV), C, 1) /\ (C = {} => ~On(AV))
    BY Cleared
  <2>2. Does(<<Defaults, Set(Mjpg, "autoload")>>,
             {Defaults, Set(Mjpg, "autoload")}, 2)
    BY DoesTwo, EditTypes, OffType
  <2>3. PICK E : E = {Defaults, Set(Mjpg, "autoload")} \cup C
    OBVIOUS
  <2>a. \A e \in {Defaults, Set(Mjpg, "autoload")}, g \in C, f \in Flags :
            ~(Sets(e, f) /\ Sets(g, f))
    BY DEF Off
  <2>b. Does(<<Defaults, Set(Mjpg, "autoload")>> \o Clear(AV),
             {Defaults, Set(Mjpg, "autoload")} \cup C, 2 + 1)
    BY <2>1, <2>2, <2>a, DoesBoth
  <2>4. Does(s, E, 2 + 1)
    BY <1>2, <2>3, <2>b
  <2>5. Keeps(E)
    BY <1>2, <2>1, <2>3, IdleApart DEF Keeps, Backed, Apart, EndsOn, Off
  <2>6. \A e \in E : Fits(e)
    BY <2>1, <2>3, EditTypes, OffType
  <2>7. 2 + 1 \in 0 .. 6
    OBVIOUS
  <2> QED
    BY <2>4, <2>5, <2>6, <2>7, Proved
<1> QED
  BY <1>1, <1>2
LEMMA RecordingEntry ==
  ASSUME Idle, NEW f \in {Rec, Snap}, NEW g \in {Rec, Snap} \ {f}, NEW s,
         s = IF On(f)
             THEN <<Set(f, "noautoload"), Set(Mjpg, "noautoload"), RemoveRc>>
             ELSE <<Set(f, "autoload"), Set(Mjpg, "autoload"), Defaults>>
                  \o Clear(g) \o Clear(AV)
  PROVE  Proper(s)
<1>a. \E C \in SUBSET {Off(AV)} : Does(Clear(AV), C, 1) /\ (C = {} => ~On(AV))
  <2>1. AV \in Flags \ {Hourly}
    BY Names
  <2> QED
    BY <2>1, Cleared
<1>b. \E D \in SUBSET {Off(g)} : Does(Clear(g), D, 1) /\ (D = {} => ~On(g))
  <2>1. g \in Flags \ {Hourly}
    BY Names
  <2> QED
    BY <2>1, Cleared
<1> USE Names, EditsDiffer
<1>1. CASE On(f)
  <2>1. PICK E : E = {Off(f), Off(Mjpg), RemoveRc}
    OBVIOUS
  <2>2. Does(s, E, 3)
    BY <1>1, <2>1, DoesThree, EditTypes, OffType DEF Off
  <2>3. Keeps(E)
    BY <1>1, <2>1, IdleApart DEF Keeps, Backed, Apart, EndsOn, Off
  <2>4. \A e \in E : Fits(e)
    BY <2>1, EditTypes, OffType
  <2> QED
    BY <2>2, <2>3, <2>4, Proved
<1>2. CASE ~On(f)
  <2>1. PICK C \in SUBSET {Off(AV)} : Does(Clear(AV), C, 1) /\ (C = {} => ~On(AV))
    BY <1>a
  <2>2. PICK D \in SUBSET {Off(g)} : Does(Clear(g), D, 1) /\ (D = {} => ~On(g))
    BY <1>b
  <2>3. PICK F : F = {Set(f, "autoload"), Set(Mjpg, "autoload"), Defaults}
    OBVIOUS
  <2>4. PICK t : t = <<Set(f, "autoload"), Set(Mjpg, "autoload"), Defaults>>
    OBVIOUS
  <2>5. Does(t, F, 3)
    BY <2>3, <2>4, DoesThree, EditTypes, OffType
  <2>6. \A d \in F, e \in D, h \in Flags : ~(Sets(d, h) /\ Sets(e, h))
    BY <2>3 DEF Off
  <2>7. Does(t \o Clear(g), F \cup D, 3 + 1)
    BY <2>2, <2>5, <2>6, DoesBoth
  <2>8. PICK u, G : u = t \o Clear(g) /\ G = F \cup D
    OBVIOUS
  <2>9. PICK n \in 0 .. 6 : n = 3 + 1
    OBVIOUS
  <2>10. Does(u, G, n)
    BY <2>7, <2>8, <2>9
  <2>11. \A d \in G, e \in C, h \in Flags : ~(Sets(d, h) /\ Sets(e, h))
    BY <2>3, <2>8 DEF Off
  <2>a. PICK m \in 0 .. 6 : m = n + 1
    BY <2>9
  <2>b. PICK E : E = G \cup C
    OBVIOUS
  <2>12. m = n + 1 /\ E = G \cup C
    BY <2>a, <2>b
  <2>13. Does(s, E, m)
    <3>1. Does(u \o Clear(AV), G \cup C, n + 1)
      BY <2>1, <2>10, <2>11, DoesBoth
    <3> QED
      BY <1>2, <2>4, <2>8, <2>12, <3>1
  <2>14. Keeps(E)
    <3>1. EndsOn(E, Mjpg)
      <4>1. Set(Mjpg, "autoload") \in E
        BY <2>3, <2>8, <2>12
      <4>2. Sets(Set(Mjpg, "autoload"), Mjpg)
        OBVIOUS
      <4> HIDE Names, EditsDiffer
      <4> QED
        BY <4>1, <4>2 DEF EndsOn
    <3>2. ~EndsOn(E, AV)
      <4>1. Set(AV, "autoload") \notin E
        BY <2>1, <2>2, <2>3, <2>8, <2>12 DEF Off
      <4>2. C # {} => \E e \in E : Sets(e, AV)
        BY <2>1, <2>12 DEF Off
      <4> QED
        BY <2>1, <4>1, <4>2 DEF EndsOn
    <3>3. ~EndsOn(E, g)
      <4>1. Set(g, "autoload") \notin E
        BY <2>1, <2>2, <2>3, <2>8, <2>12 DEF Off
      <4>2. D # {} => \E e \in E : Sets(e, g)
        BY <2>2, <2>8, <2>12 DEF Off
      <4> QED
        BY <2>2, <4>1, <4>2 DEF EndsOn
    <3> QED
      BY <3>1, <3>2, <3>3 DEF Keeps, Backed, Apart
  <2>15. \A e \in E : Fits(e)
    BY <2>1, <2>2, <2>3, <2>8, <2>12, EditTypes, OffType
  <2> QED
    BY <2>12, <2>13, <2>14, <2>15, Proved
<1> QED
  BY <1>1, <1>2

\* An entry of one or two edits that set flags other than these five.
LEMMA HourlyEntry ==
  ASSUME Idle, NEW v \in {"yes", "no"}
  PROVE  Proper(<<Set(Hourly, v)>>)
<1> USE Names, EditsDiffer
<1>1. Set(Hourly, v) \in AllEdits /\ Fits(Set(Hourly, v))
  BY EditTypes DEF ValuesOf
<1>2. Does(<<Set(Hourly, v)>>, {Set(Hourly, v)}, 1)
  BY <1>1, DoesOne
<1>3. Keeps({Set(Hourly, v)})
  BY IdleApart DEF Keeps, Backed, Apart, EndsOn
<1> QED
  BY <1>1, <1>2, <1>3, Proved

----------------------------------------------------------------------------
(* The entries of the gstreamer menu, whatever PARAM is.                    *)

LEMMA Disabled ==
  ASSUME NEW f \in {Snap, Rec}
  PROVE  \E D \in SUBSET {Off(f)} :
             Does(Disable(f), D, 1) /\ (D = {} <=> ~Matches(f))
<1> USE Names
<1>1. CASE Matches(f)
  <2>1. Disable(f) = <<Off(f)>>
    BY <1>1 DEF Disable, Off
  <2>2. Does(<<Off(f)>>, {Off(f)}, 1)
    BY OffType, DoesOne
  <2>3. Does(Disable(f), {Off(f)}, 1)
    BY <2>1, <2>2
  <2> QED
    BY <1>1, <2>3
<1>2. CASE ~Matches(f)
  <2>1. Disable(f) = <<>>
    BY <1>2 DEF Disable
  <2>2. Does(<<>>, {}, 1)
    BY DoesNone, EmptySeq DEF Does
  <2>3. Does(Disable(f), {}, 1)
    BY <2>1, <2>2
  <2> QED
    BY <1>2, <2>3
<1> QED
  BY <1>1, <1>2

LEMMA DisabledMjpg ==
  \E D \in {{}, {RemoveRc, Off(Mjpg)}} :
      Does(Disable(Mjpg), D, 2) /\ (D = {} <=> ~Matches(Mjpg))
<1> USE Names
<1>1. CASE Matches(Mjpg)
  <2>1. Disable(Mjpg) = <<RemoveRc, Off(Mjpg)>>
    BY <1>1 DEF Disable, Off
  <2>2. Does(<<RemoveRc, Off(Mjpg)>>, {RemoveRc, Off(Mjpg)}, 2)
    BY OffType, EditTypes, EditsDiffer, DoesTwo
  <2>3. Does(Disable(Mjpg), {RemoveRc, Off(Mjpg)}, 2)
    BY <2>1, <2>2
  <2> QED
    BY <1>1, <2>3
<1>2. CASE ~Matches(Mjpg)
  <2>1. Disable(Mjpg) = <<>>
    BY <1>2 DEF Disable
  <2>2. Does(<<>>, {}, 2)
    BY DoesNone, EmptySeq DEF Does
  <2>3. Does(Disable(Mjpg), {}, 2)
    BY <2>1, <2>2
  <2> QED
    BY <1>2, <2>3
<1> QED
  BY <1>1, <1>2

\* What PARAM means for a flag that is on.
LEMMA ParamMeans ==
  ASSUME Idle
  PROVE  /\ PARAM = "" => \A f : Matches(f)
         /\ \A f \in Flags : PARAM = "autoload" => (Matches(f) <=> On(f))
         /\ PARAM # "" => PARAM \in Values
BY DEF Idle, Inv, Typed, Matches, On, Values

LEMMA AvEntry ==
  ASSUME Idle, ~Matches(AV), NEW s,
         s = Disable(Snap) \o Disable(Rec) \o Disable(Mjpg)
             \o <<Set(AV, PARAM), Set(Audio, "noautoload")>>
  PROVE  Proper(s)
<1> USE Names, EditsDiffer
<1>1. PICK A \in SUBSET {Off(Snap)} :
          Does(Disable(Snap), A, 1) /\ (A = {} <=> ~Matches(Snap))
  BY Disabled
<1>2. PICK B \in SUBSET {Off(Rec)} :
          Does(Disable(Rec), B, 1) /\ (B = {} <=> ~Matches(Rec))
  BY Disabled
<1>3. PICK C \in {{}, {RemoveRc, Off(Mjpg)}} :
          Does(Disable(Mjpg), C, 2) /\ (C = {} <=> ~Matches(Mjpg))
  BY DisabledMjpg
<1>4. PARAM # "" /\ PARAM \in Values
  BY ParamMeans
<1>5. Set(AV, PARAM) \in AllEdits /\ Fits(Set(AV, PARAM))
  BY <1>4, EditTypes DEF ValuesOf
<1>6. PICK F : F = {Set(AV, PARAM), Off(Audio)}
  OBVIOUS
<1>7. PICK t : t = <<Set(AV, PARAM), Off(Audio)>>
  OBVIOUS
<1>8. Does(t, F, 2)
  BY <1>5, <1>6, <1>7, DoesTwo, OffType DEF Off
<1>9. \A d \in A, e \in B, h \in Flags : ~(Sets(d, h) /\ Sets(e, h))
  BY DEF Off
<1>a. PICK n \in 0 .. 6 : n = 1 + 1
  OBVIOUS
<1>b. PICK u, G : u = Disable(Snap) \o Disable(Rec) /\ G = A \cup B
  OBVIOUS
<1>10. n = 1 + 1 /\ u = Disable(Snap) \o Disable(Rec) /\ G = A \cup B
  BY <1>a, <1>b
<1>11. Does(u, G, n)
  <2>1. Does(Disable(Snap) \o Disable(Rec), A \cup B, 1 + 1)
    BY <1>1, <1>2, <1>9, DoesBoth
  <2> QED
    BY <1>10, <2>1
<1>c. PICK m \in 0 .. 6 : m = n + 2
  BY <1>a
<1>d. PICK v, H : v = u \o Disable(Mjpg) /\ H = G \cup C
  OBVIOUS
<1>12. m = n + 2 /\ v = u \o Disable(Mjpg) /\ H = G \cup C
  BY <1>c, <1>d
<1>13. Does(v, H, m)
  <2>1. \A d \in G, e \in C, h \in Flags : ~(Sets(d, h) /\ Sets(e, h))
    <3>1. G \subseteq {Off(Snap), Off(Rec)} /\ C \subseteq {RemoveRc, Off(Mjpg)}
      BY <1>10
    <3>2. \A d \in G, h \in Flags : Sets(d, h) => h \in {Snap, Rec}
      BY <3>1 DEF Off
    <3>3. \A e \in C, h \in Flags : Sets(e, h) => h = Mjpg
      BY <3>1 DEF Off
    <3> QED
      BY <3>2, <3>3
  <2>2. Does(u \o Disable(Mjpg), G \cup C, n + 2)
    BY <1>3, <1>11, <2>1, DoesBoth
  <2> QED
    BY <1>12, <2>2
<1>e. PICK k \in 0 .. 6 : k = m + 2
  BY <1>a, <1>c
<1>f. PICK E : E = H \cup F
  OBVIOUS
<1>14. k = m + 2 /\ E = H \cup F
  BY <1>e, <1>f
<1>15. E = ((A \cup B) \cup C) \cup {Set(AV, PARAM), Off(Audio)}
  BY <1>6, <1>10, <1>12, <1>14
<1>16. Does(s, E, k)
  <2>1. \A d \in H, e \in F, h \in Flags : ~(Sets(d, h) /\ Sets(e, h))
    <3>1. H \subseteq {Off(Snap), Off(Rec), RemoveRc, Off(Mjpg)}
      BY <1>10, <1>12
    <3>2. \A d \in H, h \in Flags : Sets(d, h) => h \in {Snap, Rec, Mjpg}
      BY <3>1 DEF Off
    <3>3. \A e \in F, h \in Flags : Sets(e, h) => h \in {AV, Audio}
      BY <1>6 DEF Off
    <3> QED
      BY <3>2, <3>3
  <2>2. Does(v \o t, H \cup F, m + 2)
    BY <1>8, <1>13, <2>1, DoesBoth
  <2>3. s = v \o t
    BY <1>7, <1>10, <1>12 DEF Off
  <2> QED
    BY <1>14, <2>2, <2>3
<1>17. Keeps(E)
  <2>1. Defaults \notin E /\ ~EndsOn(E, Audio)
    BY <1>15 DEF EndsOn, Off
  <2>2. EndsOn(E, AV) <=> PARAM = "autoload"
    BY <1>15 DEF EndsOn, Off
  <2>3. EndsOn(E, Snap) <=> A = {} /\ On(Snap)
    <3>1. \A e \in E : Sets(e, Snap) => e = Off(Snap) /\ e \in A
      BY <1>15 DEF Off
    <3>2. Set(Snap, "autoload") \notin E
      BY <3>1 DEF Off
    <3>3. A # {} => \E e \in E : Sets(e, Snap)
      BY <1>15 DEF Off
    <3> QED
      BY <3>1, <3>2, <3>3 DEF EndsOn
  <2>4. EndsOn(E, Rec) <=> B = {} /\ On(Rec)
    <3>1. \A e \in E : Sets(e, Rec) => e = Off(Rec) /\ e \in B
      BY <1>15 DEF Off
    <3>2. Set(Rec, "autoload") \notin E
      BY <3>1 DEF Off
    <3>3. B # {} => \E e \in E : Sets(e, Rec)
      BY <1>15 DEF Off
    <3> QED
      BY <3>1, <3>2, <3>3 DEF EndsOn
  <2>5. EndsOn(E, Mjpg) <=> C = {} /\ On(Mjpg)
    <3>1. \A e \in E : Sets(e, Mjpg) => e = Off(Mjpg) /\ e \in C
      BY <1>15 DEF Off
    <3>2. Set(Mjpg, "autoload") \notin E
      BY <3>1 DEF Off
    <3>3. C # {} => \E e \in E : Sets(e, Mjpg)
      <4>1. C # {} => Off(Mjpg) \in E
        BY <1>15
      <4>2. Sets(Off(Mjpg), Mjpg)
        BY DEF Off
      <4> QED
        BY <4>1, <4>2
    <3> QED
      BY <3>1, <3>2, <3>3 DEF EndsOn
  <2>6. C # {} => RemoveRc \in E
    BY <1>15
  <2>7. PARAM = "autoload" =>
            ~EndsOn(E, Snap) /\ ~EndsOn(E, Rec) /\ ~EndsOn(E, Mjpg)
    BY <1>1, <1>2, <1>3, <2>3, <2>4, <2>5, ParamMeans
  <2> QED
    BY <2>1, <2>2, <2>3, <2>4, <2>5, <2>6, <2>7, IdleApart
       DEF Keeps, Backed, Apart
<1>18. \A e \in E : Fits(e)
  BY <1>5, <1>15, EditTypes, OffType
<1> QED
  BY <1>14, <1>16, <1>17, <1>18, Proved

\* The user says no to one of the questions.
LEMMA RefusedEntry ==
  ASSUME Idle, NEW s \in {<<>>, Disable(Snap), Disable(Snap) \o Disable(Rec)}
  PROVE  Proper(s)
<1> USE Names, EditsDiffer
<1>1. PICK A \in SUBSET {Off(Snap)} : Does(Disable(Snap), A, 1)
  BY Disabled
<1>2. PICK B \in SUBSET {Off(Rec)} : Does(Disable(Rec), B, 1)
  BY Disabled
<1>3. ASSUME NEW E \in SUBSET {Off(Snap), Off(Rec)}
      PROVE  Keeps(E) /\ \A e \in E : Fits(e)
  <2>1. /\ EndsOn(E, Snap) => On(Snap)
        /\ EndsOn(E, Rec) => On(Rec)
        /\ EndsOn(E, AV) <=> On(AV)
        /\ EndsOn(E, Mjpg) <=> On(Mjpg)
        /\ EndsOn(E, Audio) <=> On(Audio)
        /\ Defaults \notin E
    BY DEF EndsOn, Off
  <2> QED
    BY <2>1, IdleApart, OffType DEF Keeps, Backed, Apart
<1>4. CASE s = <<>>
  BY <1>3, <1>4, DoesNone, Proved
<1>5. CASE s = Disable(Snap)
  BY <1>1, <1>3, <1>5, Proved
<1>6. CASE s = Disable(Snap) \o Disable(Rec)
  <2>1. \A d \in A, e \in B, h \in Flags : ~(Sets(d, h) /\ Sets(e, h))
    BY DEF Off
  <2>2. Does(Disable(Snap) \o Disable(Rec), A \cup B, 1 + 1)
    BY <1>1, <1>2, <2>1, DoesBoth
  <2>3. PICK n \in 0 .. 6 : n = 1 + 1
    OBVIOUS
  <2>4. A \cup B \in SUBSET {Off(Snap), Off(Rec)}
    OBVIOUS
  <2>5. Keeps(A \cup B) /\ \A e \in A \cup B : Fits(e)
    BY <1>3, <2>4
  <2> QED
    BY <1>6, <2>2, <2>3, <2>5, Proved
<1> QED
  BY <1>4, <1>5, <1>6

\* An entry that clears one flag of the two of the gstreamer menu.
LEMMA OffEntry ==
  ASSUME Idle, NEW f \in {AV, Audio}
  PROVE  Proper(<<Set(f, "noautoload")>>)
<1> USE Names, EditsDiffer
<1>1. Does(<<Off(f)>>, {Off(f)}, 1)
  BY OffType, DoesOne
<1>2. Keeps({Off(f)})
  BY IdleApart DEF Keeps, Backed, Apart, EndsOn, Off
<1>3. Proper(<<Off(f)>>)
  BY <1>1, <1>2, OffType, Proved
<1> QED
  BY <1>3 DEF Off

LEMMA AudioEntry ==
  ASSUME Idle, ~Matches(Audio)
  PROVE  Proper(<<Set(Audio, PARAM), Set(AV, "noautoload")>>)
<1> USE Names, EditsDiffer
<1>1. Set(Audio, PARAM) \in AllEdits /\ Fits(Set(Audio, PARAM))
  BY ParamMeans, EditTypes DEF ValuesOf
<1>2. Does(<<Set(Audio, PARAM), Off(AV)>>, {Set(Audio, PARAM), Off(AV)}, 2)
  BY <1>1, OffType, DoesTwo DEF Off
<1>3. Keeps({Set(Audio, PARAM), Off(AV)})
  BY IdleApart DEF Keeps, Backed, Apart, EndsOn, Off
<1>4. Proper(<<Set(Audio, PARAM), Off(AV)>>)
  BY <1>1, <1>2, <1>3, OffType, Proved
<1> QED
  BY <1>4 DEF Off
----------------------------------------------------------------------------
(* The invariant is inductive.                                              *)

LEMMA ZeroJobs == 0 \in 0 .. MaxJobs
BY MaxJobsOK

LEMMA InvInit == Init => Inv
<1> SUFFICES ASSUME Init PROVE Inv
  OBVIOUS
<1> USE Names, EmptyPlan DEF Init
<1>a. conf \in [Flags -> Settings] /\ \A f \in Flags : conf[f] \in ValuesOf(f)
  BY DEF Settings, Values, ValuesOf
<1>b. 0 \in 0 .. MaxJobs
  BY ZeroJobs
<1>1. Typed
  BY <1>a, <1>b DEF Typed
<1>2. \A f \in Flags : ~On(f)
  BY DEF On
<1>3. Kept
  BY <1>2 DEF Kept, Backed, Apart, EndsOn
<1>4. Boots
  BY DEF Boots, Booting
<1> QED
  BY <1>1, <1>3, <1>4 DEF Inv

\* The entry at work in the next state, by what it will do.
LEMMA KeptNext ==
  ASSUME NEW E, E = Range(todo'),
         "entry" \notin lost' => Apart(E)', Backed(E)',
         lost' = {} /\ jobs' = 0 /\ rc' /\ RemoveRc \notin E => EndsOn(E, Mjpg)'
  PROVE  Kept'
BY DEF Kept, Apart, Backed, EndsOn, On

\* An entry that is chosen starts from flags that are apart.
LEMMA ChooseKeeps ==
  ASSUME Inv, NEW m \in {"mjpg", "gst"}, NEW s, Choose(m, s),
         Idle => Proper(s)
  PROVE  Inv'
<1>1. Idle /\ Proper(s) /\ todo' = s /\ menu = m
      /\ PARAM' \in {PARAM, "autoload"}
      /\ UNCHANGED <<conf, rc, jobs, menu, lost, boot, runs>>
  BY DEF Choose, Idle, bootvars
<1>2. Typed'
  BY <1>1 DEF Inv, Typed, Proper
<1>3. \A E, f : EndsOn(E, f)' <=> EndsOn(E, f)
  BY <1>1 DEF EndsOn, On
<1>4. Kept'
  <2>0. PICK E : E = Range(todo')
    OBVIOUS
  <2>1. "entry" \notin lost' => Apart(E)'
    BY <1>1, <1>3, <2>0 DEF Proper, Keeps, Apart
  <2>2. Backed(E)'
    BY <1>1, <1>3, <2>0 DEF Proper, Keeps, Backed
  <2>3. lost' = {} /\ jobs' = 0 /\ rc' /\ RemoveRc \notin E => EndsOn(E, Mjpg)'
    BY <1>1, <1>3, <2>0, IdleApart DEF Proper, Keeps
  <2> QED
    BY <2>0, <2>1, <2>2, <2>3, KeptNext
<1>5. Boots'
  BY <1>1 DEF Inv, Boots, Booting, On, FlagOf
<1> QED
  BY <1>2, <1>4, <1>5 DEF Inv

\* After an edit the others will do what the list would have done.
LEMMA EditKeeps ==
  ASSUME Inv, todo # <<>>, todo' = Tail(todo), NEW E, E = Range(todo'),
         UNCHANGED <<menu, lost, boot, runs>>, PARAM' \in {PARAM, "autoload"},
         conf' \in [Flags -> Settings], \A f \in Flags : conf'[f] \in ValuesOf(f),
         rc' \in BOOLEAN, jobs' \in 0 .. MaxJobs,
         \A f \in Flags : EndsOn(E, f)' <=> EndsOn(Range(todo), f),
         rc' => rc \/ Defaults \in Range(todo),
         jobs' = 0 => jobs = 0 /\ Head(todo) # RemoveRc
  PROVE  Inv'
<1> USE Names
<1>1. Plan(todo') /\ Range(todo) = {Head(todo)} \cup E
  BY FirstEdit DEF Inv, Typed
<1>2. Typed'
  BY <1>1 DEF Inv, Typed
<1>3. Kept'
  <2>1. "entry" \notin lost' => Apart(E)'
    BY DEF Inv, Kept, Apart
  <2>2. Backed(E)'
    BY <1>1 DEF Inv, Kept, Backed
  <2>3. ASSUME lost' = {}, jobs' = 0, rc', RemoveRc \notin E
        PROVE  EndsOn(E, Mjpg)'
    <3>1. RemoveRc \notin Range(todo) /\ lost = {} /\ jobs = 0
      BY <1>1, <2>3
    <3>2. CASE rc
      BY <3>1, <3>2 DEF Inv, Kept
    <3>3. CASE Defaults \in Range(todo)
      BY <3>3 DEF Inv, Kept, Backed
    <3> QED
      BY <2>3, <3>2, <3>3
  <2> QED
    BY <2>1, <2>2, <2>3, KeptNext
<1>4. ~Booting
  BY DEF Inv, Boots
<1>5. \A b \in BootJobs : boot[b] = "done"
  BY <1>4 DEF Booting
<1>6. Boots'
  BY <1>4, <1>5 DEF Inv, Boots, Booting, BootJobs
<1> QED
  BY <1>2, <1>3, <1>6 DEF Inv

LEMMA EditStep == Inv /\ EditNext => Inv'
<1> SUFFICES ASSUME Inv, EditNext PROVE Inv'
  OBVIOUS
<1> USE Names, EditsDiffer
<1>E. PICK E : E = Range(todo')
  OBVIOUS
<1>0. /\ conf \in [Flags -> Settings] /\ \A f \in Flags : conf[f] \in ValuesOf(f)
      /\ rc \in BOOLEAN /\ jobs \in 0 .. MaxJobs /\ MaxJobs \in Nat
  BY MaxJobsOK DEF Inv, Typed
<1>1. ASSUME Goon, todo # <<>>
      PROVE  /\ todo' = Tail(todo) /\ UNCHANGED <<menu, lost, boot, runs>>
             /\ PARAM' \in {PARAM, "autoload"}
             /\ Head(todo) \in AllEdits /\ Fits(Head(todo))
             /\ Range(todo) = {Head(todo)} \cup E
             /\ \A e \in E, f \in Flags :
                    ~(Sets(Head(todo), f) /\ Sets(e, f))
  BY <1>1, <1>E, FirstEdit DEF Goon, bootvars, Inv, Typed
<1>2. CASE SetFlag
  <2>1. Goon /\ todo # <<>> /\ Head(todo).do = "set"
        /\ conf' = [conf EXCEPT ![Head(todo).flag] = Head(todo).to]
        /\ UNCHANGED <<rc, jobs>>
    BY <1>2 DEF SetFlag, Due
  <2>2. PICK f \in Flags, v \in Settings : Head(todo) = Set(f, v)
    BY <1>1, <2>1 DEF AllEdits
  <2>3. v \in ValuesOf(f)
    BY <1>1, <2>1, <2>2 DEF Fits
  <2>4. conf' = [conf EXCEPT ![f] = v]
    <3>1. Head(todo).flag = f /\ Head(todo).to = v
      BY <2>2
    <3> QED
      BY <2>1, <3>1
  <2>5. /\ conf' \in [Flags -> Settings]
        /\ \A g \in Flags : conf'[g] \in ValuesOf(g)
    BY <1>0, <2>3, <2>4
  <2>6. ASSUME NEW g \in Flags
        PROVE  EndsOn(E, g)' <=> EndsOn(Range(todo), g)
    <3>1. Range(todo) = {Set(f, v)} \cup E
      BY <1>1, <2>1, <2>2
    <3>2. \A e \in E : ~Sets(e, f)
      BY <1>1, <2>1, <2>2
    <3>3. CASE g = f
      <4>1. On(f)' <=> v = "autoload"
        BY <1>0, <2>4 DEF On
      <4>2. EndsOn(E, f)' <=> On(f)'
        BY <3>2 DEF EndsOn
      <4>3. EndsOn(Range(todo), f) <=> Set(f, "autoload") \in Range(todo)
        <5>1. Set(f, v) \in Range(todo) /\ Sets(Set(f, v), f)
          BY <3>1
        <5> QED
          BY <5>1 DEF EndsOn
      <4>4. Set(f, "autoload") \notin E
        BY <3>2
      <4>5. Set(f, "autoload") \in Range(todo) <=> v = "autoload"
        BY <3>1, <4>4
      <4> QED
        BY <3>3, <4>1, <4>2, <4>3, <4>5
    <3>4. CASE g # f
      <4>1. On(g)' <=> On(g)
        BY <1>0, <2>4, <3>4 DEF On
      <4>2. /\ (\E e \in Range(todo) : Sets(e, g)) <=>
                   \E e \in E : Sets(e, g)
            /\ Set(g, "autoload") \in Range(todo) <=>
                   Set(g, "autoload") \in E
        BY <3>1, <3>4
      <4> QED
        BY <4>1, <4>2 DEF EndsOn
    <3> QED
      BY <3>3, <3>4
  <2>7. Head(todo) # RemoveRc
    BY <2>2
  <2> QED
    BY <1>0, <1>1, <2>1, <2>5, <2>6, <2>7, <1>E, EditKeeps
<1>3. CASE RcDefaults \/ RcRemove
  <2>1. /\ Goon /\ todo # <<>> /\ UNCHANGED conf
        /\ Head(todo).do \in {"defaults", "remove"}
        /\ Head(todo).do = "defaults" => rc' = TRUE /\ jobs' = jobs
        /\ Head(todo).do = "remove" => rc' = rc /\ jobs' = jobs + 1 /\ jobs < MaxJobs
    BY <1>3 DEF RcDefaults, RcRemove, Due
  <2>2. Head(todo) \in {RemoveRc, Defaults}
    BY <1>1, <2>1 DEF AllEdits
  <2>3. rc' \in BOOLEAN /\ jobs' \in 0 .. MaxJobs
    <3>1. CASE Head(todo).do = "defaults"
      BY <1>0, <2>1, <3>1
    <3>2. CASE Head(todo).do = "remove"
      BY <1>0, <2>1, <3>2
    <3> QED
      BY <2>1, <3>1, <3>2
  <2>4. ASSUME NEW g \in Flags
        PROVE  EndsOn(E, g)' <=> EndsOn(Range(todo), g)
    <3>1. /\ (\E e \in Range(todo) : Sets(e, g)) <=>
                   \E e \in E : Sets(e, g)
          /\ Set(g, "autoload") \in Range(todo) <=>
                   Set(g, "autoload") \in E
      BY <1>1, <2>1, <2>2
    <3> QED
      BY <2>1, <3>1 DEF EndsOn, On
  <2>5. rc' => rc \/ Defaults \in Range(todo)
    BY <1>1, <2>1, <2>2
  <2>6. jobs' = 0 => jobs = 0 /\ Head(todo) # RemoveRc
    BY <1>0, <2>1, <2>2
  <2> QED
    BY <1>0, <1>1, <2>1, <2>3, <2>4, <2>5, <2>6, <1>E, EditKeeps
<1>4. CASE JobEnds
  <2>1. /\ jobs > 0 /\ jobs' = jobs - 1 /\ rc' = FALSE
        /\ UNCHANGED <<conf, menu, PARAM, todo, lost, boot, runs>>
    BY <1>4 DEF JobEnds, menuvars, bootvars
  <2>a. jobs' \in 0 .. MaxJobs
    BY <1>0, <2>1
  <2>2. Typed'
    BY <2>1, <2>a DEF Inv, Typed
  <2>3. \A F, f : EndsOn(F, f)' <=> EndsOn(F, f)
    BY <2>1 DEF EndsOn, On
  <2>4. Kept'
    BY <2>1, <2>3 DEF Inv, Kept, Apart, Backed
  <2>5. Boots'
    BY <1>0, <2>1 DEF Inv, Boots, Booting, On, FlagOf
  <2> QED
    BY <2>2, <2>4, <2>5 DEF Inv
<1> QED
  BY <1>2, <1>3, <1>4 DEF EditNext

LEMMA MenuStep == Inv /\ MenuNext => Inv'
<1> SUFFICES ASSUME Inv, MenuNext PROVE Inv'
  OBVIOUS
<1> USE Names
<1>1. CASE swichMJPGStreamerAutoload
  BY <1>1, ChooseKeeps, MjpgEntry DEF swichMJPGStreamerAutoload
<1>2. CASE swichRecMJPGStreamerFFMPEG
  BY <1>2, ChooseKeeps, RecordingEntry DEF swichRecMJPGStreamerFFMPEG
<1>3. CASE swichRecSnapshotAutoload
  BY <1>3, ChooseKeeps, RecordingEntry DEF swichRecSnapshotAutoload
<1>4. CASE swichStartFfmpegFromSnapshots
  <2>1. PICK v \in {"yes", "no"} : Choose("mjpg", <<Set(Hourly, v)>>)
    BY <1>4 DEF swichStartFfmpegFromSnapshots
  <2> QED
    BY <2>1, ChooseKeeps, HourlyEntry
<1>5. CASE swichGstreamerRecAVAutoload
  <2>1. CASE Matches(AV)
    BY <1>5, <2>1, ChooseKeeps, OffEntry DEF swichGstreamerRecAVAutoload
  <2>2. CASE ~Matches(AV)
    <3>1. PICK s :
              /\ Choose("gst", s)
              /\ \/ s = Disable(Snap) \o Disable(Rec) \o Disable(Mjpg)
                        \o <<Set(AV, PARAM), Set(Audio, "noautoload")>>
                 \/ s \in {<<>>, Disable(Snap), Disable(Snap) \o Disable(Rec)}
      BY <1>5, <2>2 DEF swichGstreamerRecAVAutoload
    <3>2. Idle => Proper(s)
      BY <2>2, <3>1, AvEntry, RefusedEntry
    <3> QED
      BY <3>1, <3>2, ChooseKeeps
  <2> QED
    BY <2>1, <2>2
<1>6. CASE swichGstreamerRecAAutoload
  <2>1. CASE Matches(Audio)
    BY <1>6, <2>1, ChooseKeeps, OffEntry DEF swichGstreamerRecAAutoload
  <2>2. CASE ~Matches(Audio)
    BY <1>6, <2>2, ChooseKeeps, AudioEntry DEF swichGstreamerRecAAutoload
  <2> QED
    BY <2>1, <2>2
<1>7. ASSUME UNCHANGED <<conf, rc, jobs, todo, lost, boot, runs>>,
             menu' \in {"none", "mjpg", "gst"},
             PARAM' \in {"", "autoload"} \cup Leftovers,
             Booting => menu' = menu
      PROVE  Inv'
  <2>1. Typed'
    BY <1>7 DEF Inv, Typed
  <2>2. Kept'
    BY <1>7 DEF Inv, Kept, Apart, Backed, EndsOn, On
  <2>3. Boots'
    BY <1>7 DEF Inv, Boots, Booting, On, FlagOf
  <2> QED
    BY <2>1, <2>2, <2>3 DEF Inv
<1>8. ASSUME NEW m \in {"mjpg", "gst"}, Enter(m)
      PROVE  Inv'
  BY <1>7, <1>8 DEF Enter, bootvars, Inv, Typed
<1>9. CASE Quit
  BY <1>7, <1>9 DEF Quit, bootvars, Inv, Typed, Boots
<1>10. CASE SetParam
  BY <1>7, <1>10 DEF SetParam, bootvars, Inv, Typed
<1>11. CASE Hangup
  <2>1. /\ todo # <<>> /\ lost' = lost \cup {"entry"} /\ menu' = "none"
        /\ PARAM' = "" /\ todo' = <<>>
        /\ UNCHANGED <<conf, rc, jobs, boot, runs>>
    BY <1>11 DEF Hangup, bootvars
  <2>2. Typed'
    BY <2>1, EmptyPlan DEF Inv, Typed
  <2>3. Kept'
    BY <2>1, EmptyPlan DEF Inv, Kept, Backed
  <2>4. Boots'
    BY <2>1 DEF Inv, Boots, Booting
  <2> QED
    BY <2>2, <2>3, <2>4 DEF Inv
<1> QED
  BY <1>1, <1>2, <1>3, <1>4, <1>5, <1>6, <1>8, <1>9, <1>10, <1>11 DEF MenuNext
\* At boot.  The flags stay as they are, so only boot and runs matter.
LEMMA RebootStep == Inv /\ Reboot => Inv'
<1> SUFFICES ASSUME Inv, Reboot PROVE Inv'
  OBVIOUS
<1>1. /\ menu' = "none" /\ PARAM' = "" /\ todo' = <<>> /\ jobs' = 0
      /\ runs' = IF rc THEN {"mjpg"} ELSE {}
      /\ boot' = [b \in BootJobs |-> "read"]
      /\ UNCHANGED <<conf, rc>>
      /\ lost' = lost \cup (IF todo # <<>> THEN {"entry"} ELSE {})
                      \cup (IF jobs > 0 THEN {"removal"} ELSE {})
  BY DEF Reboot
<1>2. lost \subseteq lost' /\ lost' \subseteq {"entry", "removal"}
  BY <1>1 DEF Inv, Typed
<1>3. Typed'
  BY <1>1, <1>2, EmptyPlan, ZeroJobs DEF Inv, Typed
<1>4. todo # <<>> => "entry" \in lost'
  BY <1>1
<1>5. jobs > 0 => "removal" \in lost'
  BY <1>1
<1>6. Kept'
  <2>1. PICK E : E = {} /\ E = Range(todo')
    BY <1>1, EmptyPlan
  <2>2. \A f : EndsOn(E, f)' <=> On(f)
    BY <1>1, <2>1 DEF EndsOn, On
  <2>3. Backed(E)'
    BY <2>1 DEF Backed
  <2>4. todo = <<>> => /\ "entry" \notin lost => Apart(E)'
                       /\ lost = {} /\ jobs = 0 /\ rc => On(Mjpg)
    BY <2>2, IdleApart DEF Idle, Apart
  <2>5. "entry" \notin lost' => Apart(E)'
    BY <1>2, <1>4, <2>4
  <2>6. lost' = {} /\ rc' => On(Mjpg)
    <3>1. jobs \in 0 .. MaxJobs
      BY DEF Inv, Typed
    <3>2. jobs = 0 \/ jobs > 0
      BY <3>1
    <3> QED
      BY <1>1, <1>2, <1>4, <1>5, <2>4, <3>2
  <2> QED
    BY <2>1, <2>2, <2>3, <2>5, <2>6, KeptNext
<1>7. Boots'
  <2>1. "av" \in BootJobs /\ \A b \in BootJobs : boot'[b] = "read"
    BY <1>1 DEF BootJobs
  <2>2. "av" \notin runs'
    BY <1>1
  <2> QED
    BY <1>1, <2>1, <2>2 DEF Boots
<1> QED
  BY <1>3, <1>6, <1>7 DEF Inv

\* A job takes a step: what the other jobs have read is still so.
LEMMA BootKeeps ==
  ASSUME Inv, UNCHANGED <<conf, rc, jobs, menu, PARAM, todo, lost>>,
         NEW b \in BootJobs, boot[b] # "done",
         NEW to \in {"read", "check", "mjpg", "stop", "start", "done"},
         boot' = [boot EXCEPT ![b] = to],
         runs' \subseteq {"mjpg", "snapshots", "recvideo", "av", "audio"},
         "entry" \notin lost =>
             /\ to \in {"read", "done"} \/ boot[b] # "read" \/ On(FlagOf(b))
             /\ b = "av" /\ to = "start" => "mjpg" \notin runs'
             /\ boot'["av"] = "start" => "mjpg" \notin runs' \/ "mjpg" \in runs
             /\ "av" \in runs' => "mjpg" \notin runs'
             /\ "av" \in runs' => "av" \in runs \/ On(AV)
  PROVE  Inv'
<1>1. boot \in [BootJobs -> {"read", "check", "mjpg", "stop", "start", "done"}]
  BY DEF Inv, Typed
<1>2. Typed'
  BY <1>1 DEF Inv, Typed
<1>3. Kept'
  BY DEF Inv, Kept, Apart, Backed, EndsOn, On
<1>4. Booting
  BY DEF Booting
<1>5. \A c \in BootJobs : boot'[c] = IF c = b THEN to ELSE boot[c]
  BY <1>1
<1>6. "av" \in BootJobs
  BY DEF BootJobs
<1>7. todo' = <<>> /\ menu' = "none" /\ jobs' = 0
  BY <1>4 DEF Inv, Boots
<1>8. ASSUME "entry" \notin lost'
      PROVE  /\ \A c \in BootJobs : boot'[c] \notin {"read", "done"} => On(FlagOf(c))'
             /\ boot'["av"] = "start" => "mjpg" \notin runs'
             /\ "av" \in runs' => "mjpg" \notin runs'
             /\ "av" \in runs' => On(AV)'
  <2>1. \A f : On(f)' <=> On(f)
    BY DEF On
  <2>2. \A c \in BootJobs : boot'[c] \notin {"read", "done"} => On(FlagOf(c))
    BY <1>5, <1>8 DEF Inv, Boots
  <2>3. boot'["av"] = "start" => "mjpg" \notin runs'
    BY <1>5, <1>6, <1>8 DEF Inv, Boots
  <2>4. "av" \in runs' => On(AV)
    BY <1>4, <1>8 DEF Inv, Boots
  <2> QED
    BY <1>8, <2>1, <2>2, <2>3, <2>4 DEF FlagOf, On
<1>9. Boots'
  BY <1>7, <1>8 DEF Boots
<1> QED
  BY <1>2, <1>3, <1>9 DEF Inv

LEMMA BootStepKeeps == Inv /\ BootNext => Inv'
<1> SUFFICES ASSUME Inv, BootNext PROVE Inv'
  OBVIOUS
<1> USE DEF BootStep, menuvars
<1>0. /\ {"av", "snapshots", "recvideo", "audio"} = BootJobs
      /\ runs \subseteq {"mjpg", "snapshots", "recvideo", "av", "audio"}
      /\ FlagOf("av") = AV /\ FlagOf("snapshots") = Snap
  BY DEF BootJobs, Inv, Typed, FlagOf
<1>1. "entry" \notin lost =>
          /\ \A b \in BootJobs : boot[b] \notin {"read", "done"} => On(FlagOf(b))
          /\ boot["av"] = "start" => "mjpg" \notin runs
          /\ "av" \in runs => "mjpg" \notin runs
          /\ "av" \in runs /\ Booting => On(AV)
  BY DEF Inv, Boots
<1>2. ASSUME NEW b \in BootJobs, ReadFlag(b)
      PROVE  Inv'
  <2>1. PICK to \in {"check", "done"} :
            /\ boot[b] = "read" /\ boot' = [boot EXCEPT ![b] = to]
            /\ to = "check" => On(FlagOf(b))
            /\ UNCHANGED <<conf, rc, jobs, menu, PARAM, todo, lost, runs>>
    BY <1>2 DEF ReadFlag
  <2> QED
    BY <1>0, <1>1, <2>1, BootKeeps
<1>3. CASE SnapCheck
  <2>1. PICK to \in {"start", "mjpg"} :
            /\ boot["snapshots"] = "check"
            /\ boot' = [boot EXCEPT !["snapshots"] = to]
            /\ UNCHANGED <<conf, rc, jobs, menu, PARAM, todo, lost, runs>>
    BY <1>3 DEF SnapCheck
  <2> QED
    BY <1>0, <1>1, <2>1, BootKeeps
<1>4. CASE SnapMjpg
  <2>1. /\ boot["snapshots"] = "mjpg"
        /\ boot' = [boot EXCEPT !["snapshots"] = "start"]
        /\ UNCHANGED <<conf, rc, jobs, menu, PARAM, todo, lost>>
        /\ runs' = runs \cup {"mjpg"}
    BY <1>4 DEF SnapMjpg
  <2>2. "entry" \notin lost => ~On(AV)
    <3>1. Idle
      BY <1>0, <2>1 DEF Idle, Inv, Boots, Booting
    <3> QED
      BY <1>0, <1>1, <2>1, <3>1, IdleApart
  <2>3. "entry" \notin lost => boot["av"] # "start" /\ "av" \notin runs
    BY <1>0, <1>1, <2>1, <2>2 DEF Booting
  <2>4. Inv /\ boot'["av"] = boot["av"]
    BY <1>0, <2>1 DEF Inv, Typed
  <2> QED
    BY <1>0, <2>1, <2>3, <2>4, BootKeeps
<1>5. CASE SnapStart \/ RecStart \/ AudioStart
  <2>1. PICK b \in BootJobs \ {"av"} :
            /\ boot[b] \in {"start", "check"} /\ boot' = [boot EXCEPT ![b] = "done"]
            /\ UNCHANGED <<conf, rc, jobs, menu, PARAM, todo, lost>>
            /\ runs' \in {runs \cup {"snapshots"}, runs \cup {"recvideo"},
                          runs \cup {"audio"}}
    BY <1>0, <1>5 DEF SnapStart, RecStart, AudioStart
  <2> QED
    BY <1>0, <1>1, <2>1, BootKeeps
<1>6. CASE AvCheck
  <2>1. /\ boot["av"] = "check" /\ boot' = [boot EXCEPT !["av"] = "mjpg"]
        /\ UNCHANGED <<conf, rc, jobs, menu, PARAM, todo, lost>>
        /\ runs' = runs \ {"av", "audio"}
    BY <1>6 DEF AvCheck
  <2> QED
    BY <1>0, <1>1, <2>1, BootKeeps
<1>7. CASE AvCheckMjpg
  <2>1. PICK to \in {"stop", "start"} :
            /\ boot["av"] = "mjpg" /\ boot' = [boot EXCEPT !["av"] = to]
            /\ to = "start" => "mjpg" \notin runs
            /\ UNCHANGED <<conf, rc, jobs, menu, PARAM, todo, lost, runs>>
    BY <1>7 DEF AvCheckMjpg
  <2> QED
    BY <1>0, <1>1, <2>1, BootKeeps
<1>8. CASE AvStopMjpg
  <2>1. /\ boot["av"] = "stop" /\ boot' = [boot EXCEPT !["av"] = "start"]
        /\ UNCHANGED <<conf, rc, jobs, menu, PARAM, todo, lost>>
        /\ runs' = runs \ {"mjpg"}
    BY <1>8 DEF AvStopMjpg
  <2> QED
    BY <1>0, <1>1, <2>1, BootKeeps
<1>9. CASE AvStart
  <2>1. /\ boot["av"] = "start" /\ boot' = [boot EXCEPT !["av"] = "done"]
        /\ UNCHANGED <<conf, rc, jobs, menu, PARAM, todo, lost>>
        /\ runs' = runs \cup {"av"}
    BY <1>9 DEF AvStart
  <2>2. boot'["av"] = "done"
    BY <1>0, <2>1 DEF Inv, Typed
  <2> QED
    BY <1>0, <1>1, <2>1, <2>2, BootKeeps
<1>10. CASE AudioCheck
  <2>1. /\ boot["audio"] = "check" /\ boot' = [boot EXCEPT !["audio"] = "start"]
        /\ UNCHANGED <<conf, rc, jobs, menu, PARAM, todo, lost>>
        /\ runs' = runs \ {"av", "audio"}
    BY <1>10 DEF AudioCheck
  <2> QED
    BY <1>0, <1>1, <2>1, BootKeeps
<1> QED
  BY <1>2, <1>3, <1>4, <1>5, <1>6, <1>7, <1>8, <1>9, <1>10 DEF BootNext

\* What the entry at work will leave is decided when it is chosen, and stays so.
THEOREM InvAlways == Spec => []Inv
<1>1. Inv /\ UNCHANGED vars => Inv'
  <2> SUFFICES ASSUME Inv, UNCHANGED vars PROVE Inv'
    OBVIOUS
  <2> USE DEF vars, menuvars, bootvars
  <2>1. Typed'
    BY DEF Inv, Typed
  <2>2. Kept'
    BY DEF Inv, Kept, Apart, Backed, EndsOn, On
  <2>3. Boots'
    BY DEF Inv, Boots, Booting, On, FlagOf
  <2> QED
    BY <2>1, <2>2, <2>3 DEF Inv
<1>2. Inv /\ [Next]_vars => Inv'
  BY <1>1, EditStep, MenuStep, RebootStep, BootStepKeeps DEF Next
<1> QED
  BY <1>2, InvInit, PTL DEF Spec

\* Every variable keeps its type; no entry is longer than six edits, and no
\* edit gives a flag a value that is not one of its own.
THEOREM TypeCorrect == Spec => []TypeOK
<1>1. Inv => TypeOK
  <2> SUFFICES ASSUME Inv PROVE TypeOK
    OBVIOUS
  <2>1. \A e \in AllEdits : e \in Edits
    BY Names DEF AllEdits, Edits, Settings, Set
  <2>2. \A i \in 1 .. Len(todo) : todo[i] \in AllEdits
    BY ElementOfSeq DEF Inv, Typed, Plan
  <2>3. (\A f \in Flags \ {Hourly} : conf[f] \in Values) /\ conf[Hourly] \in {"yes", "no"}
    BY Names DEF Inv, Typed, ValuesOf
  <2> QED
    BY <2>1, <2>2, <2>3 DEF Inv, Typed, TypeOK, Plan
<1> QED
  BY <1>1, InvAlways, PTL

\* Between two entries no two recorders that exclude each other are set to
\* start, unless an entry was cut short.
THEOREM ModesExclusive == Spec => []Exclusive
<1>1. Inv => Exclusive
  BY IdleApart DEF Exclusive, Idle
<1> QED
  BY <1>1, InvAlways, PTL

\* The service is enabled only where its flag says so, once the background
\* removals are over and if nothing was cut short.
THEOREM ServiceFollowsFlag == Spec => []RcFollowsFlag
<1>1. Inv => RcFollowsFlag
  BY IdleApart DEF RcFollowsFlag, Idle
<1> QED
  BY <1>1, InvAlways, PTL

\* At boot the server and the recorder of video and sound never have the
\* camera together, unless an entry was cut short before.
THEOREM OneCameraUser == Spec => []CameraExclusive
<1>1. Inv => CameraExclusive
  BY DEF CameraExclusive, Inv, Boots
<1> QED
  BY <1>1, InvAlways, PTL
=============================================================================
