---------------------------- MODULE RaspiCamProofs ----------------------------
(* Proofs about RaspiCam and Mmal: no buffer header is in two places, the   *)
(* count of those in transit is right, when the pool is destroyed or the    *)
(* worker has returned nothing of the encoder's port is left, and every     *)
(* picture is whole, for any number of headers, of parts and of failures.   *)
EXTENDS RaspiCam, FiniteSetTheorems, SequenceTheorems, TLAPS

\* Lists of steps.  A step is good if it is none of K, its call is one that
\* TypeOK knows, and all the steps that may follow its reply are good; with
\* both = FALSE those that follow a failure are left aside.  Without an
\* action_lock it does not disable the output port either.
IsList(l) == \E S : l \in Seq(S)

Ports == {"control", "output"} \cup UNION {{Out(x), In(x)} : x \in Tunnels}
CallOK(what, x, K) ==
    /\ what = "port_disable" /\ x = "output" => "action_lock" \notin K
    /\ what = "component_create" => x \in {"camera", "preview", "encoder"}
    /\ what = "port_connect" => x \in Tunnels
    /\ what = "port_enable" => x \in Ports

Closed(S, K, both) ==
    \A x \in S : /\ x.do \notin K
                 /\ x.do = "call" => /\ CallOK(x.what, x.arg, K)
                                     /\ x.then \in Seq(S)
                                     /\ both => x.else \in Seq(S)
GoodStep(x, K, both) == \E S : Closed(S, K, both) /\ x \in S
Good(l, K, both) == IsList(l) /\ \A i \in DOMAIN l : GoodStep(l[i], K, both)

----------------------------------------------------------------------------
(* Lemmas about lists of steps.                                             *)

LEMMA ListFacts ==
  ASSUME NEW l, IsList(l)
  PROVE  /\ Len(l) \in Nat /\ DOMAIN l = 1 .. Len(l)
         /\ l # <<>> => /\ IsList(Tail(l)) /\ Len(Tail(l)) = Len(l) - 1
                        /\ Len(l) > 0 /\ Head(l) = l[1]
                        /\ \A i \in 1 .. Len(l) - 1 : Tail(l)[i] = l[i + 1]
<1>1. PICK S : l \in Seq(S)
  BY DEF IsList
<1>2. Len(l) \in Nat /\ DOMAIN l = 1 .. Len(l)
  BY <1>1, LenProperties
<1>3. ASSUME l # <<>>
      PROVE  /\ IsList(Tail(l)) /\ Len(Tail(l)) = Len(l) - 1
             /\ Len(l) > 0 /\ Head(l) = l[1]
             /\ \A i \in 1 .. Len(l) - 1 : Tail(l)[i] = l[i + 1]
  <2>1. /\ Tail(l) \in Seq(S) /\ Len(Tail(l)) = Len(l) - 1
        /\ \A i \in 1 .. Len(Tail(l)) : Tail(l)[i] = l[i + 1]
    BY <1>1, <1>3, HeadTailProperties
  <2>2. Len(l) > 0 /\ Head(l) = l[1]
    BY <1>1, <1>3
  <2> QED
    BY <2>1, <2>2 DEF IsList
<1> QED
  BY <1>2, <1>3

LEMMA ConcatList ==
  ASSUME NEW p, NEW q, IsList(p), IsList(q)
  PROVE  /\ IsList(p \o q) /\ Len(p \o q) = Len(p) + Len(q)
         /\ \A i \in 1 .. Len(p) + Len(q) :
                (p \o q)[i] = IF i <= Len(p) THEN p[i] ELSE q[i - Len(p)]
<1>1. PICK S, T : p \in Seq(S) /\ q \in Seq(T)
  BY DEF IsList
<1>2. p \in Seq(S \cup T) /\ q \in Seq(S \cup T)
  BY <1>1, SeqMonotonic
<1> QED
  BY <1>2, ConcatProperties DEF IsList

LEMMA GoodNil == \A K, both : Good(<<>>, K, both) /\ IsList(<<>>)
<1>1. <<>> \in Seq({}) /\ DOMAIN <<>> = {}
  OBVIOUS
<1> QED
  BY <1>1 DEF Good, IsList

LEMMA GoodConcat ==
  ASSUME NEW K, NEW both, NEW p, NEW q, Good(p, K, both), Good(q, K, both)
  PROVE  Good(p \o q, K, both)
<1>1. IsList(p) /\ IsList(q)
  BY DEF Good
<1>2. PICK m \in Nat, n \in Nat : m = Len(p) /\ n = Len(q) /\ DOMAIN p = 1 .. m /\ DOMAIN q = 1 .. n
  BY <1>1, ListFacts
<1>3. PICK r : r = p \o q
  OBVIOUS
<1>4. /\ IsList(r) /\ DOMAIN r = 1 .. m + n
      /\ \A i \in 1 .. m + n : r[i] = IF i <= m THEN p[i] ELSE q[i - m]
  <2>1. IsList(r) /\ Len(r) = m + n
    BY <1>1, <1>2, <1>3, ConcatList
  <2>2. DOMAIN r = 1 .. m + n
    BY <2>1, ListFacts
  <2> QED
    BY <1>1, <1>2, <1>3, <2>1, <2>2, ConcatList
<1>5. ASSUME NEW i \in 1 .. m + n PROVE GoodStep(r[i], K, both)
  <2>1. CASE i <= m
    BY <2>1, <1>2, <1>4 DEF Good
  <2>2. CASE i > m
    <3>1. i - m \in 1 .. n /\ r[i] = q[i - m]
      BY <2>2, <1>4
    <3> QED
      BY <3>1, <1>2 DEF Good
  <2> QED
    BY <2>1, <2>2
<1> QED
  BY <1>3, <1>4, <1>5 DEF Good

LEMMA GoodTail ==
  ASSUME NEW K, NEW both, NEW l, Good(l, K, both), l # <<>>
  PROVE  GoodStep(Head(l), K, both) /\ Good(Tail(l), K, both)
<1>1. IsList(l)
  BY DEF Good
<1>2. /\ Len(l) \in Nat /\ DOMAIN l = 1 .. Len(l) /\ IsList(Tail(l))
      /\ Len(Tail(l)) = Len(l) - 1 /\ Len(l) > 0 /\ Head(l) = l[1]
      /\ \A i \in 1 .. Len(l) - 1 : Tail(l)[i] = l[i + 1]
  BY <1>1, ListFacts
<1>3. DOMAIN Tail(l) = 1 .. Len(l) - 1
  BY <1>2, ListFacts
<1>4. \A i \in 1 .. Len(l) - 1 : GoodStep(Tail(l)[i], K, both)
  BY <1>2 DEF Good
<1> QED
  BY <1>2, <1>3, <1>4 DEF Good

LEMMA GoodTuples ==
  ASSUME NEW K, NEW both, NEW a, GoodStep(a, K, both)
  PROVE  /\ Good(<<a>>, K, both)
         /\ \A b : GoodStep(b, K, both) => Good(<<a, b>>, K, both)
         /\ \A b, c : GoodStep(b, K, both) /\ GoodStep(c, K, both)
                          => Good(<<a, b, c>>, K, both)
         /\ \A b, c, d : GoodStep(b, K, both) /\ GoodStep(c, K, both) /\ GoodStep(d, K, both)
                             => Good(<<a, b, c, d>>, K, both)
         /\ \A b, c, d, e :
                /\ GoodStep(b, K, both) /\ GoodStep(c, K, both)
                /\ GoodStep(d, K, both) /\ GoodStep(e, K, both)
                => Good(<<a, b, c, d, e>>, K, both)
<1>1. <<a>> \in Seq({a}) /\ DOMAIN <<a>> = 1 .. 1 /\ <<a>>[1] = a
  OBVIOUS
<1>2. \A b : <<a, b>> \in Seq({a, b}) /\ DOMAIN <<a, b>> = 1 .. 2 /\ <<a, b>>[1] = a /\ <<a, b>>[2] = b
  OBVIOUS
<1>3. \A b, c : /\ <<a, b, c>> \in Seq({a, b, c}) /\ DOMAIN <<a, b, c>> = 1 .. 3
                /\ <<a, b, c>>[1] = a /\ <<a, b, c>>[2] = b /\ <<a, b, c>>[3] = c
  OBVIOUS
<1>4. Good(<<a>>, K, both)
  <2>1. IsList(<<a>>)
    BY <1>1 DEF IsList
  <2>2. ASSUME NEW i \in 1 .. 1 PROVE GoodStep(<<a>>[i], K, both)
    BY <1>1
  <2> QED
    BY <1>1, <2>1, <2>2 DEF Good
<1>5. ASSUME NEW b, GoodStep(b, K, both) PROVE Good(<<a, b>>, K, both)
  <2>1. IsList(<<a, b>>)
    BY <1>2 DEF IsList
  <2>2. ASSUME NEW i \in 1 .. 2 PROVE GoodStep(<<a, b>>[i], K, both)
    BY <1>2, <1>5
  <2> QED
    BY <1>2, <2>1, <2>2 DEF Good
<1>6. ASSUME NEW b, NEW c, GoodStep(b, K, both), GoodStep(c, K, both)
      PROVE  Good(<<a, b, c>>, K, both)
  <2>1. IsList(<<a, b, c>>)
    BY <1>3 DEF IsList
  <2>2. ASSUME NEW i \in 1 .. 3 PROVE GoodStep(<<a, b, c>>[i], K, both)
    BY <1>3, <1>6
  <2> QED
    BY <1>3, <2>1, <2>2 DEF Good
<1>8. ASSUME NEW b, NEW c, NEW d, GoodStep(b, K, both), GoodStep(c, K, both),
             GoodStep(d, K, both)
      PROVE  Good(<<a, b, c, d>>, K, both)
  <2>1. PICK q : q = <<a, b, c, d>>
    OBVIOUS
  <2>2. /\ q \in Seq({a, b, c, d}) /\ DOMAIN q = 1 .. 4
        /\ q[1] = a /\ q[2] = b /\ q[3] = c /\ q[4] = d
    BY <2>1
  <2>3. ASSUME NEW i \in 1 .. 4 PROVE GoodStep(q[i], K, both)
    <3>1. i \in {1, 2, 3, 4}
      OBVIOUS
    <3> QED
      BY <3>1, <2>2, <1>8
  <2>4. IsList(q)
    BY <2>2 DEF IsList
  <2>5. Good(q, K, both)
    BY <2>2, <2>3, <2>4 DEF Good
  <2> QED
    BY <2>1, <2>5
<1>7. ASSUME NEW b, NEW c, NEW d, NEW e, GoodStep(b, K, both), GoodStep(c, K, both),
             GoodStep(d, K, both), GoodStep(e, K, both)
      PROVE  Good(<<a, b, c, d, e>>, K, both)
  <2>1. PICK q : q = <<a, b, c, d, e>>
    OBVIOUS
  <2>2. /\ q \in Seq({a, b, c, d, e}) /\ DOMAIN q = 1 .. 5
        /\ q[1] = a /\ q[2] = b /\ q[3] = c /\ q[4] = d /\ q[5] = e
    BY <2>1
  <2>3. ASSUME NEW i \in 1 .. 5 PROVE GoodStep(q[i], K, both)
    <3>1. i \in {1, 2, 3, 4, 5}
      OBVIOUS
    <3> QED
      BY <3>1, <2>2, <1>7
  <2>4. IsList(q)
    BY <2>2 DEF IsList
  <2>5. Good(q, K, both)
    BY <2>2, <2>3, <2>4 DEF Good
  <2> QED
    BY <2>1, <2>5
<1> QED
  BY <1>4, <1>5, <1>6, <1>7, <1>8

LEMMA GoodThen ==
  ASSUME NEW K, NEW both, NEW x, GoodStep(x, K, both), x.do = "call"
  PROVE  /\ CallOK(x.what, x.arg, K) /\ Good(x.then, K, both)
         /\ both => Good(x.else, K, both)
<1>1. PICK S : Closed(S, K, both) /\ x \in S
  BY DEF GoodStep
<1>2. ASSUME NEW l \in Seq(S) PROVE Good(l, K, both)
  <2>1. \A i \in DOMAIN l : l[i] \in S
    OBVIOUS
  <2> QED
    BY <1>1, <2>1 DEF Good, GoodStep, IsList
<1> QED
  BY <1>1, <1>2 DEF Closed

LEMMA GoodDo ==
  ASSUME NEW K, NEW both, NEW what, NEW x, what \notin K, what # "call"
  PROVE  GoodStep(Do(what, x), K, both) /\ Good(<<Do(what, x)>>, K, both)
<1>1. Closed({Do(what, x)}, K, both)
  BY DEF Closed, Do
<1>2. GoodStep(Do(what, x), K, both)
  BY <1>1 DEF GoodStep
<1> QED
  BY <1>2, GoodTuples

\* The steps of a good list are in one set.
LEMMA Gathered ==
  ASSUME NEW K, NEW both, NEW l, Good(l, K, both)
  PROVE  \E S : Closed(S, K, both) /\ l \in Seq(S)
<1> DEFINE Home(i) == CHOOSE S : Closed(S, K, both) /\ l[i] \in S
           U == UNION {Home(i) : i \in DOMAIN l}
<1>1. ASSUME NEW i \in DOMAIN l PROVE Closed(Home(i), K, both) /\ l[i] \in Home(i)
  BY <1>1 DEF Good, GoodStep
<1> HIDE DEF In
<1>2. ASSUME NEW x \in U
      PROVE  /\ x.do \notin K
             /\ x.do = "call" => /\ CallOK(x.what, x.arg, K) /\ x.then \in Seq(U)
                                 /\ both => x.else \in Seq(U)
  <2>1. PICK i \in DOMAIN l : x \in Home(i)
    OBVIOUS
  <2>2. Home(i) \subseteq U
    OBVIOUS
  <2>3. \A m \in Seq(Home(i)) : m \in Seq(U)
    BY <2>2, SeqMonotonic
  <2> QED
    BY <1>1, <2>1, <2>3 DEF Closed
<1>3. Closed(U, K, both)
  BY <1>2 DEF Closed
<1>4. l \in Seq(U)
  <2>1. \A i \in DOMAIN l : l[i] \in U
    BY <1>1
  <2>2. PICK T : l \in Seq(T)
    BY DEF Good, IsList
  <2> HIDE DEF U
  <2>3. Len(l) \in Nat /\ DOMAIN l = 1 .. Len(l) /\ l \in [1 .. Len(l) -> T]
    BY <2>2, LenProperties
  <2>4. l \in [1 .. Len(l) -> U]
    BY <2>1, <2>3
  <2> QED
    BY <2>3, <2>4
<1> QED
  BY <1>3, <1>4

LEMMA GoodCall ==
  ASSUME NEW K, NEW both, NEW what, NEW x, NEW then, NEW else, "call" \notin K,
         CallOK(what, x, K), Good(then, K, both), both => Good(else, K, both)
  PROVE  /\ GoodStep(Call(what, x, then, else), K, both)
         /\ Good(<<Call(what, x, then, else)>>, K, both)
<1>1. PICK S : Closed(S, K, both) /\ then \in Seq(S)
  BY Gathered
<1>2. PICK T : Closed(T, K, both) /\ (both => else \in Seq(T))
  <2>1. Closed({}, K, both)
    BY DEF Closed
  <2> QED
    BY <2>1, Gathered
<1> DEFINE c == Call(what, x, then, else)
           U == S \cup T \cup {c}
<1>3. \A l : l \in Seq(S) \/ l \in Seq(T) => l \in Seq(U)
  <2>1. S \subseteq U /\ T \subseteq U
    OBVIOUS
  <2> QED
    BY <2>1, SeqMonotonic
<1>4. c.do = "call" /\ c.what = what /\ c.arg = x /\ c.then = then /\ c.else = else
  BY DEF Call
<1>5. Closed(U, K, both)
  <2>1. ASSUME NEW y \in U
        PROVE  /\ y.do \notin K
               /\ y.do = "call" => /\ CallOK(y.what, y.arg, K) /\ y.then \in Seq(U)
                                   /\ both => y.else \in Seq(U)
    <3>1. CASE y = c
      <4>1. then \in Seq(U) /\ (both => else \in Seq(U))
        BY <1>1, <1>2, <1>3
      <4> QED
        BY <3>1, <1>4, <4>1
    <3>2. CASE y \in S
      BY <3>2, <1>1, <1>3 DEF Closed
    <3>3. CASE y \in T
      BY <3>3, <1>2, <1>3 DEF Closed
    <3> QED
      BY <3>1, <3>2, <3>3
  <2> QED
    BY <2>1 DEF Closed
<1>6. GoodStep(c, K, both)
  BY <1>5 DEF GoodStep
<1> QED
  BY <1>6, GoodTuples

----------------------------------------------------------------------------
(* The lists that the worker follows.                                       *)

\* The steps that some list must not have.
Special == {"pool_create", "pool_destroy", "is_enabled", "enabled_again",
            "while", "poll", "start", "end", "action_lock", "drain", "action_unlock",
            "disable_output", "cleanup"}
Locking == {"action_lock", "drain", "action_unlock"}
Plain(what) == what \notin {"component_create", "port_connect", "port_enable", "port_disable"}

LEMMA PlainCalls ==
  ASSUME NEW K \in SUBSET Special, NEW both
  PROVE  /\ Good(<<Exit>>, K, both)
         /\ \A w, x : Plain(w) => /\ GoodStep(Try(w, x), K, both)
                                  /\ Good(<<Try(w, x)>>, K, both)
         /\ \A w, x : Plain(w) => GoodStep(Must(w, x), K, both)
         /\ \A w, x : CallOK(w, x, K) => /\ GoodStep(Must(w, x), K, both)
                                        /\ GoodStep(Try(w, x), K, both)
         /\ \A w, x, t, e : Plain(w) /\ Good(t, K, both) /\ (both => Good(e, K, both))
                                => /\ GoodStep(Call(w, x, t, e), K, both)
                                   /\ Good(<<Call(w, x, t, e)>>, K, both)
<1>1. "call" \notin K /\ "exit" \notin K
  BY DEF Special
<1>2. Good(<<Exit>>, K, both)
  BY <1>1, GoodDo DEF Exit
<1>3. \A w, x : Plain(w) => CallOK(w, x, K)
  BY DEF Plain, CallOK
<1>4. Good(<<>>, K, both)
  BY GoodNil
<1>5. ASSUME NEW w, NEW x, CallOK(w, x, K)
      PROVE  GoodStep(Must(w, x), K, both) /\ GoodStep(Try(w, x), K, both)
  BY <1>1, <1>2, <1>4, <1>5, GoodCall DEF Must, Try
<1>6. ASSUME NEW w, NEW x, NEW t, NEW e, Plain(w), Good(t, K, both),
             both => Good(e, K, both)
      PROVE  /\ GoodStep(Call(w, x, t, e), K, both)
             /\ Good(<<Call(w, x, t, e)>>, K, both)
  BY <1>1, <1>3, <1>6, GoodCall
<1>7. ASSUME NEW w, NEW x, Plain(w)
      PROVE  GoodStep(Try(w, x), K, both) /\ Good(<<Try(w, x)>>, K, both)
  <2>1. GoodStep(Try(w, x), K, both)
    BY <1>3, <1>5, <1>7
  <2> QED
    BY <2>1, GoodTuples
<1>8. ASSUME NEW w, NEW x, Plain(w) PROVE GoodStep(Must(w, x), K, both)
  BY <1>3, <1>5, <1>8
<1> QED
  BY <1>2, <1>5, <1>6, <1>7, <1>8

LEMMA PlainWords ==
  /\ Plain("port_info_set") /\ Plain("port_info_get") /\ Plain("requirements_set")
  /\ Plain("port_disconnect") /\ Plain("config")
  /\ Plain("parameters") /\ Plain("displayregion") /\ Plain("component_enable")
  /\ Plain("component_disable") /\ Plain("component_destroy") /\ Plain("quality")
  /\ Plain("version") /\ Plain("capture")
BY DEF Plain

LEMMA GoodFormat ==
  ASSUME NEW K \in SUBSET Special, NEW both, NEW p, NEW t, NEW e,
         Good(t, K, both), Good(e, K, both)
  PROVE  Good(Format(p, t, e), K, both)
<1>1. Good(<<Call("port_info_get", p, t, e)>>, K, both)
  BY PlainCalls, PlainWords
<1> QED
  BY <1>1, PlainCalls, PlainWords DEF Format

LEMMA GoodCreate ==
  ASSUME NEW K \in SUBSET Special, NEW both, NEW c \in {"camera", "preview", "encoder"}
  PROVE  Good(Create(c), K, both)
<1>1. CallOK("component_create", c, K)
  BY DEF CallOK
<1>2. GoodStep(Must("component_create", c), K, both)
  BY <1>1, PlainCalls
<1>3. GoodStep(Must("port_info_get", c), K, both)
  BY PlainCalls, PlainWords
<1> QED
  BY <1>2, <1>3, GoodTuples DEF Create

LEMMA GoodOpenCamera ==
  ASSUME NEW K \in SUBSET Special, NEW both
  PROVE  Good(OpenCamera, K, both)
<1>1. Good(Create("camera"), K, both) /\ Good(Create("preview"), K, both)
  BY GoodCreate
<1>2. Good(<<Must("port_enable", "control"), Try("config", "camera"),
             Try("parameters", "camera")>>, K, both)
  <2>1. CallOK("port_enable", "control", K)
    BY DEF CallOK, Ports
  <2>2. GoodStep(Must("port_enable", "control"), K, both)
    BY <2>1, PlainCalls
  <2>3. GoodStep(Try("config", "camera"), K, both) /\ GoodStep(Try("parameters", "camera"), K, both)
    BY PlainCalls, PlainWords
  <2> QED
    BY <2>2, <2>3, GoodTuples
<1>3. Good(<<>>, K, both) /\ Good(<<Exit>>, K, both)
  BY GoodNil, PlainCalls
<1>4. /\ Good(Format("camera_preview", <<>>, <<>>), K, both)
      /\ Good(Format("camera_video", <<>>, <<>>), K, both)
      /\ Good(Format("camera_still", <<>>, <<Exit>>), K, both)
  BY <1>3, GoodFormat
<1>5. Good(<<Call("displayregion", "preview_input", <<>>, <<Do("unless_ENOSYS", "")>>)>>, K, both)
  <2>1. Good(<<Do("unless_ENOSYS", "")>>, K, both)
    BY GoodDo DEF Special
  <2> QED
    BY <2>1, <1>3, PlainCalls, PlainWords
<1>6. Good(<<Must("component_enable", "camera"), Must("component_enable", "preview")>>, K, both)
  <2>1. \A c : GoodStep(Must("component_enable", c), K, both)
    BY PlainCalls, PlainWords
  <2> QED
    BY <2>1, GoodTuples
<1>7. Good(IF stills THEN <<>> ELSE Format("camera_video", <<>>, <<>>), K, both)
  BY <1>3, <1>4
<1>8. \A p, q : Good(p, K, both) /\ Good(q, K, both) => Good(p \o q, K, both)
  BY GoodConcat
<1>9. Good((Create("camera")
              \o <<Must("port_enable", "control"), Try("config", "camera"),
                   Try("parameters", "camera")>>) \o Format("camera_preview", <<>>, <<>>), K, both)
  BY <1>1, <1>2, <1>4, <1>8
<1>10. Good(((Create("camera")
              \o <<Must("port_enable", "control"), Try("config", "camera"),
                   Try("parameters", "camera")>>) \o Format("camera_preview", <<>>, <<>>))
            \o Create("preview")
            \o <<Call("displayregion", "preview_input", <<>>, <<Do("unless_ENOSYS", "")>>)>>, K, both)
  BY <1>1, <1>5, <1>8, <1>9
<1> QED
  BY <1>4, <1>6, <1>7, <1>8, <1>10 DEF OpenCamera

LEMMA Pair ==
  ASSUME NEW a, NEW b
  PROVE  <<a>> \o <<b>> = <<a, b>>
<1>1. PICK q, r, s : q = <<a>> /\ r = <<b>> /\ s = <<a, b>>
  OBVIOUS
<1>2. /\ q \in Seq({a, b}) /\ r \in Seq({a, b}) /\ s \in Seq({a, b})
      /\ Len(q) = 1 /\ Len(r) = 1 /\ Len(s) = 2 /\ q[1] = a /\ r[1] = b /\ s[1] = a /\ s[2] = b
  BY <1>1
<1>3. /\ q \o r \in Seq({a, b}) /\ Len(q \o r) = Len(q) + Len(r)
      /\ \A i \in 1 .. Len(q) + Len(r) :
             (q \o r)[i] = IF i <= Len(q) THEN q[i] ELSE r[i - Len(q)]
  BY <1>2, ConcatProperties
<1>4. (q \o r)[1] = a /\ (q \o r)[2] = b /\ Len(q \o r) = 2
  BY <1>2, <1>3
<1>5. \A i \in 1 .. 2 : (q \o r)[i] = s[i]
  <2>1. \A i \in 1 .. 2 : i \in {1, 2}
    OBVIOUS
  <2> QED
    BY <1>2, <1>4, <2>1
<1> QED
  BY <1>1, <1>2, <1>3, <1>4, <1>5, SeqEqual

LEMMA Joined ==
  ASSUME NEW a, NEW b, NEW c
  PROVE  <<a, b>> \o <<c>> = <<a, b, c>>
<1>1. PICK q, r, s : q = <<a, b>> /\ r = <<c>> /\ s = <<a, b, c>>
  OBVIOUS
<1>2. /\ q \in Seq({a, b, c}) /\ r \in Seq({a, b, c}) /\ s \in Seq({a, b, c})
      /\ Len(q) = 2 /\ Len(r) = 1 /\ Len(s) = 3 /\ q[1] = a /\ q[2] = b /\ r[1] = c
      /\ s[1] = a /\ s[2] = b /\ s[3] = c
  BY <1>1
<1>3. /\ q \o r \in Seq({a, b, c}) /\ Len(q \o r) = Len(q) + Len(r)
      /\ \A i \in 1 .. Len(q) + Len(r) :
             (q \o r)[i] = IF i <= Len(q) THEN q[i] ELSE r[i - Len(q)]
  BY <1>2, ConcatProperties
<1>4. (q \o r)[1] = a /\ (q \o r)[2] = b /\ (q \o r)[3] = c /\ Len(q \o r) = 3
  BY <1>2, <1>3
<1>5. \A i \in 1 .. 3 : (q \o r)[i] = s[i]
  <2>1. \A i \in 1 .. 3 : i \in {1, 2, 3}
    OBVIOUS
  <2> QED
    BY <1>2, <1>4, <2>1
<1> QED
  BY <1>1, <1>2, <1>3, <1>4, <1>5, SeqEqual

\* What comes before the pool is created.
LEMMA GoodOpenEncoder ==
  ASSUME NEW K \in SUBSET Special, NEW both
  PROVE  \E p : /\ Good(p, K, both)
                /\ OpenEncoder = p \o <<Do("pool_create", "")>>
<1> DEFINE a == Must("quality", "output")
           b == Must("component_enable", "encoder")
           c == Do("pool_create", "")
           f == Create("encoder") \o Format("output", <<>>, <<Exit>>)
<1>1. Good(f, K, both)
  <2>1. Good(<<>>, K, both) /\ Good(<<Exit>>, K, both)
    BY GoodNil, PlainCalls
  <2>2. Good(Create("encoder"), K, both) /\ Good(Format("output", <<>>, <<Exit>>), K, both)
    BY <2>1, GoodCreate, GoodFormat
  <2> QED
    BY <2>2, GoodConcat
<1>2. Good(<<a, b>>, K, both)
  <2>1. GoodStep(a, K, both) /\ GoodStep(b, K, both)
    BY PlainCalls, PlainWords
  <2> HIDE DEF a, b
  <2> QED
    BY <2>1, GoodTuples
<1>3. f \o <<a, b, c>> = (f \o <<a, b>>) \o <<c>>
  <2>1. PICK S : f \in Seq(S)
    BY <1>1 DEF Good, IsList
  <2> HIDE DEF a, b, c, f
  <2>2. /\ f \in Seq(S \cup {a, b, c}) /\ <<a, b>> \in Seq(S \cup {a, b, c})
        /\ <<c>> \in Seq(S \cup {a, b, c})
    <3>1. <<a, b>> \in Seq({a, b, c}) /\ <<c>> \in Seq({a, b, c})
      OBVIOUS
    <3> QED
      BY <2>1, <3>1, SeqMonotonic
  <2>3. <<a, b>> \o <<c>> = <<a, b, c>>
    BY Joined
  <2>4. (f \o <<a, b>>) \o <<c>> = f \o (<<a, b>> \o <<c>>)
    BY <2>2, ConcatAssociative
  <2> QED
    BY <2>3, <2>4
<1>4. Good(f \o <<a, b>>, K, both)
  BY <1>1, <1>2, GoodConcat
<1> QED
  BY <1>3, <1>4 DEF OpenEncoder
LEMMA GoodDisableEnd ==
  ASSUME NEW K \in SUBSET Special, NEW both, NEW p, NEW r, NEW t, NEW e,
         p # "output", Good(t, K, both), Good(e, K, both)
  PROVE  Good(DisableEnd(p, r, t, e), K, both)
<1>1. Good(<<Try("port_info_get", r)>>, K, both)
  BY PlainCalls, PlainWords
<1>2. /\ Good(<<Try("port_info_get", r)>> \o t, K, both)
      /\ Good(<<Try("port_info_get", r)>> \o e, K, both)
  BY <1>1, GoodConcat
<1>3. CallOK("port_disable", p, K) /\ "call" \notin K
  BY DEF CallOK, Special
<1> QED
  BY <1>2, <1>3, GoodCall DEF DisableEnd

LEMMA EndNames == \A x : Out(x) # "output" /\ In(x) # "output"
BY DEF Out, In

LEMMA GoodEnableEnd ==
  ASSUME NEW K \in SUBSET Special, NEW both, NEW p \in Ports, NEW r, NEW t, NEW e,
         Good(t, K, both), Good(e, K, both)
  PROVE  Good(EnableEnd(p, r, t, e), K, both)
<1>1. Good(<<Try("port_info_get", r)>> \o t, K, both)
  <2>1. Good(<<Try("port_info_get", r)>>, K, both)
    BY PlainCalls, PlainWords
  <2> QED
    BY <2>1, GoodConcat
<1>2. CallOK("port_enable", p, K) /\ "call" \notin K
  BY DEF CallOK, Special
<1>3. Good(<<Call("port_enable", p, <<Try("port_info_get", r)>> \o t, e)>>, K, both)
  BY <1>1, <1>2, GoodCall
<1> QED
  BY <1>3, PlainCalls, PlainWords DEF EnableEnd

LEMMA GoodConnect ==
  ASSUME NEW K \in SUBSET Special, NEW both, NEW x \in Tunnels, NEW f, Good(f, K, both)
  PROVE  Good(Connect(x, f), K, both)
<1>1. Out(x) \in Ports /\ In(x) \in Ports
  BY DEF Ports
<1> DEFINE e == <<Do("disconnect", Out(x))>> \o f
           d == DisableEnd(In(x), Out(x), <<>>, <<>>)
<1>2. Good(<<>>, K, both)
  BY GoodNil
<1>3. Good(e, K, both)
  <2>1. Good(<<Do("disconnect", Out(x))>>, K, both)
    BY GoodDo DEF Special
  <2> QED
    BY <2>1, GoodConcat
<1>4. Good(d \o e, K, both)
  <2>1. Good(d, K, both)
    BY <1>2, EndNames, GoodDisableEnd
  <2> QED
    BY <1>3, <2>1, GoodConcat
<1>5. Good(EnableEnd(Out(x), In(x), <<>>, d \o e), K, both)
  BY <1>1, <1>2, <1>4, GoodEnableEnd
<1>6. Good(ConnectionEnable(x, e), K, both)
  BY <1>1, <1>3, <1>5, GoodEnableEnd DEF ConnectionEnable
<1>7. Good(ConnectionCreate(x, ConnectionEnable(x, e), f), K, both)
  <2>1. CallOK("port_connect", x, K) /\ "call" \notin K
    BY DEF CallOK, Special
  <2>2. Good(<<Call("port_connect", x, ConnectionEnable(x, e), f)>>, K, both)
    BY <1>6, <2>1, GoodCall
  <2> QED
    BY <2>2, GoodFormat DEF ConnectionCreate
<1> QED
  BY <1>7 DEF Connect

LEMMA GoodDisableTunnel ==
  ASSUME NEW K \in SUBSET Special, NEW both, NEW x, NEW t, Good(t, K, both)
  PROVE  Good(DisableTunnel(x, t), K, both)
<1>1. Good(<<>>, K, both)
  BY GoodNil
<1>2. Good(DisableEnd(In(x), Out(x), t, <<>>), K, both)
  BY <1>1, EndNames, GoodDisableEnd
<1>3. Good(IF In(x) \in enabled THEN DisableEnd(In(x), Out(x), t, <<>>) ELSE t, K, both)
  BY <1>2
<1>4. Good(DisableEnd(Out(x), In(x), IF In(x) \in enabled THEN DisableEnd(In(x), Out(x), t, <<>>)
                                     ELSE t, <<>>), K, both)
  BY <1>1, <1>3, EndNames, GoodDisableEnd
<1> QED
  BY <1>3, <1>4 DEF DisableTunnel

LEMMA GoodDestruction ==
  ASSUME NEW K \in SUBSET Special, NEW both, NEW x
  PROVE  /\ Good(ConnectionDestroy(x), K, both)
         /\ Good(Disconnect(x), K, both)
         /\ Good(DestroyInternal(x), K, both)
         /\ "cleanup" \notin K => Good(Destroy(x), K, both)
<1>1. Good(ConnectionDestroy(x), K, both)
  <2>1. Good(<<Do("disconnect", Out(x))>>, K, both)
    BY GoodDo DEF Special
  <2> QED
    BY <2>1, GoodDisableTunnel DEF ConnectionDestroy
<1>2. Good(Disconnect(x), K, both)
  <2>1. \A y : Good(<<Try("port_disconnect", y)>>, K, both)
    BY PlainCalls, PlainWords
  <2>2. \A y : Good(DisableTunnel(y, <<Try("port_disconnect", y)>>), K, both)
    BY <2>1, GoodDisableTunnel
  <2>3. Good(<<>>, K, both)
    BY GoodNil
  <2> QED
    BY <2>1, <2>2, <2>3 DEF Disconnect
<1>3. Good(DestroyInternal(x), K, both)
  <2>1. GoodStep(Do("action_deregister", x), K, both)
    BY GoodDo DEF Special
  <2>2. GoodStep(Try("component_destroy", x), K, both)
    BY PlainCalls, PlainWords
  <2> QED
    BY <2>1, <2>2, GoodTuples DEF DestroyInternal
<1>4. ASSUME "cleanup" \notin K PROVE Good(Destroy(x), K, both)
  <2>1. GoodStep(Do("cleanup", x), K, both) /\ GoodStep(Do("unless_referenced", x), K, both)
    BY <1>4, GoodDo DEF Special
  <2> QED
    BY <2>1, GoodTuples DEF Destroy
<1> QED
  BY <1>1, <1>2, <1>3, <1>4
\* A list that does the same step with each of some ports.
LEMMA GoodEach ==
  ASSUME NEW K \in SUBSET Special, NEW both, NEW what, what \notin Special, what # "call",
         NEW ends, IsList(ends)
  PROVE  Good([i \in DOMAIN ends |-> Do(what, ends[i])], K, both)
<1> DEFINE l == [i \in DOMAIN ends |-> Do(what, ends[i])]
<1>1. \A x : GoodStep(Do(what, x), K, both)
  BY GoodDo
<1>2. PICK n \in Nat : DOMAIN ends = 1 .. n
  BY ListFacts
<1>3. IsList(l)
  <2>1. l \in Seq({Do(what, ends[i]) : i \in DOMAIN ends})
    BY <1>2
  <2> QED
    BY <2>1 DEF IsList
<1>4. \A i \in DOMAIN l : l[i] = Do(what, ends[i])
  OBVIOUS
<1> QED
  BY <1>1, <1>3, <1>4 DEF Good

LEMMA GoodDisablePort ==
  ASSUME NEW K \in SUBSET Special, NEW both, both => "enabled_again" \notin K,
         K \cap Locking = {}
  PROVE  Good(DisablePort, K, both)
<1> DEFINE t == <<Do("no_pool", ""), Do("drain", ""), Do("action_unlock", ""),
                  Do("flush", ""), Do("transit_wait", "")>>
           t3 == <<Do("no_pool", ""), Do("drain", ""), Do("action_unlock", "")>>
           e == <<Do("no_pool", ""), Do("drain", ""), Do("action_unlock", ""),
                  Do("enabled_again", "")>>
<1>1. \A w, x : w \notin Special /\ w # "call" => GoodStep(Do(w, x), K, both)
  BY GoodDo
<1>2. /\ GoodStep(Do("no_pool", ""), K, both) /\ GoodStep(Do("drain", ""), K, both)
      /\ GoodStep(Do("action_unlock", ""), K, both) /\ GoodStep(Do("flush", ""), K, both)
      /\ GoodStep(Do("transit_wait", ""), K, both) /\ GoodStep(Do("not_enabled", ""), K, both)
      /\ GoodStep(Do("action_lock", ""), K, both)
  <2>1. "drain" \notin K /\ "action_unlock" \notin K /\ "action_lock" \notin K
    BY DEF Locking
  <2> QED
    BY <1>1, <2>1, GoodDo DEF Special
<1>3. Good(t, K, both)
  BY <1>2, GoodTuples
<1>4. ASSUME both PROVE Good(e, K, both)
  <2>1. GoodStep(Do("enabled_again", ""), K, both)
    BY <1>4, GoodDo
  <2>2. \A a, b, c, d : /\ GoodStep(a, K, both) /\ GoodStep(b, K, both)
                        /\ GoodStep(c, K, both) /\ GoodStep(d, K, both)
                        => Good(<<a, b, c, d>>, K, both)
    BY GoodTuples
  <2> QED
    BY <1>2, <2>1, <2>2
<1>5. GoodStep(Call("port_disable", "output", t, e), K, both)
  <2> HIDE DEF t, e
  <2>1. CallOK("port_disable", "output", K) /\ "call" \notin K
    BY DEF CallOK, Special, Locking
  <2> QED
    BY <1>3, <1>4, <2>1, GoodCall
<1> HIDE DEF t, e
<1>6. Good(<<Do("not_enabled", ""), Do("action_lock", ""),
             Call("port_disable", "output", t, e)>>, K, both)
  BY <1>2, <1>5, GoodTuples
<1> QED
  BY <1>6 DEF t, e, DisablePort

LEMMA GoodCleanup ==
  ASSUME NEW K \in SUBSET Special, NEW both, NEW c, "disable_output" \notin K
  PROVE  Good(Cleanup(c), K, both)
<1> DEFINE ends == IF c = "camera" THEN <<Out("preview"), Out("encoder")>> ELSE <<In(c)>>
<1>1. IsList(ends)
  <2>1. \A a, b : <<a, b>> \in Seq({a, b}) /\ <<a>> \in Seq({a})
    OBVIOUS
  <2> QED
    BY <2>1 DEF IsList
<1> HIDE DEF ends
<1>2. /\ Good([i \in DOMAIN ends |-> Do("disable", ends[i])], K, both)
      /\ Good([i \in DOMAIN ends |-> Do("disconnect", ends[i])], K, both)
  BY <1>1, GoodEach DEF Special
<1>3. Good(IF c = "encoder" THEN <<Do("disable_output", "")>> ELSE <<>>, K, both)
  <2>1. Good(<<Do("disable_output", "")>>, K, both)
    BY GoodDo DEF Special
  <2> QED
    BY <2>1, GoodNil
<1>4. Good(IF c = "camera" THEN <<Try("port_disable", "control")>> ELSE <<>>, K, both)
  <2>1. Good(<<Try("port_disable", "control")>>, K, both)
    <3>1. CallOK("port_disable", "control", K)
      BY DEF CallOK
    <3>2. GoodStep(Try("port_disable", "control"), K, both)
      BY <3>1, PlainCalls
    <3> QED
      BY <3>2, GoodTuples
  <2> QED
    BY <2>1, GoodNil
<1>5. Good([i \in DOMAIN ends |-> Do("disable", ends[i])]
           \o (IF c = "encoder" THEN <<Do("disable_output", "")>> ELSE <<>>), K, both)
  BY <1>2, <1>3, GoodConcat
<1>6. Good([i \in DOMAIN ends |-> Do("disable", ends[i])]
           \o (IF c = "encoder" THEN <<Do("disable_output", "")>> ELSE <<>>)
           \o (IF c = "camera" THEN <<Try("port_disable", "control")>> ELSE <<>>), K, both)
  BY <1>4, <1>5, GoodConcat
<1>7. Good([i \in DOMAIN ends |-> Do("disable", ends[i])]
           \o (IF c = "encoder" THEN <<Do("disable_output", "")>> ELSE <<>>)
           \o (IF c = "camera" THEN <<Try("port_disable", "control")>> ELSE <<>>)
           \o [i \in DOMAIN ends |-> Do("disconnect", ends[i])], K, both)
  BY <1>2, <1>6, GoodConcat
<1> QED
  BY <1>7 DEF ends, Cleanup

\* A list with good steps before the steps z.
Before(l, K, both, z) == \E p : Good(p, K, both) /\ l = p \o z

LEMMA GoodStillsRound ==
  ASSUME NEW K \in SUBSET Special, NEW both
  PROVE  Before(StillsRound, K, both, <<Do("while", "")>>)
<1> DEFINE a == Do("count", "")
           b == Call("capture", "camera", <<Do("await", "")>>, <<>>)
           c == Do("while", "")
<1>1. GoodStep(a, K, both)
  BY GoodDo DEF Special
<1>2. GoodStep(b, K, both)
  <2>1. Good(<<Do("await", "")>>, K, both) /\ Good(<<>>, K, both)
    BY GoodDo, GoodNil DEF Special
  <2> QED
    BY <2>1, PlainCalls, PlainWords
<1> HIDE DEF a, b, c
<1>3. Good(<<a, b>>, K, both)
  BY <1>1, <1>2, GoodTuples
<1>4. <<a, b>> \o <<c>> = <<a, b, c>>
  BY Joined
<1>5. \E p : Good(p, K, both) /\ <<a, b, c>> = p \o <<c>>
  BY <1>3, <1>4
<1> QED
  BY <1>5 DEF a, b, c, StillsRound, Before

\* What the setup of the encoding leads to.
LEMMA GoodStartEncoding ==
  ASSUME NEW K \in SUBSET Special, NEW both, "is_enabled" \notin K
  PROVE  \E last \in {Do("while", ""), Do("poll", "")} : Before(StartEncoding, K, both, <<last>>)
<1> DEFINE tun == Connect("encoder", <<Exit>>)
           en  == <<Must("port_enable", "output"), Do("is_enabled", ""),
                    Try("version", "client")>>
           pre == (IF preview THEN Connect("preview", <<>>) ELSE <<>>) \o tun \o en
           a   == Do("count", "")
           b   == Try("capture", "camera")
           c   == Do("poll", "")
<1>1. Good(pre, K, both)
  <2>1. Good(<<>>, K, both) /\ Good(<<Exit>>, K, both)
    BY GoodNil, PlainCalls
  <2>2. "preview" \in Tunnels /\ "encoder" \in Tunnels
    BY DEF Tunnels
  <2>3. Good(tun, K, both) /\ Good(Connect("preview", <<>>), K, both)
    BY <2>1, <2>2, GoodConnect
  <2>4. Good(en, K, both)
    <3>1. GoodStep(Must("port_enable", "output"), K, both)
      <4>1. CallOK("port_enable", "output", K)
        BY DEF CallOK, Ports
      <4> QED
        BY <4>1, PlainCalls
    <3>2. GoodStep(Do("is_enabled", ""), K, both)
      BY GoodDo
    <3>3. GoodStep(Try("version", "client"), K, both)
      BY PlainCalls, PlainWords
    <3> QED
      BY <3>1, <3>2, <3>3, GoodTuples
  <2>5. Good(IF preview THEN Connect("preview", <<>>) ELSE <<>>, K, both)
    BY <2>1, <2>3
  <2> HIDE DEF tun, en
  <2>6. Good((IF preview THEN Connect("preview", <<>>) ELSE <<>>) \o tun, K, both)
    BY <2>3, <2>5, GoodConcat
  <2> QED
    BY <2>4, <2>6, GoodConcat
<1>2. Good(<<a, b>>, K, both)
  <2>1. GoodStep(a, K, both)
    BY GoodDo DEF Special
  <2>2. GoodStep(b, K, both)
    BY PlainCalls, PlainWords
  <2> HIDE DEF a, b
  <2> QED
    BY <2>1, <2>2, GoodTuples
<1>3. StartEncoding = pre \o (IF stills THEN <<Do("while", "")>> ELSE <<a, b, c>>)
  BY DEF StartEncoding
<1> HIDE DEF pre, a, b
<1>4. CASE stills
  BY <1>1, <1>3, <1>4 DEF Before
<1>5. CASE ~stills
  <2>1. <<a, b>> \o <<c>> = <<a, b, c>>
    BY Joined
  <2>2. pre \o (<<a, b>> \o <<c>>) = (pre \o <<a, b>>) \o <<c>>
    <3>1. PICK S, T : pre \in Seq(S) /\ <<a, b>> \in Seq(T)
      BY <1>1, <1>2 DEF Good, IsList
    <3> HIDE DEF c
    <3>2. <<c>> \in Seq({c})
      OBVIOUS
    <3>3. /\ pre \in Seq(S \cup T \cup {c}) /\ <<a, b>> \in Seq(S \cup T \cup {c})
          /\ <<c>> \in Seq(S \cup T \cup {c})
      BY <3>1, <3>2, SeqMonotonic
    <3> QED
      BY <3>3, ConcatAssociative
  <2>3. Good(pre \o <<a, b>>, K, both)
    BY <1>1, <1>2, GoodConcat
  <2>4. StartEncoding = (pre \o <<a, b>>) \o <<c>>
    BY <1>3, <1>5, <2>1, <2>2
  <2> QED
    BY <2>3, <2>4 DEF Before
<1> QED
  BY <1>4, <1>5
LEMMA ConcatLists ==
  ASSUME NEW p, NEW q, NEW r, IsList(p), IsList(q), IsList(r)
  PROVE  (p \o q) \o r = p \o (q \o r) /\ IsList(q \o r)
<1>1. PICK S, T, U : p \in Seq(S) /\ q \in Seq(T) /\ r \in Seq(U)
  BY DEF IsList
<1>2. /\ p \in Seq(S \cup T \cup U) /\ q \in Seq(S \cup T \cup U)
      /\ r \in Seq(S \cup T \cup U)
  BY <1>1, SeqMonotonic
<1> QED
  BY <1>2, ConcatAssociative, ConcatList

\* The first step of such a list is good, or the steps z are all that is left.
LEMMA BeforeTail ==
  ASSUME NEW K, NEW both, NEW z, IsList(z), NEW l, Before(l, K, both, z)
  PROVE  \/ l = z
         \/ /\ l # <<>> /\ GoodStep(Head(l), K, both)
            /\ \A more : Good(more, K, both) => Before(more \o Tail(l), K, both, z)
<1>1. PICK p : Good(p, K, both) /\ l = p \o z
  BY DEF Before
<1>2. CASE p = <<>>
  <2>1. <<>> \o z = z
    BY DEF IsList
  <2> QED
    BY <1>1, <1>2, <2>1
<1>3. CASE p # <<>>
  <2>1. GoodStep(Head(p), K, both) /\ Good(Tail(p), K, both)
    BY <1>1, <1>3, GoodTail
  <2>2. PICK S, T : p \in Seq(S) /\ z \in Seq(T)
    BY <1>1 DEF Good, IsList
  <2>3. PICK U : p \in Seq(U) /\ z \in Seq(U)
    <3>1. p \in Seq(S \cup T) /\ z \in Seq(S \cup T)
      BY <2>2, SeqMonotonic
    <3> QED
      BY <3>1
  <2>4. PICK m \in Nat, n \in Nat : m = Len(p) /\ n = Len(z) /\ m > 0 /\ Head(p) = p[1]
    BY <1>3, <2>3
  <2>a. /\ Tail(p) \in Seq(U) /\ Len(Tail(p)) = Len(p) - 1
        /\ \A i \in 1 .. Len(Tail(p)) : Tail(p)[i] = p[i + 1]
    BY <1>3, <2>3, HeadTailProperties
  <2>5. PICK t \in Seq(U) : t = Tail(p) /\ Len(t) = m - 1 /\ \A i \in 1 .. m - 1 : t[i] = p[i + 1]
    BY <2>4, <2>a
  <2>6. PICK r : r = p \o z
    OBVIOUS
  <2>7. r \in Seq(U) /\ Len(r) = m + n /\ \A i \in 1 .. m + n : r[i] = IF i <= m THEN p[i] ELSE z[i - m]
    BY <2>3, <2>4, <2>6, ConcatProperties
  <2>8. /\ r # <<>> /\ Head(r) = p[1] /\ Tail(r) \in Seq(U) /\ Len(Tail(r)) = m + n - 1
        /\ \A i \in 1 .. m + n - 1 : Tail(r)[i] = r[i + 1]
    <3>1. r # <<>>
      BY <2>4, <2>7
    <3>2. Head(r) = r[1] /\ 1 \in 1 .. m + n
      BY <2>4, <2>7, <3>1
    <3> QED
      BY <2>4, <2>7, <3>1, <3>2, HeadTailProperties
  <2>9. Tail(r) = t \o z
    <3>1. PICK u : u = t \o z
      OBVIOUS
    <3>2. /\ u \in Seq(U) /\ Len(u) = m + n - 1
          /\ \A i \in 1 .. m + n - 1 : u[i] = IF i <= m - 1 THEN t[i] ELSE z[i - (m - 1)]
      BY <2>3, <2>4, <2>5, <3>1, ConcatProperties
    <3>3. ASSUME NEW i \in 1 .. m + n - 1 PROVE Tail(r)[i] = u[i]
      <4>1. i + 1 \in 1 .. m + n /\ Tail(r)[i] = r[i + 1]
        BY <2>8
      <4>2. CASE i <= m - 1
        BY <2>5, <2>7, <3>2, <4>1, <4>2
      <4>3. CASE ~(i <= m - 1)
        <5>1. i + 1 - m = i - (m - 1) /\ ~(i + 1 <= m)
          BY <4>3
        <5>2. r[i + 1] = z[i + 1 - m]
          BY <2>7, <4>1, <5>1
        <5>3. u[i] = z[i - (m - 1)]
          BY <3>2, <4>3
        <5> QED
          BY <4>1, <5>1, <5>2, <5>3
      <4> QED
        BY <4>2, <4>3
    <3> QED
      BY <2>8, <3>1, <3>2, <3>3, SeqEqual
  <2>10. ASSUME NEW more, Good(more, K, both) PROVE Before(more \o Tail(l), K, both, z)
    <3>1. Good(more \o t, K, both)
      BY <2>1, <2>5, <2>10, GoodConcat
    <3>2. IsList(more) /\ IsList(t)
      BY <2>5, <2>10 DEF Good, IsList
    <3>3. (more \o t) \o z = more \o (t \o z)
      BY <3>2, ConcatLists
    <3> QED
      BY <1>1, <2>6, <2>9, <3>1, <3>3 DEF Before
  <2> QED
    BY <1>1, <2>1, <2>4, <2>6, <2>8, <2>10
<1> QED
  BY <1>2, <1>3

\* Before the port of the encoder is disabled the pool stays and the worker
\* does not end; afterwards the port is enabled again only after a failure.
BeforeDisable == {"pool_create", "pool_destroy", "while", "poll", "start", "end",
                  "disable_output", "cleanup"} \cup Locking
AfterDisable  == {"pool_create", "is_enabled", "enabled_again", "while", "poll", "start"}
                 \cup Locking

LEMMA GoodTeardown ==
  /\ \E p, q : /\ Good(p, BeforeDisable, TRUE) /\ Good(q, AfterDisable, FALSE)
               /\ Teardown = (p \o DisablePort) \o q
  /\ Good(Teardown, {"pool_create"}, TRUE)
<1> DEFINE h == <<Do("semaphore_delete", "")>>
                \o (IF Out("preview") \in enabled THEN ConnectionDestroy("preview") ELSE <<>>)
           a == ConnectionDestroy("encoder")
           b == <<Try("component_disable", "encoder"), Try("component_disable", "preview"),
                  Try("component_disable", "camera"),
                  Do("disable_output", ""), Do("pool_destroy", "")>>
           c == Destroy("encoder")
           d == Destroy("preview")
           e == Destroy("camera")
           f == <<Do("end", "")>>
           q == a \o (b \o (c \o (d \o (e \o f))))
<1>1. Teardown = (h \o DisablePort) \o a \o b \o c \o d \o e \o f
  BY DEF Teardown
<1>2. ASSUME NEW K \in SUBSET Special, NEW both PROVE Good(h, K, both)
  <2>1. Good(<<Do("semaphore_delete", "")>>, K, both)
    BY GoodDo DEF Special
  <2>2. Good(IF Out("preview") \in enabled THEN ConnectionDestroy("preview") ELSE <<>>, K, both)
    BY GoodDestruction, GoodNil
  <2> QED
    BY <2>1, <2>2, GoodConcat
<1>3. ASSUME NEW K \in SUBSET Special, NEW both, "pool_destroy" \notin K, "end" \notin K,
             "disable_output" \notin K, "cleanup" \notin K
      PROVE  /\ Good(a, K, both) /\ Good(b, K, both) /\ Good(c, K, both)
             /\ Good(d, K, both) /\ Good(e, K, both) /\ Good(f, K, both)
  <2>1. Good(b, K, both)
    <3>1. \A x : GoodStep(Try("component_disable", x), K, both)
      BY PlainCalls, PlainWords
    <3>2. GoodStep(Do("disable_output", ""), K, both) /\ GoodStep(Do("pool_destroy", ""), K, both)
      BY <1>3, GoodDo DEF Special
    <3> QED
      BY <3>1, <3>2, GoodTuples
  <2>2. Good(f, K, both)
    BY <1>3, GoodDo DEF Special
  <2> QED
    BY <1>3, <2>1, <2>2, GoodDestruction
<1> HIDE DEF a, b, c, d, e, f, h
<1>4. ASSUME NEW K \in SUBSET Special, NEW both, "pool_destroy" \notin K, "end" \notin K,
             "disable_output" \notin K, "cleanup" \notin K
      PROVE  Good(q, K, both)
  <2>1. Good(e \o f, K, both)
    BY <1>3, <1>4, GoodConcat
  <2>2. Good(d \o (e \o f), K, both)
    BY <1>3, <1>4, <2>1, GoodConcat
  <2>3. Good(c \o (d \o (e \o f)), K, both)
    BY <1>3, <1>4, <2>2, GoodConcat
  <2>4. Good(b \o (c \o (d \o (e \o f))), K, both)
    BY <1>3, <1>4, <2>3, GoodConcat
  <2> QED
    BY <1>3, <1>4, <2>4, GoodConcat
<1>5. BeforeDisable \in SUBSET Special /\ AfterDisable \in SUBSET Special
  BY DEF BeforeDisable, AfterDisable, Special, Locking
<1>6. {"pool_create"} \in SUBSET Special /\ "enabled_again" \notin {"pool_create"}
      /\ "pool_destroy" \notin {"pool_create"} /\ "end" \notin {"pool_create"}
      /\ "disable_output" \notin {"pool_create"} /\ "cleanup" \notin {"pool_create"}
      /\ {"pool_create"} \cap Locking = {}
  BY DEF Special, Locking
<1>7. Good(DisablePort, {"pool_create"}, TRUE) /\ Good(h, {"pool_create"}, TRUE)
  BY <1>2, <1>6, GoodDisablePort
<1>8. Good(q, {"pool_create"}, TRUE) /\ Good(h \o DisablePort, {"pool_create"}, TRUE)
  BY <1>4, <1>6, <1>7, GoodConcat
<1>9. Teardown = (h \o DisablePort) \o q
  <2> DEFINE g == h \o DisablePort
  <2>1. IsList(g) /\ IsList(a) /\ IsList(b) /\ IsList(c) /\ IsList(d) /\ IsList(e) /\ IsList(f)
    BY <1>3, <1>6, <1>8 DEF Good
  <2> HIDE DEF g
  <2> HIDE DEF q
  <2>2. (((((g \o a) \o b) \o c) \o d) \o e) \o f
            = g \o (a \o (b \o (c \o (d \o (e \o f)))))
    <3>1. PICK u1 : u1 = g \o a
      OBVIOUS
    <3>2. PICK u2 : u2 = u1 \o b
      OBVIOUS
    <3>3. PICK u3 : u3 = u2 \o c
      OBVIOUS
    <3>4. PICK u4 : u4 = u3 \o d
      OBVIOUS
    <3>5. PICK v1 : v1 = e \o f
      OBVIOUS
    <3>6. PICK v2 : v2 = d \o v1
      OBVIOUS
    <3>7. PICK v3 : v3 = c \o v2
      OBVIOUS
    <3>8. PICK v4 : v4 = b \o v3
      OBVIOUS
    <3>9. IsList(u1) /\ IsList(v1)
      BY <2>1, <3>1, <3>5, ConcatList
    <3>10. IsList(u2) /\ IsList(v2)
      BY <2>1, <3>2, <3>6, <3>9, ConcatList
    <3>11. IsList(u3) /\ IsList(v3)
      BY <2>1, <3>3, <3>7, <3>10, ConcatList
    <3>12. IsList(u4) /\ IsList(v4)
      BY <2>1, <3>4, <3>8, <3>11, ConcatList
    <3>13. (u4 \o e) \o f = u4 \o v1
      BY <2>1, <3>5, <3>12, ConcatLists
    <3>14. (u3 \o d) \o v1 = u3 \o v2
      BY <2>1, <3>6, <3>9, <3>11, ConcatLists
    <3>15. (u2 \o c) \o v2 = u2 \o v3
      BY <2>1, <3>7, <3>10, ConcatLists
    <3>16. (u1 \o b) \o v3 = u1 \o v4
      BY <2>1, <3>8, <3>9, <3>11, ConcatLists
    <3>17. (g \o a) \o v4 = g \o (a \o v4)
      BY <2>1, <3>12, ConcatLists
    <3>18. (u4 \o e) \o f = g \o (a \o v4)
      BY <2>1, <3>1, <3>2, <3>3, <3>4, <3>13, <3>14, <3>15, <3>16, <3>17
    <3>19. (((((g \o a) \o b) \o c) \o d) \o e) \o f = (u4 \o e) \o f
      BY <2>1, <3>1, <3>2, <3>3, <3>4
    <3>20. a \o v4 = a \o (b \o (c \o (d \o (e \o f))))
      BY <2>1, <3>5, <3>6, <3>7, <3>8
    <3> QED
      BY <2>1, <3>18, <3>19, <3>20
  <2>3. q = a \o (b \o (c \o (d \o (e \o f))))
    BY DEF q
  <2>11. Teardown = (((((g \o a) \o b) \o c) \o d) \o e) \o f
    BY <1>1 DEF g
  <2> QED
    BY <2>2, <2>3, <2>11 DEF g
<1>10. Good(h, BeforeDisable, TRUE)
  BY <1>2, <1>5
<1>11. Good(q, AfterDisable, FALSE)
  <2>1. /\ "pool_destroy" \notin AfterDisable /\ "end" \notin AfterDisable
        /\ "disable_output" \notin AfterDisable /\ "cleanup" \notin AfterDisable
    BY DEF AfterDisable, Locking
  <2> QED
    BY <1>4, <1>5, <2>1
<1>12. Good(Teardown, {"pool_create"}, TRUE)
  BY <1>8, <1>9, GoodConcat
<1> HIDE DEF q
<1> QED
  BY <1>9, <1>10, <1>11, <1>12
----------------------------------------------------------------------------
(* Queues in which no header is twice: queues of headers, of headers with   *)
(* their data, and of messages, some of which are about a header.           *)

MsgHeaders(q) == {q[i].header : i \in BuffersIn(q)}
OnceEach(q)   == \A i, j \in DOMAIN q : q[i] = q[j] => i = j
OnceHeld(q)   == \A i, j \in DOMAIN q : q[i].header = q[j].header => i = j
OnceSent(q)   == \A i, j \in BuffersIn(q) : q[i].header = q[j].header => i = j

LEMMA TailEach ==
  ASSUME NEW S, NEW q \in Seq(S), q # <<>>, OnceEach(q)
  PROVE  /\ Head(q) \in S /\ Head(q) \in Range(q) /\ Tail(q) \in Seq(S)
         /\ Range(Tail(q)) = Range(q) \ {Head(q)} /\ OnceEach(Tail(q))
<1>1. PICK n \in Nat : n = Len(q) /\ DOMAIN q = 1 .. n /\ n > 0
  OBVIOUS
<1>2. PICK r : r = Tail(q)
  OBVIOUS
<1>3. /\ Head(q) \in S /\ Head(q) = q[1] /\ r \in Seq(S) /\ Len(r) = n - 1
      /\ DOMAIN r = 1 .. n - 1 /\ \A i \in 1 .. n - 1 : r[i] = q[i + 1]
  BY <1>1, <1>2, HeadTailProperties
<1>4. \A i, j \in 1 .. n : q[i] = q[j] => i = j
  BY <1>1 DEF OnceEach
<1>5. OnceEach(r)
  <2>1. ASSUME NEW i \in 1 .. n - 1, NEW j \in 1 .. n - 1, r[i] = r[j] PROVE i = j
    <3>1. i + 1 \in 1 .. n /\ j + 1 \in 1 .. n
      BY <1>1
    <3>2. q[i + 1] = q[j + 1]
      BY <1>3, <2>1
    <3>3. i + 1 = j + 1
      BY <1>4, <3>1, <3>2
    <3> QED
      BY <3>3
  <2> QED
    BY <1>3, <2>1 DEF OnceEach
<1>6. Range(q) = {q[i] : i \in 1 .. n} /\ Range(r) = {r[i] : i \in 1 .. n - 1}
  BY <1>1, <1>3 DEF Range
<1>7. ASSUME NEW x \in Range(q), x # Head(q) PROVE x \in Range(r)
  <2>1. PICK i \in 1 .. n : x = q[i]
    BY <1>6
  <2>2. i - 1 \in 1 .. n - 1 /\ r[i - 1] = x
    BY <2>1, <1>3, <1>7
  <2> QED
    BY <2>2, <1>6
<1>8. ASSUME NEW x \in Range(r) PROVE x \in Range(q) /\ x # Head(q)
  <2>1. PICK i \in 1 .. n - 1 : x = r[i]
    BY <1>6
  <2>2. i + 1 \in 1 .. n /\ x = q[i + 1] /\ i + 1 # 1
    BY <2>1, <1>3
  <2> QED
    BY <2>2, <1>1, <1>3, <1>4, <1>6
<1>9. Head(q) \in Range(q)
  BY <1>1, <1>3, <1>6
<1> QED
  BY <1>2, <1>3, <1>5, <1>7, <1>8, <1>9

LEMMA AppendEach ==
  ASSUME NEW S, NEW q \in Seq(S), NEW b \in S, OnceEach(q), b \notin Range(q)
  PROVE  /\ Append(q, b) \in Seq(S) /\ Range(Append(q, b)) = Range(q) \cup {b}
         /\ OnceEach(Append(q, b))
<1>1. PICK n \in Nat : n = Len(q) /\ DOMAIN q = 1 .. n
  OBVIOUS
<1>2. PICK r : r = Append(q, b)
  OBVIOUS
<1>3. /\ r \in Seq(S) /\ DOMAIN r = 1 .. n + 1
      /\ \A i \in 1 .. n : r[i] = q[i]
      /\ r[n + 1] = b
  BY <1>1, <1>2
<1>4. Range(q) = {q[i] : i \in 1 .. n} /\ Range(r) = {r[i] : i \in 1 .. n + 1}
  BY <1>1, <1>3 DEF Range
<1>5. \A i \in 1 .. n + 1 : i \in 1 .. n \/ i = n + 1
  OBVIOUS
<1>6. Range(r) = Range(q) \cup {b}
  <2>1. \A x \in Range(r) : x \in Range(q) \cup {b}
    BY <1>3, <1>4, <1>5
  <2>2. \A x \in Range(q) \cup {b} : x \in Range(r)
    BY <1>3, <1>4
  <2> QED
    BY <2>1, <2>2
<1>7. OnceEach(r)
  <2>1. \A i, j \in 1 .. n : q[i] = q[j] => i = j
    BY <1>1 DEF OnceEach
  <2>2. \A i \in 1 .. n : r[i] # b
    BY <1>3, <1>4
  <2>3. ASSUME NEW i \in 1 .. n + 1, NEW j \in 1 .. n + 1, r[i] = r[j] PROVE i = j
    BY <2>1, <2>2, <2>3, <1>3, <1>5
  <2> QED
    BY <2>3, <1>3 DEF OnceEach
<1> QED
  BY <1>2, <1>3, <1>6, <1>7

LEMMA ConcatEach ==
  ASSUME NEW S, NEW p \in Seq(S), NEW q \in Seq(S), OnceEach(p), OnceEach(q),
         Range(p) \cap Range(q) = {}
  PROVE  /\ p \o q \in Seq(S) /\ Range(p \o q) = Range(p) \cup Range(q)
         /\ OnceEach(p \o q)
<1>1. PICK m \in Nat, n \in Nat : m = Len(p) /\ n = Len(q) /\ DOMAIN p = 1 .. m /\ DOMAIN q = 1 .. n
  OBVIOUS
<1>2. PICK r : r = p \o q
  OBVIOUS
<1>3. /\ r \in Seq(S) /\ Len(r) = m + n
      /\ \A i \in 1 .. m + n : r[i] = IF i <= m THEN p[i] ELSE q[i - m]
  BY <1>1, <1>2, ConcatProperties
<1>a. DOMAIN r = 1 .. m + n
  BY <1>3
<1>4. /\ \A i \in 1 .. m : r[i] = p[i] /\ i \in 1 .. m + n
      /\ \A i \in 1 .. n : r[m + i] = q[i] /\ m + i \in 1 .. m + n
      /\ \A i \in 1 .. m + n : i \in 1 .. m \/ (i - m \in 1 .. n /\ r[i] = q[i - m])
  BY <1>3
<1>5. /\ Range(p) = {p[i] : i \in 1 .. m} /\ Range(q) = {q[i] : i \in 1 .. n}
      /\ Range(r) = {r[i] : i \in 1 .. m + n}
  BY <1>1, <1>a DEF Range
<1>6. Range(r) = Range(p) \cup Range(q)
  <2>1. \A x \in Range(r) : x \in Range(p) \cup Range(q)
    BY <1>4, <1>5
  <2>2. \A x \in Range(p) \cup Range(q) : x \in Range(r)
    BY <1>4, <1>5
  <2> QED
    BY <2>1, <2>2
<1>7. OnceEach(r)
  <2>1. /\ \A i, j \in 1 .. m : p[i] = p[j] => i = j
        /\ \A i, j \in 1 .. n : q[i] = q[j] => i = j
        /\ \A i \in 1 .. m, j \in 1 .. n : p[i] # q[j]
    <3>1. /\ \A i, j \in 1 .. m : p[i] = p[j] => i = j
          /\ \A i, j \in 1 .. n : q[i] = q[j] => i = j
      BY <1>1 DEF OnceEach
    <3>2. ASSUME NEW i \in 1 .. m, NEW j \in 1 .. n PROVE p[i] # q[j]
      BY <1>5
    <3> QED
      BY <3>1, <3>2
  <2>2. ASSUME NEW i \in 1 .. m + n, NEW j \in 1 .. m + n, r[i] = r[j] PROVE i = j
    <3>1. CASE i \in 1 .. m /\ j \in 1 .. m
      BY <3>1, <2>1, <2>2, <1>4
    <3>2. CASE i \in 1 .. m /\ j \notin 1 .. m
      BY <3>2, <2>1, <2>2, <1>4
    <3>3. CASE i \notin 1 .. m /\ j \in 1 .. m
      BY <3>3, <2>1, <2>2, <1>4
    <3>4. CASE i \notin 1 .. m /\ j \notin 1 .. m
      <4>1. i - m = j - m
        BY <3>4, <2>1, <2>2, <1>4
      <4> QED
        BY <4>1
    <3> QED
      BY <3>1, <3>2, <3>3, <3>4
  <2> QED
    BY <2>2, <1>a DEF OnceEach
<1> QED
  BY <1>2, <1>3, <1>6, <1>7

LEMMA TailHeld ==
  ASSUME NEW S, NEW q \in Seq(S), q # <<>>, OnceHeld(q)
  PROVE  /\ Head(q) \in S /\ Head(q).header \in HeadersOf(q) /\ Tail(q) \in Seq(S)
         /\ HeadersOf(Tail(q)) = HeadersOf(q) \ {Head(q).header} /\ OnceHeld(Tail(q))
<1>1. PICK n \in Nat : n = Len(q) /\ DOMAIN q = 1 .. n /\ n > 0
  OBVIOUS
<1>2. PICK r : r = Tail(q)
  OBVIOUS
<1>3. /\ Head(q) \in S /\ Head(q) = q[1] /\ r \in Seq(S) /\ Len(r) = n - 1
      /\ DOMAIN r = 1 .. n - 1 /\ \A i \in 1 .. n - 1 : r[i] = q[i + 1]
  BY <1>1, <1>2, HeadTailProperties
<1>4. \A i, j \in 1 .. n : q[i].header = q[j].header => i = j
  BY <1>1 DEF OnceHeld
<1>5. OnceHeld(r)
  <2>1. ASSUME NEW i \in 1 .. n - 1, NEW j \in 1 .. n - 1, r[i].header = r[j].header
        PROVE  i = j
    <3>1. /\ i + 1 \in 1 .. n /\ j + 1 \in 1 .. n
          /\ q[i + 1].header = r[i].header /\ q[j + 1].header = r[j].header
      BY <1>3
    <3>2. i + 1 = j + 1
      BY <2>1, <3>1, <1>4
    <3> QED
      BY <3>2
  <2> QED
    BY <2>1, <1>3 DEF OnceHeld
<1>6. HeadersOf(q) = {q[i].header : i \in 1 .. n} /\ HeadersOf(r) = {r[i].header : i \in 1 .. n - 1}
  BY <1>1, <1>3 DEF HeadersOf
<1>7. ASSUME NEW x \in HeadersOf(q), x # Head(q).header PROVE x \in HeadersOf(r)
  <2>1. PICK i \in 1 .. n : x = q[i].header
    BY <1>6
  <2>a. i # 1
    BY <2>1, <1>3, <1>7
  <2>b. PICK k \in 1 .. n - 1 : i = k + 1
    BY <2>a, <1>1
  <2>2. k \in 1 .. n - 1 /\ r[k].header = x
    BY <2>1, <2>b, <1>3
  <2> QED
    BY <2>2, <1>6
<1>8. ASSUME NEW x \in HeadersOf(r) PROVE x \in HeadersOf(q) /\ x # Head(q).header
  <2>1. PICK i \in 1 .. n - 1 : x = r[i].header
    BY <1>6
  <2>2. i + 1 \in 1 .. n /\ x = q[i + 1].header /\ i + 1 # 1
    BY <2>1, <1>3
  <2> QED
    BY <2>2, <1>1, <1>3, <1>4, <1>6
<1>9. Head(q).header \in HeadersOf(q)
  BY <1>1, <1>3, <1>6
<1> QED
  BY <1>2, <1>3, <1>5, <1>7, <1>8, <1>9

LEMMA AppendHeld ==
  ASSUME NEW S, NEW q \in Seq(S), NEW x \in S, OnceHeld(q), x.header \notin HeadersOf(q)
  PROVE  /\ Append(q, x) \in Seq(S) /\ HeadersOf(Append(q, x)) = HeadersOf(q) \cup {x.header}
         /\ OnceHeld(Append(q, x))
<1>1. PICK n \in Nat : n = Len(q) /\ DOMAIN q = 1 .. n
  OBVIOUS
<1>2. PICK r : r = Append(q, x)
  OBVIOUS
<1>3. /\ r \in Seq(S) /\ DOMAIN r = 1 .. n + 1
      /\ \A i \in 1 .. n : r[i] = q[i]
      /\ r[n + 1] = x
  BY <1>1, <1>2
<1>4. HeadersOf(q) = {q[i].header : i \in 1 .. n} /\ HeadersOf(r) = {r[i].header : i \in 1 .. n + 1}
  BY <1>1, <1>3 DEF HeadersOf
<1>5. \A i \in 1 .. n + 1 : i \in 1 .. n \/ i = n + 1
  OBVIOUS
<1>6. HeadersOf(r) = HeadersOf(q) \cup {x.header}
  <2>1. \A y \in HeadersOf(r) : y \in HeadersOf(q) \cup {x.header}
    BY <1>3, <1>4, <1>5
  <2>2. \A y \in HeadersOf(q) \cup {x.header} : y \in HeadersOf(r)
    BY <1>3, <1>4
  <2> QED
    BY <2>1, <2>2
<1>7. OnceHeld(r)
  <2>1. \A i, j \in 1 .. n : q[i].header = q[j].header => i = j
    BY <1>1 DEF OnceHeld
  <2>2. \A i \in 1 .. n : r[i].header # x.header
    BY <1>3, <1>4
  <2>3. ASSUME NEW i \in 1 .. n + 1, NEW j \in 1 .. n + 1, r[i].header = r[j].header PROVE i = j
    BY <2>1, <2>2, <2>3, <1>3, <1>5
  <2> QED
    BY <2>3, <1>3 DEF OnceHeld
<1> QED
  BY <1>2, <1>3, <1>6, <1>7
LEMMA OnceSentMeans ==
  ASSUME NEW q, OnceSent(q)
  PROVE  \A i, j \in DOMAIN q : IsBuffer(q[i]) /\ IsBuffer(q[j]) =>
                               (q[i].header = q[j].header => i = j)
<1>1. ASSUME NEW i \in DOMAIN q, NEW j \in DOMAIN q, IsBuffer(q[i]), IsBuffer(q[j]),
             q[i].header = q[j].header
      PROVE  i = j
  <2>1. i \in BuffersIn(q) /\ j \in BuffersIn(q)
    BY <1>1 DEF BuffersIn
  <2> QED
    BY <1>1, <2>1 DEF OnceSent
<1> QED
  BY <1>1

LEMMA TailSent ==
  ASSUME NEW S, NEW q \in Seq(S), q # <<>>, OnceSent(q)
  PROVE  /\ Head(q) \in S /\ Tail(q) \in Seq(S) /\ OnceSent(Tail(q))
         /\ IsBuffer(Head(q)) =>
                /\ Head(q).header \in MsgHeaders(q)
                /\ MsgHeaders(Tail(q)) = MsgHeaders(q) \ {Head(q).header}
         /\ ~IsBuffer(Head(q)) => MsgHeaders(Tail(q)) = MsgHeaders(q)
         /\ \A i \in DOMAIN Tail(q) : \E j \in DOMAIN q : Tail(q)[i] = q[j]
<1>1. PICK n \in Nat : n = Len(q) /\ DOMAIN q = 1 .. n /\ n > 0
  OBVIOUS
<1>2. PICK r : r = Tail(q)
  OBVIOUS
<1>3. /\ Head(q) \in S /\ Head(q) = q[1] /\ r \in Seq(S) /\ Len(r) = n - 1
      /\ DOMAIN r = 1 .. n - 1 /\ \A i \in 1 .. n - 1 : r[i] = q[i + 1] /\ i + 1 \in 1 .. n
  BY <1>1, <1>2, HeadTailProperties
<1>4. \A i, j \in 1 .. n : IsBuffer(q[i]) /\ IsBuffer(q[j]) =>
                               (q[i].header = q[j].header => i = j)
  BY <1>1, OnceSentMeans
<1>5. OnceSent(r)
  <2>1. ASSUME NEW i \in 1 .. n - 1, NEW j \in 1 .. n - 1, IsBuffer(r[i]), IsBuffer(r[j]),
               r[i].header = r[j].header
        PROVE  i = j
    <3>1. /\ i + 1 \in 1 .. n /\ j + 1 \in 1 .. n /\ q[i + 1] = r[i] /\ q[j + 1] = r[j]
      BY <1>3
    <3>2. i + 1 = j + 1
      BY <2>1, <3>1, <1>4
    <3> QED
      BY <3>2
  <2> QED
    BY <2>1, <1>3 DEF OnceSent, BuffersIn
<1>6. /\ MsgHeaders(q) = {q[i].header : i \in {k \in 1 .. n : IsBuffer(q[k])}}
      /\ MsgHeaders(r) = {r[i].header : i \in {k \in 1 .. n - 1 : IsBuffer(r[k])}}
  BY <1>1, <1>3 DEF MsgHeaders, BuffersIn
<1>7. ASSUME NEW x \in MsgHeaders(q), ~(IsBuffer(Head(q)) /\ x = Head(q).header)
      PROVE  x \in MsgHeaders(r)
  <2>1. PICK i \in 1 .. n : IsBuffer(q[i]) /\ x = q[i].header
    BY <1>6
  <2>a. i # 1
    BY <2>1, <1>3, <1>7
  <2>b. PICK k \in 1 .. n - 1 : i = k + 1
    BY <2>a, <1>1
  <2>2. k \in 1 .. n - 1 /\ IsBuffer(r[k]) /\ r[k].header = x
    BY <2>1, <2>b, <1>3
  <2> QED
    BY <2>2, <1>6
<1>8. ASSUME NEW x \in MsgHeaders(r)
      PROVE  x \in MsgHeaders(q) /\ ~(IsBuffer(Head(q)) /\ x = Head(q).header)
  <2>1. PICK i \in 1 .. n - 1 : IsBuffer(r[i]) /\ x = r[i].header
    BY <1>6
  <2>2. i + 1 \in 1 .. n /\ IsBuffer(q[i + 1]) /\ x = q[i + 1].header /\ i + 1 # 1
    BY <2>1, <1>3
  <2>3. ~(IsBuffer(q[1]) /\ x = q[1].header)
    <3>1. 1 \in 1 .. n
      BY <1>1
    <3> QED
      BY <2>2, <3>1, <1>4
  <2> QED
    BY <2>2, <2>3, <1>3, <1>6
<1>9. IsBuffer(Head(q)) => Head(q).header \in MsgHeaders(q)
  <2>1. 1 \in 1 .. n
    BY <1>1
  <2> QED
    BY <2>1, <1>3, <1>6
<1>10. \A i \in DOMAIN r : \E j \in DOMAIN q : r[i] = q[j]
  BY <1>1, <1>3
<1>11. ASSUME IsBuffer(Head(q)) PROVE MsgHeaders(r) = MsgHeaders(q) \ {Head(q).header}
  BY <1>7, <1>8, <1>11
<1>12. ASSUME ~IsBuffer(Head(q)) PROVE MsgHeaders(r) = MsgHeaders(q)
  BY <1>7, <1>8, <1>12
<1> QED
  BY <1>2, <1>3, <1>5, <1>9, <1>10, <1>11, <1>12

LEMMA ConcatSent ==
  ASSUME NEW S, NEW p \in Seq(S), NEW q \in Seq(S), OnceSent(p), OnceSent(q),
         MsgHeaders(p) \cap MsgHeaders(q) = {}
  PROVE  /\ p \o q \in Seq(S) /\ MsgHeaders(p \o q) = MsgHeaders(p) \cup MsgHeaders(q)
         /\ OnceSent(p \o q)
<1>1. PICK m \in Nat, n \in Nat : m = Len(p) /\ n = Len(q) /\ DOMAIN p = 1 .. m /\ DOMAIN q = 1 .. n
  OBVIOUS
<1>2. PICK r : r = p \o q
  OBVIOUS
<1>3. /\ r \in Seq(S) /\ Len(r) = m + n
      /\ \A i \in 1 .. m + n : r[i] = IF i <= m THEN p[i] ELSE q[i - m]
  BY <1>1, <1>2, ConcatProperties
<1>a. DOMAIN r = 1 .. m + n
  BY <1>3
<1>4. /\ \A i \in 1 .. m : r[i] = p[i] /\ i \in 1 .. m + n
      /\ \A i \in 1 .. n : r[m + i] = q[i] /\ m + i \in 1 .. m + n
      /\ \A i \in 1 .. m + n : i \in 1 .. m \/ (i - m \in 1 .. n /\ r[i] = q[i - m])
  BY <1>3
<1>5. /\ MsgHeaders(p) = {p[i].header : i \in {k \in 1 .. m : IsBuffer(p[k])}}
      /\ MsgHeaders(q) = {q[i].header : i \in {k \in 1 .. n : IsBuffer(q[k])}}
      /\ MsgHeaders(r) = {r[i].header : i \in {k \in 1 .. m + n : IsBuffer(r[k])}}
  BY <1>1, <1>a DEF MsgHeaders, BuffersIn
<1>6. MsgHeaders(r) = MsgHeaders(p) \cup MsgHeaders(q)
  <2>1. \A x \in MsgHeaders(r) : x \in MsgHeaders(p) \cup MsgHeaders(q)
    BY <1>4, <1>5
  <2>2. \A x \in MsgHeaders(p) : x \in MsgHeaders(r)
    BY <1>4, <1>5
  <2>3. ASSUME NEW x \in MsgHeaders(q) PROVE x \in MsgHeaders(r)
    <3>1. PICK i \in 1 .. n : IsBuffer(q[i]) /\ x = q[i].header
      BY <1>5
    <3>2. m + i \in 1 .. m + n /\ IsBuffer(r[m + i]) /\ x = r[m + i].header
      BY <3>1, <1>4
    <3> QED
      BY <3>2, <1>5
  <2> QED
    BY <2>1, <2>2, <2>3
<1>7. OnceSent(r)
  <2>1. /\ \A i, j \in 1 .. m : IsBuffer(p[i]) /\ IsBuffer(p[j]) =>
                               (p[i].header = p[j].header => i = j)
        /\ \A i, j \in 1 .. n : IsBuffer(q[i]) /\ IsBuffer(q[j]) =>
                               (q[i].header = q[j].header => i = j)
        /\ \A i \in 1 .. m, j \in 1 .. n : IsBuffer(p[i]) /\ IsBuffer(q[j])
                                               => p[i].header # q[j].header
    <3>1. ASSUME NEW i \in 1 .. m, NEW j \in 1 .. n, IsBuffer(p[i]), IsBuffer(q[j])
          PROVE  p[i].header # q[j].header
      <4>1. p[i].header \in MsgHeaders(p) /\ q[j].header \in MsgHeaders(q)
        BY <3>1, <1>5
      <4> QED
        BY <4>1
    <3> QED
      BY <3>1, <1>1, OnceSentMeans
  <2>2. ASSUME NEW i \in 1 .. m + n, NEW j \in 1 .. m + n, IsBuffer(r[i]), IsBuffer(r[j]),
               r[i].header = r[j].header
        PROVE  i = j
    <3>1. CASE i \in 1 .. m /\ j \in 1 .. m
      BY <3>1, <2>1, <2>2, <1>4
    <3>2. CASE i \in 1 .. m /\ j \notin 1 .. m
      BY <3>2, <2>1, <2>2, <1>4
    <3>3. CASE i \notin 1 .. m /\ j \in 1 .. m
      BY <3>3, <2>1, <2>2, <1>4
    <3>4. CASE i \notin 1 .. m /\ j \notin 1 .. m
      <4>a. PICK k \in 1 .. n, l \in 1 .. n : k = i - m /\ l = j - m /\ r[i] = q[k] /\ r[j] = q[l]
        BY <3>4, <1>4
      <4>1. i - m = j - m
        BY <4>a, <2>1, <2>2
      <4> QED
        BY <4>1
    <3> QED
      BY <3>1, <3>2, <3>3, <3>4
  <2> QED
    BY <2>2, <1>a DEF OnceSent, BuffersIn
<1> QED
  BY <1>2, <1>3, <1>6, <1>7

LEMMA SingleSent ==
  ASSUME NEW S, NEW x \in S
  PROVE  /\ <<x>> \in Seq(S) /\ OnceSent(<<x>>)
         /\ IsBuffer(x) => MsgHeaders(<<x>>) = {x.header}
         /\ ~IsBuffer(x) => MsgHeaders(<<x>>) = {}
<1>1. PICK q : q = <<x>>
  OBVIOUS
<1>2. q \in Seq(S) /\ DOMAIN q = 1 .. 1 /\ q[1] = x
  BY <1>1
<1>3. OnceSent(q)
  BY <1>2 DEF OnceSent, BuffersIn
<1>4. MsgHeaders(q) = {q[i].header : i \in {k \in 1 .. 1 : IsBuffer(q[k])}}
  BY <1>2 DEF MsgHeaders, BuffersIn
<1>5. ASSUME IsBuffer(x) PROVE MsgHeaders(q) = {x.header}
  BY <1>2, <1>4, <1>5
<1>6. ASSUME ~IsBuffer(x) PROVE MsgHeaders(q) = {}
  BY <1>2, <1>4, <1>6
<1> QED
  BY <1>1, <1>2, <1>3, <1>5, <1>6

LEMMA AppendSent ==
  ASSUME NEW S, NEW q \in Seq(S), NEW x \in S, OnceSent(q),
         IsBuffer(x) => x.header \notin MsgHeaders(q)
  PROVE  /\ Append(q, x) \in Seq(S) /\ OnceSent(Append(q, x))
         /\ IsBuffer(x) => MsgHeaders(Append(q, x)) = MsgHeaders(q) \cup {x.header}
         /\ ~IsBuffer(x) => MsgHeaders(Append(q, x)) = MsgHeaders(q)
<1>1. Append(q, x) = q \o <<x>>
  OBVIOUS
<1>2. /\ <<x>> \in Seq(S) /\ OnceSent(<<x>>)
      /\ IsBuffer(x) => MsgHeaders(<<x>>) = {x.header}
      /\ ~IsBuffer(x) => MsgHeaders(<<x>>) = {}
  BY SingleSent
<1>3. MsgHeaders(q) \cap MsgHeaders(<<x>>) = {}
  BY <1>2
<1>4. /\ q \o <<x>> \in Seq(S) /\ MsgHeaders(q \o <<x>>) = MsgHeaders(q) \cup MsgHeaders(<<x>>)
      /\ OnceSent(q \o <<x>>)
  BY <1>2, <1>3, ConcatSent
<1> QED
  BY <1>1, <1>2, <1>4
----------------------------------------------------------------------------
(* Where each header is.                                                    *)

OutPlaces == {"toVC", "held", "toHost", "bulks", "callbacks", "queue"}
Places    == OutPlaces \cup {"pool", "worker", "action", "lost"}

\* What is where, and that nothing is in two places.
Contained == [Places -> SUBSET Headers]
Apart(C)  == \A p, r \in Places : p # r => C[p] \cap C[r] = {}
OutOf(C)  == UNION {C[p] : p \in OutPlaces}

\* The header that the callback of a thread works on or is about to send.
InHand(t) == IF cb[t].at \in {"copy", "release"} THEN {cb[t].of.header}
             ELSE IF cb[t].at = "send" THEN {cb[t].next} ELSE {}
Busy == {t \in Threads : ~At(t, "idle") /\ ~At(t, "begin")}

Contents ==
    [p \in Places |->
        CASE p = "toVC"      -> MsgHeaders(toVC)
          [] p = "held"      -> Range(vc.held)
          [] p = "toHost"    -> MsgHeaders(toHost)
          [] p = "bulks"     -> HeadersOf(bulks)
          [] p = "callbacks" -> HeadersOf(callbackQueue)
          [] p = "queue"     -> Range(port.queue)
          [] p = "pool"      -> Range(pool)
          [] p = "worker"    -> InHand("worker")
          [] p = "action"    -> InHand("action")
          [] p = "lost"      -> lost]

\* Sets of headers are finite.
LEMMA OutFinite ==
  ASSUME NEW C \in Contained
  PROVE  /\ OutOf(C) \in SUBSET Headers /\ IsFiniteSet(OutOf(C))
         /\ Cardinality(OutOf(C)) \in Nat
<1>1. OutOf(C) \in SUBSET Headers
  BY DEF OutOf, Contained, Places
<1> QED
  BY <1>1, HeadersOK, FS_Subset, FS_CardinalityType

\* One header goes to another place.
LEMMA Moved ==
  ASSUME NEW C \in Contained, Apart(C), NEW D \in Contained,
         NEW p \in Places, NEW r \in Places, p # r, NEW b \in C[p],
         D[p] = C[p] \ {b}, D[r] = C[r] \cup {b},
         \A q \in Places \ {p, r} : D[q] = C[q]
  PROVE  /\ Apart(D)
         /\ (p \in OutPlaces <=> r \in OutPlaces) => OutOf(D) = OutOf(C)
         /\ p \in OutPlaces /\ r \notin OutPlaces =>
                Cardinality(OutOf(D)) = Cardinality(OutOf(C)) - 1
         /\ p \notin OutPlaces /\ r \in OutPlaces =>
                Cardinality(OutOf(D)) = Cardinality(OutOf(C)) + 1
<1>1. \A q \in Places : q # p => b \notin C[q]
  BY DEF Apart
<1>2. Apart(D)
  <2>1. ASSUME NEW q \in Places, NEW s \in Places, q # s PROVE D[q] \cap D[s] = {}
    <3>1. C[q] \cap C[s] = {}
      BY <2>1 DEF Apart
    <3>2. D[q] \subseteq C[q] \/ q = r
      OBVIOUS
    <3>3. D[s] \subseteq C[s] \/ s = r
      OBVIOUS
    <3>4. CASE q = r
      <4>1. b \notin D[s] /\ D[s] \subseteq C[s]
        BY <2>1, <3>4, <1>1
      <4> QED
        BY <3>1, <3>4, <4>1
    <3>5. CASE s = r
      <4>1. b \notin D[q] /\ D[q] \subseteq C[q]
        BY <2>1, <3>5, <1>1
      <4> QED
        BY <3>1, <3>5, <4>1
    <3> QED
      BY <3>1, <3>2, <3>3, <3>4, <3>5
  <2> QED
    BY <2>1 DEF Apart
<1>3. /\ \A x : x \in OutOf(C) <=> \E q \in OutPlaces : x \in C[q]
      /\ \A x : x \in OutOf(D) <=> \E q \in OutPlaces : x \in D[q]
  BY DEF OutOf
<1>4. OutPlaces \subseteq Places
  BY DEF Places
<1>5. ASSUME NEW x, x # b PROVE x \in OutOf(C) <=> x \in OutOf(D)
  <2>1. \A q \in Places : x \in C[q] <=> x \in D[q]
    BY <1>5
  <2> QED
    BY <2>1, <1>3, <1>4
<1>6. b \in OutOf(C) <=> p \in OutPlaces
  BY <1>1, <1>3, <1>4
<1>7. b \in OutOf(D) <=> r \in OutPlaces
  <2>1. \A q \in Places : q # r => b \notin D[q]
    BY <1>1
  <2> QED
    BY <2>1, <1>3, <1>4
<1>8. IsFiniteSet(OutOf(C)) /\ Cardinality(OutOf(C)) \in Nat
  BY OutFinite
<1>9. ASSUME p \in OutPlaces <=> r \in OutPlaces PROVE OutOf(D) = OutOf(C)
  BY <1>5, <1>6, <1>7, <1>9
<1>10. ASSUME p \in OutPlaces, r \notin OutPlaces
       PROVE  Cardinality(OutOf(D)) = Cardinality(OutOf(C)) - 1
  <2>1. OutOf(D) = OutOf(C) \ {b} /\ b \in OutOf(C)
    BY <1>5, <1>6, <1>7, <1>10
  <2> QED
    BY <2>1, <1>8, FS_RemoveElement
<1>11. ASSUME p \notin OutPlaces, r \in OutPlaces
       PROVE  Cardinality(OutOf(D)) = Cardinality(OutOf(C)) + 1
  <2>1. OutOf(D) = OutOf(C) \cup {b} /\ b \notin OutOf(C)
    BY <1>5, <1>6, <1>7, <1>11
  <2> QED
    BY <2>1, <1>8, FS_AddElement
<1> QED
  BY <1>2, <1>9, <1>10, <1>11

\* All the headers of one place go to another.
LEMMA AllMoved ==
  ASSUME NEW C \in Contained, Apart(C), NEW D \in Contained,
         NEW p \in Places, NEW r \in Places, p # r,
         D[p] = {}, D[r] = C[r] \cup C[p],
         \A q \in Places \ {p, r} : D[q] = C[q]
  PROVE  /\ Apart(D)
         /\ p \in OutPlaces /\ r \in OutPlaces => OutOf(D) = OutOf(C)
         /\ p \in OutPlaces /\ r \notin OutPlaces =>
                Cardinality(OutOf(D)) = Cardinality(OutOf(C)) - Cardinality(C[p])
<1>1. Apart(D)
  <2>1. ASSUME NEW q \in Places, NEW s \in Places, q # s PROVE D[q] \cap D[s] = {}
    <3>1. /\ C[q] \cap C[s] = {}
          /\ q # p => C[q] \cap C[p] = {}
          /\ s # p => C[s] \cap C[p] = {}
      BY <2>1 DEF Apart
    <3>2. CASE q = p \/ s = p
      BY <3>2
    <3>3. CASE q # p /\ s # p
      <4>1. CASE q = r
        <5>1. D[q] = C[q] \cup C[p] /\ D[s] = C[s]
          BY <3>3, <4>1, <2>1
        <5> QED
          BY <3>1, <3>3, <5>1
      <4>2. CASE s = r
        <5>1. D[s] = C[s] \cup C[p] /\ D[q] = C[q]
          BY <3>3, <4>2, <2>1
        <5> QED
          BY <3>1, <3>3, <5>1
      <4>3. CASE q # r /\ s # r
        BY <3>1, <3>3, <4>3
      <4> QED
        BY <4>1, <4>2, <4>3
    <3> QED
      BY <3>2, <3>3
  <2> QED
    BY <2>1 DEF Apart
<1>2. /\ \A x : x \in OutOf(C) <=> \E q \in OutPlaces : x \in C[q]
      /\ \A x : x \in OutOf(D) <=> \E q \in OutPlaces : x \in D[q]
      /\ OutPlaces \subseteq Places
  BY DEF OutOf, Places
<1>3. ASSUME p \in OutPlaces, r \in OutPlaces PROVE OutOf(D) = OutOf(C)
  <2>1. \A x \in OutOf(C) : x \in OutOf(D)
    BY <1>2, <1>3
  <2>2. \A x \in OutOf(D) : x \in OutOf(C)
    BY <1>2, <1>3
  <2> QED
    BY <2>1, <2>2
<1>4. ASSUME p \in OutPlaces, r \notin OutPlaces
      PROVE  Cardinality(OutOf(D)) = Cardinality(OutOf(C)) - Cardinality(C[p])
  <2>1. OutOf(C) = OutOf(D) \cup C[p] /\ OutOf(D) \cap C[p] = {}
    <3>1. \A x \in OutOf(C) : x \in OutOf(D) \/ x \in C[p]
      BY <1>2, <1>4
    <3>2. \A x \in OutOf(D) : x \in OutOf(C) /\ x \notin C[p]
      <4>1. ASSUME NEW x \in OutOf(D) PROVE x \in OutOf(C) /\ x \notin C[p]
        <5>1. PICK q \in OutPlaces : x \in D[q]
          BY <1>2
        <5>2. q # p /\ q # r /\ q \in Places
          BY <5>1, <1>2, <1>4
        <5>3. x \in C[q] /\ C[q] \cap C[p] = {}
          BY <5>1, <5>2 DEF Apart
        <5> QED
          BY <5>1, <5>3, <1>2
      <4> QED
        BY <4>1
    <3>3. \A x \in C[p] : x \in OutOf(C)
      BY <1>2, <1>4
    <3> QED
      BY <3>1, <3>2, <3>3
  <2>2. C[p] \in SUBSET Headers
    BY DEF Contained
  <2>3. /\ IsFiniteSet(OutOf(D)) /\ IsFiniteSet(C[p])
        /\ Cardinality(OutOf(D)) \in Nat /\ Cardinality(C[p]) \in Nat
    BY <2>2, OutFinite, HeadersOK, FS_Subset, FS_CardinalityType
  <2>4. Cardinality(OutOf(D) \cap C[p]) = 0
    BY <2>1, FS_EmptySet
  <2>5. Cardinality(OutOf(D) \cup C[p])
          = Cardinality(OutOf(D)) + Cardinality(C[p]) - Cardinality(OutOf(D) \cap C[p])
    BY <2>3, FS_Union
  <2>6. PICK m \in Nat, n \in Nat : m = Cardinality(OutOf(D)) /\ n = Cardinality(C[p])
    BY <2>3
  <2>7. Cardinality(OutOf(C)) = m + n
    BY <2>1, <2>4, <2>5, <2>6
  <2> QED
    BY <2>6, <2>7
<1> QED
  BY <1>1, <1>3, <1>4

\* A queue with every header once is as long as its set of headers.
LEMMA OnceCounts ==
  ASSUME NEW S, NEW q \in Seq(S), OnceEach(q)
  PROVE  IsFiniteSet(Range(q)) /\ Cardinality(Range(q)) = Len(q)
<1>1. PICK n \in Nat : n = Len(q) /\ DOMAIN q = 1 .. n
  OBVIOUS
<1>2. q \in [1 .. n -> Range(q)] /\ \A x \in Range(q) : \E i \in 1 .. n : q[i] = x
  <2>1. q \in [1 .. n -> S] /\ Range(q) = {q[i] : i \in 1 .. n}
    BY <1>1 DEF Range
  <2> QED
    BY <2>1
<1>3. q \in Bijection(1 .. n, Range(q))
  BY <1>1, <1>2 DEF OnceEach, Bijection, Injection, Surjection, IsInjective
<1>4. ExistsBijection(1 .. n, Range(q))
  BY <1>3 DEF ExistsBijection
<1>5. IsFiniteSet(1 .. n) /\ Cardinality(1 .. n) = n
  BY FS_Interval
<1> QED
  BY <1>1, <1>4, <1>5, FS_Bijection

\* The pool has each of its headers once.
LEMMA PoolOnce ==
  ASSUME NEW H \in Recommended
  PROVE  SetToSeq(H) \in Seq(Headers) /\ OnceEach(SetToSeq(H))
<1>0. IsFiniteSet(H) /\ H \subseteq Headers
  BY HeadersOK, RecommendedOK, FS_Subset
<1>1. PICK n \in Nat : n = Cardinality(H) /\ ExistsBijection(1 .. n, H)
  BY <1>0, FS_CardinalityType
<1>2. PICK g \in [1 .. n -> H] : IsInjective(g)
  BY <1>1 DEF ExistsBijection, Bijection, Injection
<1>3. SetToSeq(H) \in [1 .. n -> H] /\ IsInjective(SetToSeq(H))
  BY <1>1, <1>2 DEF SetToSeq
<1> QED
  BY <1>0, <1>1, <1>3 DEF IsInjective, OnceEach
----------------------------------------------------------------------------
(* The inductive invariant.                                                 *)

\* What a part of a picture, a header and a message look like.
Datas      == {NoData} \cup {<<x>> : x \in (0 .. 1) \X (1 .. MaxParts) \X BOOLEAN}
HeldHeader == [header : Headers, data : Datas, end : BOOLEAN, failed : BOOLEAN]
HostMsgs   == {m \in [msg : {"part"}, header : Headers, part : HeldHeader] :
                   m.header = m.part.header}
              \cup [msg : {"reply"}, status : {"ok", "failed"}]
NoHeader   == [header |-> "none", data |-> NoData, end |-> FALSE, failed |-> FALSE]
Steps      == {"idle", "begin", "copy", "release", "resend", "send", "post", "done"}

CallsTyped(q) == IsList(q) /\ \A i \in DOMAIN q :
                     /\ q[i].msg \in {"call", "buffer"}
                     /\ q[i].msg = "buffer" => q[i].header \in Headers

WireTyped ==
    /\ CallsTyped(toVC) /\ toHost \in Seq(HostMsgs) /\ bulks \in Seq(HeldHeader)
    /\ vc \in [held : Seq(Headers), captures : BOOLEAN, frame : 0 .. 1,
               part : 1 .. MaxParts, disables : BOOLEAN]
    /\ reply \in {"none", "sent", "ok", "failed"}

PortTyped ==
    /\ port \in [isEnabled : BOOLEAN, hasPool : BOOLEAN, isPaused : BOOLEAN,
                 queue : Seq(Headers), transit : Int]
    /\ callbackQueue \in Seq(HeldHeader)
    /\ action \in [sema : Nat, mutex : {"none", "worker", "action", "deleted"}]
    /\ pool \in Seq(Headers) /\ lost \in SUBSET Headers
    /\ trouble \in 0 .. MaxTrouble

CallbackTyped ==
    /\ cb \in [Threads -> [at : Steps, of : HeldHeader \cup {NoHeader},
                           next : Headers \cup {"none"}]]
    /\ \A t \in Threads : /\ At(t, "copy") \/ At(t, "release") => Buffer(t) \in HeldHeader
                          /\ At(t, "send") => cb[t].next \in Headers

WorkerTyped ==
    /\ stills \in BOOLEAN /\ preview \in BOOLEAN /\ stop \in BOOLEAN /\ db \in BOOLEAN
    /\ life \in {"runs", "ended", "exited", "crashed"}
    /\ complete \in Nat /\ offset \in Nat /\ size \in Nat
    /\ created \subseteq {"camera", "preview", "encoder"} /\ links \subseteq Tunnels
    /\ enabled \subseteq Ports /\ payloads \in {0} \cup {Cardinality(H) : H \in Recommended}

Typed == WireTyped /\ PortTyped /\ CallbackTyped /\ WorkerTyped

\* No header is twice in a queue.
Once == /\ OnceSent(toVC) /\ OnceEach(vc.held) /\ OnceSent(toHost) /\ OnceHeld(bulks)
        /\ OnceHeld(callbackQueue) /\ OnceEach(port.queue) /\ OnceEach(pool)

Counted == port.transit = Cardinality(OutOf(Contents)) + Cardinality(Busy)

\* Before the pool is created there is no header anywhere.
Fresh == /\ \A p \in Places : Contents[p] = {}
         /\ action.sema = 0 /\ \A t \in Threads : At(t, "idle")

NoPool == {"pool_create"}
Todo ==
    \/ Good(todo, NoPool, TRUE)
    \/ Before(todo, NoPool, TRUE, <<Do("pool_create", ""), Do("start", "")>>) /\ Fresh

Kept == Typed /\ Once /\ Apart(Contents) /\ Counted

----------------------------------------------------------------------------
(* The contents, place by place.                                            *)

ContentsAre ==
    /\ Contents["toVC"] = MsgHeaders(toVC) /\ Contents["held"] = Range(vc.held)
    /\ Contents["toHost"] = MsgHeaders(toHost) /\ Contents["bulks"] = HeadersOf(bulks)
    /\ Contents["callbacks"] = HeadersOf(callbackQueue)
    /\ Contents["queue"] = Range(port.queue) /\ Contents["pool"] = Range(pool)
    /\ Contents["worker"] = InHand("worker") /\ Contents["action"] = InHand("action")
    /\ Contents["lost"] = lost

LEMMA AllPlaces ==
  \A p \in Places : p \in {"toVC", "held", "toHost", "bulks", "callbacks", "queue", "pool",
                           "worker", "action", "lost"}
BY DEF Places, OutPlaces

LEMMA ContentsNow == ContentsAre
BY DEF ContentsAre, Contents, Places, OutPlaces

LEMMA ContentsThen == ContentsAre'
<1>1. ContentsAre
  BY ContentsNow
<1> QED
  BY <1>1, PTL

LEMMA RangeTyped ==
  ASSUME NEW S, NEW q \in Seq(S)
  PROVE  Range(q) \in SUBSET S
BY DEF Range

LEMMA HeadersTyped ==
  ASSUME NEW q \in Seq(HeldHeader)
  PROVE  HeadersOf(q) \in SUBSET Headers
<1>1. \A i \in DOMAIN q : q[i].header \in Headers
  <2>1. \A i \in DOMAIN q : q[i] \in HeldHeader
    OBVIOUS
  <2> QED
    BY <2>1 DEF HeldHeader
<1> QED
  BY <1>1 DEF HeadersOf

LEMMA MsgHeadersTyped ==
  /\ \A q : CallsTyped(q) => MsgHeaders(q) \in SUBSET Headers
  /\ \A q \in Seq(HostMsgs) : MsgHeaders(q) \in SUBSET Headers
<1>1. ASSUME NEW q, CallsTyped(q) PROVE MsgHeaders(q) \in SUBSET Headers
  <2>1. \A i \in BuffersIn(q) : q[i].header \in Headers
    BY <1>1 DEF CallsTyped, BuffersIn, IsBuffer
  <2> QED
    BY <2>1 DEF MsgHeaders
<1>2. ASSUME NEW q \in Seq(HostMsgs) PROVE MsgHeaders(q) \in SUBSET Headers
  <2>1. \A i \in BuffersIn(q) : q[i] \in HostMsgs /\ q[i].msg \in {"buffer", "part"}
    BY DEF BuffersIn, IsBuffer
  <2>2. \A m \in HostMsgs : m.msg \in {"buffer", "part"} => m.header \in Headers
    BY DEF HostMsgs
  <2> QED
    BY <2>1, <2>2 DEF MsgHeaders
<1> QED
  BY <1>1, <1>2

LEMMA InHandTyped ==
  ASSUME CallbackTyped, NEW t \in Threads
  PROVE  InHand(t) \in SUBSET Headers
<1>1. /\ At(t, "copy") \/ At(t, "release") => Buffer(t) \in HeldHeader
      /\ At(t, "send") => cb[t].next \in Headers
  BY DEF CallbackTyped
<1>2. At(t, "copy") \/ At(t, "release") => cb[t].of.header \in Headers
  BY <1>1 DEF Buffer, HeldHeader
<1> QED
  BY <1>1, <1>2 DEF InHand, At

LEMMA ContentsTyped == Typed => Contents \in Contained
<1> SUFFICES ASSUME Typed PROVE Contents \in Contained
  OBVIOUS
<1>1. MsgHeaders(toVC) \in SUBSET Headers /\ MsgHeaders(toHost) \in SUBSET Headers
  BY MsgHeadersTyped DEF Typed, WireTyped
<1>2. HeadersOf(bulks) \in SUBSET Headers /\ HeadersOf(callbackQueue) \in SUBSET Headers
  BY HeadersTyped DEF Typed, WireTyped, PortTyped
<1>3. /\ Range(vc.held) \in SUBSET Headers /\ Range(port.queue) \in SUBSET Headers
      /\ Range(pool) \in SUBSET Headers
  BY RangeTyped DEF Typed, WireTyped, PortTyped
<1>4. InHand("worker") \in SUBSET Headers /\ InHand("action") \in SUBSET Headers
  BY InHandTyped DEF Typed, Threads
<1>5. lost \in SUBSET Headers
  BY DEF Typed, PortTyped
<1>6. \A p \in Places : Contents[p] \in SUBSET Headers
  BY <1>1, <1>2, <1>3, <1>4, <1>5, AllPlaces, ContentsNow DEF ContentsAre
<1> QED
  BY <1>6 DEF Contained, Contents

LEMMA ContentsTypedThen == Typed' => Contents' \in Contained
<1>1. Typed => Contents \in Contained
  BY ContentsTyped
<1>2. (Typed => Contents \in Contained)'
  BY <1>1, PTL
<1> QED
  BY <1>2 DEF Contained
----------------------------------------------------------------------------
(* Steps that leave every header where it is.                               *)

LEMMA WireUnchanged ==
  ASSUME WireTyped, UNCHANGED <<toVC, toHost, bulks, vc, reply>>
  PROVE  WireTyped'
BY DEF WireTyped, CallsTyped

LEMMA PortUnchanged ==
  ASSUME PortTyped, UNCHANGED <<port, callbackQueue, action, pool, lost, trouble>>
  PROVE  PortTyped'
BY DEF PortTyped

LEMMA CallbackUnchanged ==
  ASSUME CallbackTyped, UNCHANGED cb
  PROVE  CallbackTyped' /\ Busy' = Busy /\ \A t : InHand(t)' = InHand(t)
BY DEF CallbackTyped, At, Buffer, Busy, InHand

LEMMA WorkerUnchanged ==
  ASSUME WorkerTyped, UNCHANGED <<stills, preview, stop, db, life, complete, offset, size,
                                  created, links, enabled, payloads>>
  PROVE  WorkerTyped'
BY DEF WorkerTyped

\* Nothing moves.
Unmoved ==
    /\ UNCHANGED <<toVC, toHost, bulks, callbackQueue, pool, lost>>
    /\ vc'.held = vc.held /\ port'.queue = port.queue /\ port'.transit = port.transit
    /\ \A t \in Threads : InHand(t)' = InHand(t)
    /\ Busy' = Busy

LEMMA NothingMoves ==
  ASSUME Once, Apart(Contents), Counted, Unmoved
  PROVE  Once' /\ Apart(Contents)' /\ Counted' /\ Contents' = Contents
<1>1. Once'
  BY DEF Once, Unmoved, OnceSent, OnceEach, OnceHeld, BuffersIn
<1>2. Contents' = Contents
  BY DEF Contents, Unmoved, MsgHeaders, BuffersIn, HeadersOf, Threads
<1> QED
  BY <1>1, <1>2 DEF Apart, Counted, Unmoved, OutOf

LEMMA CallsAppended ==
  ASSUME NEW q, CallsTyped(q), NEW m, m.msg \in {"call", "buffer"},
         m.msg = "buffer" => m.header \in Headers
  PROVE  CallsTyped(Append(q, m))
<1>1. PICK S : q \in Seq(S)
  BY DEF CallsTyped, IsList
<1>2. PICK T : q \in Seq(T) /\ m \in T
  <2>1. q \in Seq(S \cup {m})
    BY <1>1, SeqMonotonic
  <2> QED
    BY <2>1
<1>a. PICK n \in Nat : n = Len(q) /\ DOMAIN q = 1 .. n
  BY <1>2
<1>b. Append(q, m) \in Seq(T)
  BY <1>2
<1>3. PICK r \in Seq(T) : r = Append(q, m)
  BY <1>b
<1>4. DOMAIN r = 1 .. n + 1 /\ r[n + 1] = m /\ \A i \in 1 .. n : r[i] = q[i]
  BY <1>2, <1>3, <1>a
<1>5. \A i \in 1 .. n + 1 : i \in 1 .. n \/ i = n + 1
  OBVIOUS
<1> QED
  BY <1>a, <1>3, <1>4, <1>5 DEF CallsTyped, IsList

LEMMA CallsTail ==
  ASSUME NEW q, CallsTyped(q), q # <<>>
  PROVE  /\ CallsTyped(Tail(q)) /\ Head(q).msg \in {"call", "buffer"}
         /\ Head(q).msg = "buffer" => Head(q).header \in Headers
<1>1. PICK S : q \in Seq(S)
  BY DEF CallsTyped, IsList
<1>a. PICK n \in Nat : n = Len(q) /\ DOMAIN q = 1 .. n /\ n > 0
  BY <1>1
<1>2. PICK r \in Seq(S) : r = Tail(q)
  BY <1>1, HeadTailProperties
<1>3. /\ DOMAIN r = 1 .. n - 1 /\ \A i \in 1 .. n - 1 : r[i] = q[i + 1] /\ i + 1 \in 1 .. n
      /\ Head(q) = q[1] /\ 1 \in 1 .. n
  BY <1>1, <1>a, <1>2, HeadTailProperties
<1> QED
  BY <1>a, <1>2, <1>3 DEF CallsTyped, IsList

LEMMA WorkerCallsKeeps ==
  ASSUME Kept, WorkerCalls
  PROVE  Kept' /\ Contents' = Contents
<1> DEFINE m == CallMsg(Head(todo).what, Arg)
<1>1. /\ toVC' = Append(toVC, m) /\ reply' = "sent"
      /\ UNCHANGED <<toHost, bulks, vc, portvars, poolvars, trouble>>
      /\ UNCHANGED <<workervars, complete, cb, picturevars, setupvars>>
  BY DEF WorkerCalls, SendWait
<1>2. m.msg = "call" /\ ~IsBuffer(m)
  BY DEF CallMsg, IsBuffer
<1> HIDE DEF m
<1>3. WireTyped'
  <2>1. CallsTyped(Append(toVC, m))
    BY <1>2, CallsAppended DEF Kept, Typed, WireTyped
  <2> QED
    BY <1>1, <2>1 DEF Kept, Typed, WireTyped, CallsTyped
<1>4. PortTyped' /\ WorkerTyped' /\ CallbackTyped' /\ Busy' = Busy
      /\ \A t : InHand(t)' = InHand(t)
  BY <1>1, PortUnchanged, WorkerUnchanged, CallbackUnchanged
     DEF Kept, Typed, portvars, poolvars, workervars, picturevars, setupvars
<1>5. OnceSent(toVC') /\ MsgHeaders(toVC') = MsgHeaders(toVC)
  <2>1. PICK S : toVC \in Seq(S)
    BY DEF Kept, Typed, WireTyped, CallsTyped, IsList
  <2>2. toVC \in Seq(S \cup {m})
    BY <2>1, SeqMonotonic
  <2> QED
    BY <1>1, <1>2, <2>2, AppendSent DEF Kept, Once
<1>6. Contents' = Contents
  <2>1. MsgHeaders(toVC)' = MsgHeaders(toVC)
    BY <1>5 DEF MsgHeaders, BuffersIn
  <2>2. /\ MsgHeaders(toHost)' = MsgHeaders(toHost) /\ HeadersOf(bulks)' = HeadersOf(bulks)
        /\ HeadersOf(callbackQueue)' = HeadersOf(callbackQueue)
    BY <1>1 DEF MsgHeaders, BuffersIn, HeadersOf, portvars
  <2> QED
    BY <1>1, <1>4, <2>1, <2>2 DEF Contents, portvars, poolvars
<1>7. Once'
  BY <1>1, <1>5 DEF Kept, Once, portvars, poolvars, OnceSent, OnceEach, OnceHeld, BuffersIn
<1> QED
  BY <1>1, <1>3, <1>4, <1>6, <1>7 DEF Kept, Typed, Apart, Counted, OutOf, portvars
\* Steps that only change what the worker has left to do and the like.
LEMMA LightKeeps ==
  ASSUME Kept, UNCHANGED <<mmalvars, cb>>, WorkerTyped'
  PROVE  Kept' /\ Contents' = Contents
<1>1. UNCHANGED <<toVC, toHost, bulks, vc, reply, port, callbackQueue, action, pool, lost, trouble>>
  BY DEF mmalvars, wirevars, portvars, poolvars
<1>2. WireTyped' /\ PortTyped' /\ CallbackTyped' /\ Busy' = Busy /\ \A t : InHand(t)' = InHand(t)
  BY <1>1, WireUnchanged, PortUnchanged, CallbackUnchanged DEF Kept, Typed
<1>3. Unmoved
  BY <1>1, <1>2 DEF Unmoved
<1>4. Once' /\ Apart(Contents)' /\ Counted' /\ Contents' = Contents
  BY <1>3, NothingMoves DEF Kept
<1> QED
  BY <1>2, <1>4 DEF Kept, Typed

LEMMA ThenTyped ==
  ASSUME Kept, UNCHANGED <<stills, preview, stop, db, offset, size, created, links, enabled,
                           payloads>>,
         complete' \in Nat, life' \in {"runs", "ended", "exited", "crashed"}
  PROVE  WorkerTyped'
BY DEF Kept, Typed, WorkerTyped

LEMMA LightSteps ==
  ASSUME Kept, WorkerChooses \/ WorkerEnds \/ WorkerAwaits \/ WorkerDrained \/ Stop
  PROVE  Kept' /\ Contents' = Contents
<1>1. CASE WorkerChooses
  <2>1. UNCHANGED <<stills, preview, stop>>
    BY <1>1 DEF WorkerChooses, Then
  <2>2. WorkerTyped'
    BY <1>1, <2>1, ThenTyped DEF Kept, Typed, WorkerTyped, WorkerChooses, picturevars, setupvars
  <2> QED
    BY <1>1, <2>2, LightKeeps DEF WorkerChooses
<1>2. CASE WorkerEnds
  <2>1. WorkerTyped'
    BY <1>2, ThenTyped DEF Kept, Typed, WorkerTyped, WorkerEnds, Then, picturevars, setupvars
  <2> QED
    BY <1>2, <2>1, LightKeeps DEF WorkerEnds
<1>3. CASE WorkerAwaits
  <2>1. complete' \in Nat
    BY <1>3 DEF Kept, Typed, WorkerTyped, WorkerAwaits
  <2>2. WorkerTyped'
    BY <1>3, <2>1, ThenTyped DEF Kept, Typed, WorkerTyped, WorkerAwaits, Then, picturevars, setupvars
  <2> QED
    BY <1>3, <2>2, LightKeeps DEF WorkerAwaits
<1>4. CASE WorkerDrained
  <2>1. WorkerTyped'
    BY <1>4, ThenTyped DEF Kept, Typed, WorkerTyped, WorkerDrained, Then, picturevars, setupvars
  <2> QED
    BY <1>4, <2>1, LightKeeps DEF WorkerDrained
<1>5. CASE Stop
  <2>1. WorkerTyped'
    BY <1>5 DEF Kept, Typed, WorkerTyped, Stop, picturevars, setupvars
  <2> QED
    BY <1>5, <2>1, LightKeeps DEF Stop
<1> QED
  BY <1>1, <1>2, <1>3, <1>4, <1>5

\* The step that is next is one that the theorems know, or the creation of
\* the pool.
LEMMA Prelude ==
  /\ IsList(<<Do("pool_create", ""), Do("start", "")>>)
  /\ Head(<<Do("pool_create", ""), Do("start", "")>>).do = "pool_create"
  /\ Tail(<<Do("pool_create", ""), Do("start", "")>>) = <<Do("start", "")>>
<1>1. PICK a, b : a = Do("pool_create", "") /\ b = Do("start", "")
  OBVIOUS
<1>2. <<a, b>> \in Seq({a, b}) /\ Head(<<a, b>>) = a /\ Tail(<<a, b>>) = <<b>>
  OBVIOUS
<1>3. a.do = "pool_create"
  BY <1>1 DEF Do
<1> QED
  BY <1>1, <1>2, <1>3 DEF IsList

LEMMA CallNext ==
  ASSUME Todo, todo # <<>>
  PROVE  \/ /\ GoodStep(Head(todo), NoPool, TRUE) /\ Head(todo).do # "pool_create"
            /\ Head(todo).do = "call" => CallOK(Head(todo).what, Arg, NoPool)
         \/ /\ todo = <<Do("pool_create", ""), Do("start", "")>> /\ Fresh
            /\ Head(todo).do = "pool_create"
<1>1. ASSUME GoodStep(Head(todo), NoPool, TRUE)
      PROVE  /\ Head(todo).do # "pool_create"
             /\ Head(todo).do = "call" => CallOK(Head(todo).what, Arg, NoPool)
  BY <1>1, GoodThen DEF Arg, GoodStep, Closed, NoPool
<1>2. CASE Good(todo, NoPool, TRUE)
  BY <1>1, <1>2, GoodTail
<1>3. CASE Before(todo, NoPool, TRUE, <<Do("pool_create", ""), Do("start", "")>>) /\ Fresh
  BY <1>1, <1>3, BeforeTail, Prelude
<1> QED
  BY <1>2, <1>3 DEF Todo

LEMMA WorkerReturnsKeeps ==
  ASSUME Kept, Todo, WorkerReturns
  PROVE  Kept' /\ Contents' = Contents
<1>1. /\ UNCHANGED <<toVC, toHost, bulks, vc, callbackQueue, action, pool, lost, trouble>>
      /\ UNCHANGED <<stills, preview, stop, life, complete, cb, db, buf, offset, size, payloads>>
      /\ reply' = "none" /\ Is("call")
      /\ port' = [port EXCEPT !.isPaused = @ \/ "encoder" \in
                     Noted({}, "component_disable", "component_enable")]
      /\ created' = Noted(created, "component_create", "component_destroy")
      /\ links' = Noted(links, "port_connect", "port_disconnect")
      /\ enabled' = Noted(enabled, "port_enable", "port_disable")
  BY DEF WorkerReturns, Then, wirevars, poolvars, picturevars
<1>2. CallOK(Head(todo).what, Arg, NoPool)
  BY <1>1, CallNext DEF Is
<1>3. WireTyped' /\ CallbackTyped' /\ Busy' = Busy /\ \A t : InHand(t)' = InHand(t)
  BY <1>1, CallbackUnchanged DEF Kept, Typed, WireTyped, CallsTyped
<1>4. /\ created' \subseteq {"camera", "preview", "encoder"} /\ links' \subseteq Tunnels
      /\ enabled' \subseteq Ports
  BY <1>1, <1>2 DEF Noted, CallOK, Kept, Typed, WorkerTyped
<1>5. WorkerTyped'
  BY <1>1, <1>4 DEF Kept, Typed, WorkerTyped
<1>6. PICK x \in BOOLEAN : port' = [port EXCEPT !.isPaused = x]
  <2>1. (port.isPaused \/ "encoder" \in Noted({}, "component_disable", "component_enable")) \in BOOLEAN
    OBVIOUS
  <2> QED
    BY <1>1, <2>1
<1>7. port'.queue = port.queue /\ port'.transit = port.transit /\ PortTyped'
  BY <1>1, <1>6 DEF Kept, Typed, PortTyped
<1>8. Unmoved
  BY <1>1, <1>3, <1>7 DEF Unmoved
<1>9. Once' /\ Apart(Contents)' /\ Counted' /\ Contents' = Contents
  BY <1>8, NothingMoves DEF Kept
<1> QED
  BY <1>3, <1>5, <1>7, <1>9 DEF Kept, Typed
LEMMA WorkerLocksKeeps ==
  ASSUME Kept, WorkerLocks
  PROVE  Kept' /\ Contents' = Contents
<1>1. /\ UNCHANGED <<toVC, toHost, bulks, vc, reply, port, callbackQueue, pool, lost, trouble>>
      /\ UNCHANGED <<stills, preview, stop, life, complete, cb, db, buf, offset, size, created,
                     links, enabled, payloads>>
      /\ \/ ActionLock("worker") \/ ActionUnlock \/ ActionQuits \/ UNCHANGED action
  BY DEF WorkerLocks, Then, wirevars, poolvars, picturevars, setupvars
<1>2. PortTyped'
  BY <1>1 DEF Kept, Typed, PortTyped, ActionLock, ActionUnlock, ActionQuits
<1>3. WireTyped' /\ CallbackTyped' /\ WorkerTyped' /\ Busy' = Busy /\ \A t : InHand(t)' = InHand(t)
  BY <1>1, WireUnchanged, CallbackUnchanged, WorkerUnchanged DEF Kept, Typed
<1>4. Unmoved
  BY <1>1, <1>3 DEF Unmoved
<1>5. Once' /\ Apart(Contents)' /\ Counted' /\ Contents' = Contents
  BY <1>4, NothingMoves DEF Kept
<1> QED
  BY <1>2, <1>3, <1>5 DEF Kept, Typed

\* A callback goes on without moving a header.
LEMMA CallbackGoesOn ==
  ASSUME CallbackTyped, NEW t \in Threads, NEW s \in Steps, cb' = [cb EXCEPT ![t].at = s],
         \/ cb[t].at = "copy" /\ s = "release"
         \/ cb[t].at \in {"release", "resend", "post"} /\ s \in {"resend", "post", "done"}
         \/ cb[t].at \in {"idle", "begin"} /\ s \in {"idle", "begin"}
  PROVE  /\ CallbackTyped' /\ Busy' = Busy
         /\ \A u \in Threads : u # t \/ cb[t].at # "release" => InHand(u)' = InHand(u)
         /\ InHand(t)' = IF s = "release" THEN InHand(t) ELSE {}
<1>1. /\ cb' \in [Threads -> [at : Steps, of : HeldHeader \cup {NoHeader},
                              next : Headers \cup {"none"}]]
      /\ cb'[t].at = s /\ cb'[t].of = cb[t].of /\ cb'[t].next = cb[t].next
      /\ \A u \in Threads : u # t => cb'[u] = cb[u]
  BY DEF CallbackTyped
<1>2. CallbackTyped'
  BY <1>1 DEF CallbackTyped, At, Buffer
<1>3. \A u \in Threads : u # t => (InHand(u)' = InHand(u)) /\ (u \in Busy' <=> u \in Busy)
  BY <1>1 DEF InHand, Busy, At
<1>4. t \in Busy' <=> t \in Busy
  BY <1>1 DEF Busy, At
<1>5. InHand(t)' = IF s = "release" THEN InHand(t) ELSE {}
  BY <1>1 DEF InHand
<1>6. cb[t].at # "release" => InHand(t)' = InHand(t)
  BY <1>1, <1>5 DEF InHand
<1>7. Busy' = Busy
  BY <1>3, <1>4 DEF Busy
<1> QED
  BY <1>2, <1>3, <1>5, <1>6, <1>7

LEMMA ActionWakesKeeps ==
  ASSUME Kept, ActionWakes
  PROVE  Kept' /\ Contents' = Contents
<1>1. /\ UNCHANGED <<toVC, toHost, bulks, vc, reply, port, callbackQueue, pool, lost, trouble>>
      /\ UNCHANGED <<stills, preview, stop, life, complete, db, buf, offset, size, created,
                     links, enabled, payloads>>
      /\ At("action", "idle") /\ action.sema > 0
      /\ action' = [sema |-> action.sema - 1, mutex |-> "action"]
      /\ cb' = [cb EXCEPT !["action"].at = "begin"]
  BY DEF ActionWakes, Goes, wirevars, poolvars, picturevars, setupvars, workervars
<1>2. PortTyped'
  BY <1>1 DEF Kept, Typed, PortTyped
<1>3. "action" \in Threads /\ "begin" \in Steps /\ cb["action"].at = "idle"
  BY <1>1 DEF Threads, Steps, At
<1>4. CallbackTyped' /\ Busy' = Busy /\ \A t \in Threads : InHand(t)' = InHand(t)
  BY <1>1, <1>3, CallbackGoesOn DEF Kept, Typed
<1>5. WireTyped' /\ WorkerTyped'
  BY <1>1, WireUnchanged, WorkerUnchanged DEF Kept, Typed
<1>6. Unmoved
  BY <1>1, <1>4 DEF Unmoved
<1>7. Once' /\ Apart(Contents)' /\ Counted' /\ Contents' = Contents
  BY <1>6, NothingMoves DEF Kept
<1> QED
  BY <1>2, <1>4, <1>5, <1>7 DEF Kept, Typed

LEMMA CopyKeeps ==
  ASSUME Kept, NEW t \in Threads, Copy(t)
  PROVE  Kept' /\ Contents' = Contents
<1>1. /\ UNCHANGED <<toVC, toHost, bulks, vc, reply, port, callbackQueue, action, pool, lost, trouble>>
      /\ UNCHANGED <<stills, preview, stop, life, complete, created, links, enabled, payloads>>
      /\ cb[t].at = "copy" /\ cb' = [cb EXCEPT ![t].at = "release"]
  BY DEF Copy, Goes, At, mmalvars, wirevars, portvars, poolvars, setupvars, workervars
<1>2. CallbackTyped' /\ Busy' = Busy /\ \A u \in Threads : InHand(u)' = InHand(u)
  BY <1>1, CallbackGoesOn DEF Kept, Typed, Steps
<1>3. offset + Len(Buffer(t).data) \in Nat
  <2>1. Buffer(t).data \in Datas
    BY <1>1 DEF Kept, Typed, CallbackTyped, At, Buffer, HeldHeader
  <2>2. \A d \in Datas : Len(d) \in Nat
    BY DEF Datas, NoData
  <2> QED
    BY <2>1, <2>2 DEF Kept, Typed, WorkerTyped
<1>4. WorkerTyped'
  <2>1. offset' \in Nat /\ size' \in Nat /\ db' \in BOOLEAN
    <3>1. /\ offset' = 0 \/ offset' = offset + Len(Buffer(t).data)
          /\ size' = size \/ size' = offset + Len(Buffer(t).data)
      BY DEF Copy
    <3>2. db' = FALSE \/ db' = (db \/ Buffer(t).data # NoData)
      BY DEF Copy
    <3>3. db' \in BOOLEAN
      BY <3>2
    <3> QED
      BY <1>3, <3>1, <3>3 DEF Kept, Typed, WorkerTyped
  <2> QED
    BY <1>1, <2>1 DEF Kept, Typed, WorkerTyped
<1>5. WireTyped' /\ PortTyped'
  BY <1>1, WireUnchanged, PortUnchanged DEF Kept, Typed
<1>6. Unmoved
  BY <1>1, <1>2 DEF Unmoved
<1>7. Once' /\ Apart(Contents)' /\ Counted' /\ Contents' = Contents
  BY <1>6, NothingMoves DEF Kept
<1> QED
  BY <1>2, <1>4, <1>5, <1>7 DEF Kept, Typed

LEMMA CallbackPostsKeeps ==
  ASSUME Kept, NEW t \in Threads, CallbackPosts(t)
  PROVE  Kept' /\ Contents' = Contents
<1>1. /\ UNCHANGED <<toVC, toHost, bulks, vc, reply, port, callbackQueue, action, pool, lost, trouble>>
      /\ UNCHANGED <<stills, preview, stop, life, db, offset, size, created, links, enabled, payloads>>
      /\ cb[t].at = "post" /\ cb' = [cb EXCEPT ![t].at = "done"]
      /\ complete' = complete + 1 \/ complete' = complete
  BY DEF CallbackPosts, Goes, At, mmalvars, wirevars, portvars, poolvars, setupvars, workervars,
         picturevars
<1>2. CallbackTyped' /\ Busy' = Busy /\ \A u \in Threads : InHand(u)' = InHand(u)
  BY <1>1, CallbackGoesOn DEF Kept, Typed, Steps
<1>3. WorkerTyped'
  BY <1>1 DEF Kept, Typed, WorkerTyped
<1>4. WireTyped' /\ PortTyped'
  BY <1>1, WireUnchanged, PortUnchanged DEF Kept, Typed
<1>5. Unmoved
  BY <1>1, <1>2 DEF Unmoved
<1>6. Once' /\ Apart(Contents)' /\ Counted' /\ Contents' = Contents
  BY <1>5, NothingMoves DEF Kept
<1> QED
  BY <1>2, <1>3, <1>4, <1>6 DEF Kept, Typed

----------------------------------------------------------------------------
(* Steps that move one header.                                              *)

LEMMA SamePlaces ==
  /\ UNCHANGED toVC => Contents'["toVC"] = Contents["toVC"]
  /\ vc'.held = vc.held => Contents'["held"] = Contents["held"]
  /\ UNCHANGED toHost => Contents'["toHost"] = Contents["toHost"]
  /\ UNCHANGED bulks => Contents'["bulks"] = Contents["bulks"]
  /\ UNCHANGED callbackQueue => Contents'["callbacks"] = Contents["callbacks"]
  /\ port'.queue = port.queue => Contents'["queue"] = Contents["queue"]
  /\ UNCHANGED pool => Contents'["pool"] = Contents["pool"]
  /\ UNCHANGED lost => Contents'["lost"] = Contents["lost"]
  /\ UNCHANGED cb => /\ Contents'["worker"] = Contents["worker"]
                     /\ Contents'["action"] = Contents["action"]
  /\ \A t \in Threads : Contents[t] = InHand(t) /\ Contents'[t] = InHand(t)'
<1>1. UNCHANGED toVC => MsgHeaders(toVC)' = MsgHeaders(toVC)
  BY DEF MsgHeaders, BuffersIn
<1>2. UNCHANGED toHost => MsgHeaders(toHost)' = MsgHeaders(toHost)
  BY DEF MsgHeaders, BuffersIn
<1>3. /\ UNCHANGED bulks => HeadersOf(bulks)' = HeadersOf(bulks)
      /\ UNCHANGED callbackQueue => HeadersOf(callbackQueue)' = HeadersOf(callbackQueue)
  BY DEF HeadersOf
<1>4. /\ vc'.held = vc.held => Range(vc.held)' = Range(vc.held)
      /\ port'.queue = port.queue => Range(port.queue)' = Range(port.queue)
      /\ UNCHANGED pool => Range(pool)' = Range(pool)
  BY DEF Range
<1>5. UNCHANGED cb => \A t : InHand(t)' = InHand(t)
  BY DEF InHand
<1>6. \A t \in Threads : Contents[t] = InHand(t) /\ Contents'[t] = InHand(t)'
  BY ContentsNow, ContentsThen DEF ContentsAre, Threads
<1>7. UNCHANGED cb => /\ Contents'["worker"] = Contents["worker"]
                      /\ Contents'["action"] = Contents["action"]
  BY <1>5, <1>6 DEF Threads
<1> QED
  BY <1>1, <1>2, <1>3, <1>4, <1>6, <1>7, ContentsNow, ContentsThen DEF ContentsAre

LEMMA BusyFinite == IsFiniteSet(Busy) /\ Cardinality(Busy) \in Nat
<1>1. Busy \in SUBSET Threads /\ IsFiniteSet(Threads)
  <2>1. Threads = {"worker"} \cup {"action"}
    BY DEF Threads
  <2>2. IsFiniteSet({"worker"}) /\ IsFiniteSet({"action"})
    BY FS_Singleton
  <2> QED
    BY <2>1, <2>2, FS_Union DEF Busy
<1> QED
  BY <1>1, FS_Subset, FS_CardinalityType

LEMMA MovedHere ==
  ASSUME Typed, Apart(Contents), Typed', NEW p \in Places, NEW r \in Places, p # r,
         NEW b \in Contents[p],
         Contents'[p] = Contents[p] \ {b}, Contents'[r] = Contents[r] \cup {b},
         \A q \in Places \ {p, r} : Contents'[q] = Contents[q]
  PROVE  /\ Apart(Contents)'
         /\ (p \in OutPlaces <=> r \in OutPlaces) => OutOf(Contents)' = OutOf(Contents)
         /\ p \in OutPlaces /\ r \notin OutPlaces =>
                Cardinality(OutOf(Contents)') = Cardinality(OutOf(Contents)) - 1
         /\ p \notin OutPlaces /\ r \in OutPlaces =>
                Cardinality(OutOf(Contents)') = Cardinality(OutOf(Contents)) + 1
<1>1. PICK C, D : C = Contents /\ D = Contents'
  OBVIOUS
<1>2. C \in Contained /\ D \in Contained
  BY <1>1, ContentsTyped, ContentsTypedThen
<1>3. /\ Apart(D)
      /\ (p \in OutPlaces <=> r \in OutPlaces) => OutOf(D) = OutOf(C)
      /\ p \in OutPlaces /\ r \notin OutPlaces =>
             Cardinality(OutOf(D)) = Cardinality(OutOf(C)) - 1
      /\ p \notin OutPlaces /\ r \in OutPlaces =>
             Cardinality(OutOf(D)) = Cardinality(OutOf(C)) + 1
  <2>1. /\ Apart(C) /\ b \in C[p] /\ D[p] = C[p] \ {b} /\ D[r] = C[r] \cup {b}
        /\ \A q \in Places \ {p, r} : D[q] = C[q]
    BY <1>1
  <2> QED
    BY <1>2, <2>1, Moved
<1> QED
  BY <1>1, <1>3 DEF Apart, OutOf
LEMMA SameOnce ==
  ASSUME Once
  PROVE  /\ UNCHANGED toVC => OnceSent(toVC)'
         /\ vc'.held = vc.held => OnceEach(vc.held)'
         /\ UNCHANGED toHost => OnceSent(toHost)'
         /\ UNCHANGED bulks => OnceHeld(bulks)'
         /\ UNCHANGED callbackQueue => OnceHeld(callbackQueue)'
         /\ port'.queue = port.queue => OnceEach(port.queue)'
         /\ UNCHANGED pool => OnceEach(pool)'
<1>1. UNCHANGED toVC => OnceSent(toVC)'
  BY DEF Once, OnceSent, BuffersIn
<1>2. UNCHANGED toHost => OnceSent(toHost)'
  BY DEF Once, OnceSent, BuffersIn
<1>3. /\ vc'.held = vc.held => OnceEach(vc.held)'
      /\ port'.queue = port.queue => OnceEach(port.queue)'
      /\ UNCHANGED pool => OnceEach(pool)'
  BY DEF Once, OnceEach
<1>4. /\ UNCHANGED bulks => OnceHeld(bulks)'
      /\ UNCHANGED callbackQueue => OnceHeld(callbackQueue)'
  BY DEF Once, OnceHeld
<1> QED
  BY <1>1, <1>2, <1>3, <1>4

\* The count after a header has moved and a callback has begun or ended.
LEMMA CountedThen ==
  ASSUME Typed, Counted, NEW m \in {-1, 0, 1}, NEW n \in {-1, 0, 1},
         Cardinality(OutOf(Contents)') = Cardinality(OutOf(Contents)) + m,
         Cardinality(Busy') = Cardinality(Busy) + n,
         port'.transit = port.transit + (m + n)
  PROVE  Counted'
<1>1. PICK i \in Nat, j \in Nat : i = Cardinality(OutOf(Contents)) /\ j = Cardinality(Busy)
  BY OutFinite, ContentsTyped, BusyFinite
<1>2. port.transit = i + j
  BY <1>1 DEF Counted
<1>3. port'.transit = (i + m) + (j + n)
  BY <1>1, <1>2
<1> QED
  BY <1>1, <1>3 DEF Counted

LEMMA CallbackReleasesKeeps ==
  ASSUME Kept, NEW t \in Threads, CallbackReleases(t)
  PROVE  Kept'
<1> DEFINE b == cb[t].of.header
<1>1. /\ UNCHANGED <<toVC, toHost, bulks, vc, reply, port, callbackQueue, action, lost, trouble>>
      /\ UNCHANGED <<stills, preview, stop, life, complete, db, offset, size, created, links,
                     enabled, payloads>>
      /\ cb[t].at = "release" /\ cb' = [cb EXCEPT ![t].at = "resend"]
      /\ pool' = Append(pool, b)
  BY DEF CallbackReleases, Release, Goes, At, Buffer, mmalvars, wirevars, portvars, poolvars,
         setupvars, workervars, picturevars
<1>2. /\ CallbackTyped' /\ Busy' = Busy /\ InHand(t)' = {}
      /\ \A u \in Threads : u # t => InHand(u)' = InHand(u)
  BY <1>1, CallbackGoesOn DEF Kept, Typed, Steps
<1>3. InHand(t) = {b} /\ t \in Places /\ t \notin OutPlaces /\ "pool" \in Places
      /\ "pool" \notin OutPlaces /\ t # "pool"
  BY <1>1 DEF InHand, Threads, Places, OutPlaces
<1>4. Contents[t] = {b} /\ Contents'[t] = {}
  BY <1>2, <1>3, SamePlaces
<1>5. b \in Headers /\ b \notin Range(pool)
  <2>1. Contents[t] \cap Contents["pool"] = {} /\ Contents["pool"] = Range(pool)
    BY <1>3, ContentsNow DEF ContentsAre, Kept, Apart
  <2>2. Contents[t] \in SUBSET Headers
    BY <1>3, ContentsTyped DEF Kept, Contained
  <2> QED
    BY <1>4, <2>1, <2>2
<1>6. /\ pool' \in Seq(Headers) /\ Range(pool') = Range(pool) \cup {b} /\ OnceEach(pool')
  BY <1>1, <1>5, AppendEach DEF Kept, Typed, PortTyped, Once
<1>7. Typed'
  BY <1>1, <1>2, <1>6, WireUnchanged, WorkerUnchanged DEF Kept, Typed, PortTyped
<1>8. Once'
  BY <1>1, <1>6, SameOnce DEF Kept, Once, OnceEach
<1>9. Contents'["pool"] = Contents["pool"] \cup {b}
  BY <1>6, ContentsNow, ContentsThen DEF ContentsAre, Range
<1>10. ASSUME NEW q \in Places \ {t, "pool"} PROVE Contents'[q] = Contents[q]
  <2>1. q \in Threads => Contents'[q] = Contents[q]
    BY <1>2, <1>10, SamePlaces
  <2> QED
    BY <1>1, <1>10, <2>1, SamePlaces, AllPlaces DEF Threads
<1>11. Apart(Contents)' /\ OutOf(Contents)' = OutOf(Contents)
  <2>1. b \in Contents[t] /\ Contents'[t] = Contents[t] \ {b}
    BY <1>4
  <2> QED
    BY <1>3, <1>7, <1>9, <1>10, <2>1, MovedHere DEF Kept
<1>12. Counted'
  BY <1>1, <1>2, <1>11 DEF Kept, Counted
<1> QED
  BY <1>7, <1>8, <1>11, <1>12 DEF Kept

LEMMA CallbackGetsKeeps ==
  ASSUME Kept, NEW t \in Threads, CallbackGets(t)
  PROVE  Kept'
<1> DEFINE b == Head(pool)
<1>1. /\ UNCHANGED <<toVC, toHost, bulks, vc, reply, port, callbackQueue, action, lost, trouble>>
      /\ UNCHANGED <<stills, preview, stop, life, complete, db, offset, size, created, links,
                     enabled, payloads>>
      /\ cb[t].at = "resend"
  BY DEF CallbackGets, At, wirevars, portvars, setupvars, workervars, picturevars
<1>2. WireTyped' /\ WorkerTyped'
  BY <1>1, WireUnchanged, WorkerUnchanged DEF Kept, Typed
<1>3. CASE ~(port.isEnabled /\ pool # <<>>)
  <2>1. cb' = [cb EXCEPT ![t].at = "post"] /\ UNCHANGED pool
    BY <1>3 DEF CallbackGets, Goes
  <2>2. CallbackTyped' /\ Busy' = Busy /\ \A u \in Threads : InHand(u)' = InHand(u)
    BY <1>1, <2>1, CallbackGoesOn DEF Kept, Typed, Steps
  <2>3. PortTyped'
    BY <1>1, <2>1, PortUnchanged DEF Kept, Typed
  <2>4. Unmoved
    BY <1>1, <2>1, <2>2 DEF Unmoved
  <2> QED
    BY <1>2, <2>2, <2>3, <2>4, NothingMoves DEF Kept, Typed
<1>4. CASE port.isEnabled /\ pool # <<>>
  <2>1. cb' = [cb EXCEPT ![t].at = "send", ![t].next = b] /\ pool' = Tail(pool)
    BY <1>4 DEF CallbackGets, QueueGet
  <2>2. /\ b \in Headers /\ b \in Range(pool) /\ Tail(pool) \in Seq(Headers)
        /\ Range(Tail(pool)) = Range(pool) \ {b} /\ OnceEach(Tail(pool))
    BY <1>4, TailEach DEF Kept, Typed, PortTyped, Once
  <2> HIDE DEF b
  <2>3. /\ cb' \in [Threads -> [at : Steps, of : HeldHeader \cup {NoHeader},
                                next : Headers \cup {"none"}]]
        /\ cb'[t].at = "send" /\ cb'[t].next = b /\ \A u \in Threads : u # t => cb'[u] = cb[u]
    BY <2>1, <2>2 DEF Kept, Typed, CallbackTyped, Steps
  <2>4. CallbackTyped'
    BY <2>2, <2>3 DEF Kept, Typed, CallbackTyped, At, Buffer
  <2>5. InHand(t) = {} /\ InHand(t)' = {b} /\ \A u \in Threads : u # t => InHand(u)' = InHand(u)
    BY <1>1, <2>3 DEF InHand
  <2>6. Busy' = Busy
    BY <1>1, <2>3 DEF Busy, At
  <2>7. Typed'
    BY <1>1, <1>2, <2>1, <2>2, <2>4 DEF Kept, Typed, PortTyped
  <2>8. Once'
    BY <1>1, <2>1, <2>2, SameOnce DEF Kept, Once, OnceEach
  <2>9. /\ Contents'["pool"] = Contents["pool"] \ {b} /\ b \in Contents["pool"]
        /\ Contents'[t] = Contents[t] \cup {b}
    <3>1. Contents["pool"] = Range(pool) /\ Contents'["pool"] = Range(pool')
      BY ContentsNow, ContentsThen DEF ContentsAre, Range
    <3>2. Contents[t] = {} /\ Contents'[t] = {b}
      BY <2>5, SamePlaces
    <3> QED
      BY <2>1, <2>2, <3>1, <3>2
  <2>10. t \in Places /\ t \notin OutPlaces /\ "pool" \in Places /\ "pool" \notin OutPlaces /\ t # "pool"
    BY DEF Threads, Places, OutPlaces
  <2>11. ASSUME NEW q \in Places \ {"pool", t} PROVE Contents'[q] = Contents[q]
    <3>1. q \in Threads => Contents'[q] = Contents[q]
      BY <2>5, <2>11, SamePlaces
    <3> QED
      BY <1>1, <2>11, <3>1, SamePlaces, AllPlaces DEF Threads
  <2>12. Apart(Contents)' /\ OutOf(Contents)' = OutOf(Contents)
    BY <2>7, <2>9, <2>10, <2>11, MovedHere DEF Kept
  <2>13. Counted'
    BY <1>1, <2>6, <2>12 DEF Kept, Counted
  <2> QED
    BY <2>7, <2>8, <2>12, <2>13 DEF Kept
<1> QED
  BY <1>3, <1>4

\* A header that is sent is queued, on the wire or lost.
LEMMA BufferSent ==
  ASSUME Typed, Once, NEW b \in Headers, b \notin MsgHeaders(toVC), b \notin Range(port.queue),
         SendBuffer(b)
  PROVE  /\ CallsTyped(toVC') /\ OnceSent(toVC') /\ OnceEach(port'.queue)
         /\ port' \in [isEnabled : BOOLEAN, hasPool : BOOLEAN, isPaused : BOOLEAN,
                       queue : Seq(Headers), transit : Int]
         /\ lost' \in SUBSET Headers /\ trouble' \in 0 .. MaxTrouble
         /\ \/ /\ Range(port'.queue) = Range(port.queue) \cup {b}
               /\ port'.transit = port.transit + 1 /\ UNCHANGED <<toVC, lost>>
            \/ /\ MsgHeaders(toVC') = MsgHeaders(toVC) \cup {b}
               /\ port'.transit = port.transit + 1 /\ port'.queue = port.queue /\ UNCHANGED lost
            \/ lost' = lost \cup {b} /\ UNCHANGED <<toVC, port>>
<1>1. /\ port \in [isEnabled : BOOLEAN, hasPool : BOOLEAN, isPaused : BOOLEAN,
                   queue : Seq(Headers), transit : Int]
      /\ CallsTyped(toVC) /\ OnceSent(toVC) /\ OnceEach(port.queue) /\ lost \in SUBSET Headers
      /\ trouble \in 0 .. MaxTrouble
  BY DEF Typed, Once, WireTyped, PortTyped
<1>2. CASE /\ port' = [port EXCEPT !.transit = @ + 1, !.queue = Append(@, b)]
           /\ UNCHANGED <<toVC, lost, trouble>>
  <2>1. /\ Append(port.queue, b) \in Seq(Headers)
        /\ Range(Append(port.queue, b)) = Range(port.queue) \cup {b}
        /\ OnceEach(Append(port.queue, b))
    BY <1>1, AppendEach
  <2>2. /\ port'.queue = Append(port.queue, b) /\ port'.transit = port.transit + 1
        /\ port' \in [isEnabled : BOOLEAN, hasPool : BOOLEAN, isPaused : BOOLEAN,
                      queue : Seq(Headers), transit : Int]
    <3>1. PICK n \in Int : n = port.transit + 1
      BY <1>1
    <3>2. PICK q \in Seq(Headers) : q = Append(port.queue, b)
      BY <2>1
    <3>3. port' = [port EXCEPT !.transit = n, !.queue = q]
      BY <1>2, <3>1, <3>2
    <3> QED
      BY <1>1, <3>1, <3>2, <3>3
  <2> QED
    BY <1>1, <1>2, <2>1, <2>2
<1>3. CASE /\ toVC' = Append(toVC, BufferMsg(b)) /\ port' = [port EXCEPT !.transit = @ + 1]
           /\ UNCHANGED <<lost, trouble>>
  <2> DEFINE m == BufferMsg(b)
  <2>1. m.msg = "buffer" /\ m.header = b /\ IsBuffer(m)
    BY DEF BufferMsg, IsBuffer
  <2> HIDE DEF m
  <2>2. CallsTyped(Append(toVC, m))
    BY <1>1, <2>1, CallsAppended
  <2>3. OnceSent(Append(toVC, m)) /\ MsgHeaders(Append(toVC, m)) = MsgHeaders(toVC) \cup {b}
    <3>1. PICK S : toVC \in Seq(S)
      BY <1>1 DEF CallsTyped, IsList
    <3>2. PICK T : toVC \in Seq(T) /\ m \in T
      <4>1. toVC \in Seq(S \cup {m})
        BY <3>1, SeqMonotonic
      <4> QED
        BY <4>1
    <3> QED
      BY <1>1, <2>1, <3>2, AppendSent
  <2>4. /\ port'.queue = port.queue /\ port'.transit = port.transit + 1
        /\ port' \in [isEnabled : BOOLEAN, hasPool : BOOLEAN, isPaused : BOOLEAN,
                      queue : Seq(Headers), transit : Int]
    <3>1. PICK n \in Int : n = port.transit + 1
      BY <1>1
    <3>2. port' = [port EXCEPT !.transit = n]
      BY <1>3, <3>1
    <3> QED
      BY <1>1, <3>1, <3>2
  <2>5. toVC' = Append(toVC, m)
    BY <1>3 DEF m
  <2> QED
    BY <1>1, <1>3, <2>2, <2>3, <2>4, <2>5
<1>4. CASE lost' = lost \cup {b} /\ UNCHANGED <<toVC, port>> /\ trouble' \in 0 .. MaxTrouble
  BY <1>1, <1>4
<1>5. NotSent(b) => /\ lost' = lost \cup {b} /\ UNCHANGED <<toVC, port>>
                    /\ trouble' \in 0 .. MaxTrouble
  BY <1>1, MmalBoundsOK DEF NotSent, MayFail
<1> QED
  BY <1>1, <1>2, <1>3, <1>4, <1>5 DEF SendBuffer
LEMMA SentKeeps ==
  ASSUME Kept, NEW p \in {"pool", "action"}, NEW b \in Contents[p], SendBuffer(b), Typed',
         Contents'[p] = Contents[p] \ {b}, Busy' = Busy,
         \A q \in {"held", "toHost", "bulks", "callbacks", "pool", "worker", "action"} \ {p} :
             Contents'[q] = Contents[q]
  PROVE  OnceSent(toVC)' /\ OnceEach(port.queue)' /\ Apart(Contents)' /\ Counted'
<1>1. p \in Places /\ p \notin OutPlaces /\ p \notin {"queue", "toVC", "lost"}
  BY DEF Places, OutPlaces
<1>2. \A r \in {"queue", "toVC", "lost"} : r \in Places /\ b \notin Contents[r] /\ r # p
  BY <1>1 DEF Kept, Apart, Places, OutPlaces
<1>3. b \in Headers /\ b \notin MsgHeaders(toVC) /\ b \notin Range(port.queue)
  <2>1. Contents[p] \in SUBSET Headers
    BY <1>1, ContentsTyped DEF Kept, Contained
  <2> QED
    BY <1>2, <2>1, ContentsNow DEF ContentsAre
<1>4. /\ OnceSent(toVC') /\ OnceEach(port'.queue)
      /\ \/ /\ Range(port'.queue) = Range(port.queue) \cup {b}
            /\ port'.transit = port.transit + 1 /\ UNCHANGED <<toVC, lost>>
         \/ /\ MsgHeaders(toVC') = MsgHeaders(toVC) \cup {b}
            /\ port'.transit = port.transit + 1 /\ port'.queue = port.queue /\ UNCHANGED lost
         \/ lost' = lost \cup {b} /\ UNCHANGED <<toVC, port>>
  BY <1>3, BufferSent DEF Kept
<1>5. /\ Contents["queue"] = Range(port.queue) /\ Contents'["queue"] = Range(port'.queue)
      /\ Contents["toVC"] = MsgHeaders(toVC) /\ Contents'["toVC"] = MsgHeaders(toVC')
      /\ Contents["lost"] = lost /\ Contents'["lost"] = lost'
  BY ContentsNow, ContentsThen DEF ContentsAre, Range, MsgHeaders, BuffersIn
<1>6. PICK r \in {"queue", "toVC", "lost"} :
         /\ Contents'[r] = Contents[r] \cup {b}
         /\ \A q \in {"queue", "toVC", "lost"} \ {r} : Contents'[q] = Contents[q]
         /\ port'.transit = port.transit + (IF r = "lost" THEN 0 ELSE 1)
  <2>1. CASE /\ Range(port'.queue) = Range(port.queue) \cup {b}
             /\ port'.transit = port.transit + 1 /\ UNCHANGED <<toVC, lost>>
    <3>1. /\ Contents'["queue"] = Contents["queue"] \cup {b}
          /\ \A q \in {"queue", "toVC", "lost"} \ {"queue"} : Contents'[q] = Contents[q]
      BY <1>5, <2>1
    <3> QED
      BY <2>1, <3>1
  <2>2. CASE /\ MsgHeaders(toVC') = MsgHeaders(toVC) \cup {b}
             /\ port'.transit = port.transit + 1 /\ port'.queue = port.queue /\ UNCHANGED lost
    <3>1. /\ Contents'["toVC"] = Contents["toVC"] \cup {b}
          /\ \A q \in {"queue", "toVC", "lost"} \ {"toVC"} : Contents'[q] = Contents[q]
      BY <1>5, <2>2
    <3> QED
      BY <2>2, <3>1
  <2>3. CASE lost' = lost \cup {b} /\ UNCHANGED <<toVC, port>>
    <3>1. /\ Contents'["lost"] = Contents["lost"] \cup {b}
          /\ \A q \in {"queue", "toVC", "lost"} \ {"lost"} : Contents'[q] = Contents[q]
      BY <1>5, <2>3
    <3>2. port.transit \in Int
      BY DEF Kept, Typed, PortTyped
    <3> QED
      BY <2>3, <3>1, <3>2
  <2> QED
    BY <1>4, <2>1, <2>2, <2>3
<1>7. ASSUME NEW q \in Places \ {p, r} PROVE Contents'[q] = Contents[q]
  BY <1>6, <1>7, AllPlaces
<1>8. r \in Places /\ r # p /\ (r \in OutPlaces <=> r # "lost")
  BY <1>2 DEF OutPlaces
<1>9. /\ Apart(Contents)'
      /\ r = "lost" => OutOf(Contents)' = OutOf(Contents)
      /\ r # "lost" => Cardinality(OutOf(Contents)') = Cardinality(OutOf(Contents)) + 1
  <2>1. Typed /\ Apart(Contents)
    BY DEF Kept
  <2> QED
    BY <2>1, <1>1, <1>6, <1>7, <1>8, MovedHere
<1>10. Counted'
  <2>1. CASE r = "lost"
    BY <1>6, <1>9, <2>1 DEF Kept, Counted, Typed, PortTyped
  <2>2. CASE r # "lost"
    <3>1. Cardinality(Busy') = Cardinality(Busy) + 0
      BY BusyFinite
    <3> QED
      BY <1>6, <1>9, <2>2, <3>1, CountedThen DEF Kept
  <2> QED
    BY <2>1, <2>2
<1> QED
  BY <1>4, <1>9, <1>10 DEF OnceSent, OnceEach, BuffersIn

LEMMA WorkerSendsKeeps ==
  ASSUME Kept, WorkerSends
  PROVE  Kept' /\ (pool = <<>> => Contents' = Contents)
<1>1. /\ UNCHANGED <<toHost, bulks, vc, reply, callbackQueue, action, cb>>
      /\ UNCHANGED <<stills, preview, stop, complete, db, offset, size, created, links,
                     enabled, payloads>>
  BY DEF WorkerSends, Then, picturevars, setupvars
<1>2. CallbackTyped' /\ Busy' = Busy /\ \A t : InHand(t)' = InHand(t)
  BY <1>1, CallbackUnchanged DEF Kept, Typed
<1>3. WorkerTyped'
  <2>1. life' \in {"runs", "ended", "exited", "crashed"}
    BY DEF WorkerSends, Kept, Typed, WorkerTyped
  <2> QED
    BY <1>1, <2>1 DEF Kept, Typed, WorkerTyped
<1>4. CASE pool = <<>>
  <2>1. UNCHANGED <<toVC, port, lost, trouble, pool>>
    BY <1>4 DEF WorkerSends
  <2>2. WireTyped' /\ PortTyped'
    BY <1>1, <2>1, WireUnchanged, PortUnchanged DEF Kept, Typed
  <2>3. Unmoved
    BY <1>1, <1>2, <2>1 DEF Unmoved
  <2> QED
    BY <1>2, <1>3, <2>2, <2>3, NothingMoves DEF Kept, Typed
<1>5. CASE pool # <<>>
  <2>1. PICK b : b = Head(pool)
    OBVIOUS
  <2>2. SendBuffer(b) /\ pool' = Tail(pool)
    BY <1>5, <2>1 DEF WorkerSends, QueueGet
  <2>3. /\ b \in Headers /\ b \in Range(pool) /\ Tail(pool) \in Seq(Headers)
        /\ Range(Tail(pool)) = Range(pool) \ {b} /\ OnceEach(Tail(pool))
    BY <1>5, <2>1, TailEach DEF Kept, Typed, PortTyped, Once
  <2>4. /\ Contents["pool"] = Range(pool) /\ Contents'["pool"] = Range(pool')
        /\ Contents["toVC"] = MsgHeaders(toVC) /\ Contents["queue"] = Range(port.queue)
    BY ContentsNow, ContentsThen DEF ContentsAre, Range
  <2>5. "pool" \in Places /\ "toVC" \in Places /\ "queue" \in Places
    BY DEF Places, OutPlaces
  <2>6. b \notin MsgHeaders(toVC) /\ b \notin Range(port.queue)
    BY <2>3, <2>4, <2>5 DEF Kept, Apart
  <2>7. /\ CallsTyped(toVC') /\ lost' \in SUBSET Headers /\ trouble' \in 0 .. MaxTrouble
        /\ port' \in [isEnabled : BOOLEAN, hasPool : BOOLEAN, isPaused : BOOLEAN,
                      queue : Seq(Headers), transit : Int]
    BY <2>2, <2>3, <2>6, BufferSent DEF Kept
  <2>8. Typed'
    BY <1>1, <1>2, <1>3, <2>2, <2>3, <2>7 DEF Kept, Typed, WireTyped, PortTyped, CallsTyped
  <2>9. \A q \in {"held", "toHost", "bulks", "callbacks", "worker", "action"} :
            Contents'[q] = Contents[q]
    BY <1>1, SamePlaces
  <2>10. Contents'["pool"] = Contents["pool"] \ {b} /\ b \in Contents["pool"]
    BY <2>2, <2>3, <2>4
  <2>11. OnceSent(toVC)' /\ OnceEach(port.queue)' /\ Apart(Contents)' /\ Counted'
    BY <1>2, <2>2, <2>8, <2>9, <2>10, SentKeeps
  <2>12. OnceEach(pool)'
    BY <2>2, <2>3 DEF OnceEach
  <2>13. Once'
    BY <1>1, <2>11, <2>12, SameOnce DEF Kept, Once
  <2> QED
    BY <1>5, <2>8, <2>11, <2>13 DEF Kept
<1> QED
  BY <1>4, <1>5

LEMMA CallbackSendsKeeps ==
  ASSUME Kept, CallbackSends
  PROVE  Kept'
<1>1. /\ UNCHANGED <<toHost, bulks, vc, reply, callbackQueue, action, pool>>
      /\ UNCHANGED <<stills, preview, stop, life, complete, db, offset, size, created, links,
                     enabled, payloads>>
      /\ cb["action"].at = "send" /\ SendBuffer(cb["action"].next)
      /\ cb' = [cb EXCEPT !["action"].at = "post", !["action"].next = "none"]
  BY DEF CallbackSends, At, workervars, picturevars, setupvars
<1>2. PICK b : b = cb["action"].next
  OBVIOUS
<1>3. b \in Headers /\ "action" \in Threads
  BY <1>1, <1>2 DEF Kept, Typed, CallbackTyped, At, Threads
<1>4. /\ cb' \in [Threads -> [at : Steps, of : HeldHeader \cup {NoHeader},
                              next : Headers \cup {"none"}]]
      /\ cb'["action"].at = "post" /\ \A u \in Threads : u # "action" => cb'[u] = cb[u]
  BY <1>1, <1>3 DEF Kept, Typed, CallbackTyped, Steps
<1>5. CallbackTyped'
  BY <1>4 DEF Kept, Typed, CallbackTyped, At, Buffer
<1>6. /\ InHand("action") = {b} /\ InHand("action")' = {}
      /\ \A u \in Threads : u # "action" => InHand(u)' = InHand(u)
  BY <1>1, <1>2, <1>4 DEF InHand
<1>7. Busy' = Busy
  BY <1>1, <1>4 DEF Busy, At
<1>8. WorkerTyped'
  BY <1>1, WorkerUnchanged DEF Kept, Typed
<1>9. Contents["action"] = {b} /\ Contents'["action"] = {} /\ Contents'["worker"] = Contents["worker"]
  BY <1>3, <1>6, SamePlaces DEF Threads
<1>10. b \notin MsgHeaders(toVC) /\ b \notin Range(port.queue)
  <2>1. "action" \in Places /\ "toVC" \in Places /\ "queue" \in Places
    BY DEF Places, OutPlaces
  <2>2. Contents["toVC"] = MsgHeaders(toVC) /\ Contents["queue"] = Range(port.queue)
    BY ContentsNow DEF ContentsAre
  <2> QED
    BY <1>9, <2>1, <2>2 DEF Kept, Apart
<1>11. /\ CallsTyped(toVC') /\ lost' \in SUBSET Headers /\ trouble' \in 0 .. MaxTrouble
       /\ port' \in [isEnabled : BOOLEAN, hasPool : BOOLEAN, isPaused : BOOLEAN,
                     queue : Seq(Headers), transit : Int]
  BY <1>1, <1>2, <1>3, <1>10, BufferSent DEF Kept
<1>12. Typed'
  BY <1>1, <1>5, <1>8, <1>11 DEF Kept, Typed, WireTyped, PortTyped, CallsTyped
<1>13. \A q \in {"held", "toHost", "bulks", "callbacks", "pool", "worker"} :
           Contents'[q] = Contents[q]
  BY <1>1, <1>9, SamePlaces
<1>14. OnceSent(toVC)' /\ OnceEach(port.queue)' /\ Apart(Contents)' /\ Counted'
  <2>1. b \in Contents["action"] /\ Contents'["action"] = Contents["action"] \ {b}
    BY <1>9
  <2> QED
    BY <1>1, <1>2, <1>7, <1>12, <1>13, <2>1, SentKeeps
<1>15. Once'
  BY <1>1, <1>14, SameOnce DEF Kept, Once
<1> QED
  BY <1>12, <1>14, <1>15 DEF Kept
LEMMA CallbackBeginsKeeps ==
  ASSUME Kept, NEW t \in Threads, CallbackBegins(t)
  PROVE  Kept' /\ (callbackQueue = <<>> => Contents' = Contents)
<1>1. /\ UNCHANGED <<toVC, toHost, bulks, vc, reply, port, pool, lost, trouble>>
      /\ UNCHANGED <<stills, preview, stop, life, complete, db, offset, size, created, links,
                     enabled, payloads>>
  BY DEF CallbackBegins, wirevars, poolvars, workervars, picturevars, setupvars
<1>a. cb[t].at \in {"idle", "begin"}
  <2>1. CASE t = "action"
    BY <2>1 DEF CallbackBegins, At
  <2>2. CASE t = "worker"
    BY <2>2 DEF CallbackBegins, At
  <2> QED
    BY <2>1, <2>2 DEF Threads
<1>2. WireTyped' /\ WorkerTyped'
  BY <1>1, WireUnchanged, WorkerUnchanged DEF Kept, Typed
<1>3. CASE callbackQueue = <<>>
  <2>1. /\ cb' = [cb EXCEPT ![t].at = "idle"] /\ UNCHANGED callbackQueue
        /\ action' = [action EXCEPT !.mutex = "none"]
    BY <1>3 DEF CallbackBegins, Goes, ActionUnlock
  <2>2. CallbackTyped' /\ Busy' = Busy /\ \A u \in Threads : InHand(u)' = InHand(u)
    BY <1>1, <1>a, <2>1, CallbackGoesOn DEF Kept, Typed, Steps
  <2>3. PortTyped'
    BY <1>1, <2>1 DEF Kept, Typed, PortTyped
  <2>4. Unmoved
    BY <1>1, <2>1, <2>2 DEF Unmoved
  <2> QED
    BY <1>2, <2>2, <2>3, <2>4, NothingMoves DEF Kept, Typed
<1>4. CASE callbackQueue # <<>>
  <2>1. PICK x : x = Head(callbackQueue)
    OBVIOUS
  <2>2. /\ cb' = [cb EXCEPT ![t].at = "copy", ![t].of = x]
        /\ callbackQueue' = Tail(callbackQueue) /\ UNCHANGED action
    BY <1>4, <2>1 DEF CallbackBegins
  <2>3. /\ x \in HeldHeader /\ x.header \in HeadersOf(callbackQueue)
        /\ Tail(callbackQueue) \in Seq(HeldHeader) /\ OnceHeld(Tail(callbackQueue))
        /\ HeadersOf(Tail(callbackQueue)) = HeadersOf(callbackQueue) \ {x.header}
    <3>1. \A y \in HeldHeader : y.header \in Headers
      BY DEF HeldHeader
    <3> QED
      BY <1>4, <2>1, <3>1, TailHeld DEF Kept, Typed, PortTyped, Once
  <2>4. /\ cb' \in [Threads -> [at : Steps, of : HeldHeader \cup {NoHeader},
                                next : Headers \cup {"none"}]]
        /\ cb'[t].at = "copy" /\ cb'[t].of = x /\ \A u \in Threads : u # t => cb'[u] = cb[u]
    BY <2>2, <2>3 DEF Kept, Typed, CallbackTyped, Steps
  <2>5. CallbackTyped'
    BY <2>3, <2>4 DEF Kept, Typed, CallbackTyped, At, Buffer
  <2>6. /\ InHand(t) = {} /\ InHand(t)' = {x.header}
        /\ \A u \in Threads : u # t => InHand(u)' = InHand(u)
    BY <1>1, <1>a, <2>4 DEF InHand
  <2>7. t \notin Busy /\ Busy' = Busy \cup {t}
    BY <1>1, <1>a, <2>4 DEF Busy, At
  <2>8. Typed'
    BY <1>1, <1>2, <2>2, <2>3, <2>5 DEF Kept, Typed, PortTyped
  <2>9. Once'
    BY <1>1, <2>2, <2>3, SameOnce DEF Kept, Once, OnceHeld
  <2>10. /\ Contents'["callbacks"] = Contents["callbacks"] \ {x.header}
         /\ x.header \in Contents["callbacks"] /\ Contents'[t] = Contents[t] \cup {x.header}
    <3>1. /\ Contents["callbacks"] = HeadersOf(callbackQueue)
          /\ Contents'["callbacks"] = HeadersOf(callbackQueue')
      BY ContentsNow, ContentsThen DEF ContentsAre, HeadersOf
    <3>2. Contents[t] = {} /\ Contents'[t] = {x.header}
      BY <2>6, SamePlaces
    <3> QED
      BY <2>2, <2>3, <3>1, <3>2
  <2>11. /\ t \in Places /\ t \notin OutPlaces /\ "callbacks" \in Places
         /\ "callbacks" \in OutPlaces /\ t # "callbacks"
    BY DEF Threads, Places, OutPlaces
  <2>12. ASSUME NEW q \in Places \ {"callbacks", t} PROVE Contents'[q] = Contents[q]
    <3>1. q \in Threads => Contents'[q] = Contents[q]
      BY <2>6, <2>12, SamePlaces
    <3> QED
      BY <1>1, <2>12, <3>1, SamePlaces, AllPlaces DEF Threads
  <2>13. /\ Apart(Contents)'
         /\ Cardinality(OutOf(Contents)') = Cardinality(OutOf(Contents)) - 1
    BY <2>8, <2>10, <2>11, <2>12, MovedHere DEF Kept
  <2>14. Counted'
    <3>1. PICK i \in Nat, j \in Nat : i = Cardinality(OutOf(Contents)) /\ j = Cardinality(Busy)
      BY OutFinite, ContentsTyped, BusyFinite DEF Kept
    <3>2. Cardinality(Busy') = j + 1
      BY <2>7, <3>1, BusyFinite, FS_AddElement
    <3>3. Cardinality(OutOf(Contents)') = i - 1 /\ port'.transit = i + j
      BY <1>1, <2>13, <3>1 DEF Kept, Counted
    <3> QED
      BY <3>2, <3>3 DEF Counted
  <2> QED
    BY <1>4, <2>8, <2>9, <2>13, <2>14 DEF Kept
<1> QED
  BY <1>3, <1>4

LEMMA CallbackEndsKeeps ==
  ASSUME Kept, NEW t \in Threads, CallbackEnds(t)
  PROVE  Kept' /\ Contents' = Contents
<1>1. /\ UNCHANGED <<toVC, toHost, bulks, vc, reply, callbackQueue, pool, lost, trouble>>
      /\ UNCHANGED <<stills, preview, stop, life, complete, db, offset, size, created, links,
                     enabled, payloads>>
      /\ cb[t].at = "done" /\ cb' = [cb EXCEPT ![t] = NoCallback]
      /\ port' = [port EXCEPT !.transit = @ - 1]
      /\ action' = [action EXCEPT !.mutex = "none"] \/ UNCHANGED action
  BY DEF CallbackEnds, TransitDecrement, ActionUnlock, At, wirevars, poolvars, workervars,
         picturevars, setupvars
<1>2. NoCallback \in [at : Steps, of : HeldHeader \cup {NoHeader}, next : Headers \cup {"none"}]
      /\ NoCallback.at = "idle"
  BY DEF NoCallback, NoHeader, Steps
<1>3. /\ cb' \in [Threads -> [at : Steps, of : HeldHeader \cup {NoHeader},
                              next : Headers \cup {"none"}]]
      /\ cb'[t].at = "idle" /\ \A u \in Threads : u # t => cb'[u] = cb[u]
  BY <1>1, <1>2 DEF Kept, Typed, CallbackTyped
<1>4. CallbackTyped' /\ \A u \in Threads : InHand(u)' = InHand(u)
  BY <1>1, <1>3 DEF Kept, Typed, CallbackTyped, At, Buffer, InHand
<1>5. t \in Busy /\ Busy' = Busy \ {t}
  BY <1>1, <1>3 DEF Busy, At
<1>6. port'.queue = port.queue /\ port'.transit = port.transit - 1 /\ PortTyped'
  <2>1. PICK n \in Int : n = port.transit - 1
    BY DEF Kept, Typed, PortTyped
  <2>2. port' = [port EXCEPT !.transit = n]
    BY <1>1, <2>1
  <2> QED
    BY <1>1, <2>1, <2>2 DEF Kept, Typed, PortTyped
<1>7. Typed'
  BY <1>1, <1>4, <1>6, WireUnchanged, WorkerUnchanged DEF Kept, Typed
<1>8. Once'
  BY <1>1, <1>6, SameOnce DEF Kept, Once
<1>9. Contents' = Contents
  <2>1. \A p \in Places : Contents'[p] = Contents[p]
    BY <1>1, <1>4, <1>6, SamePlaces, AllPlaces DEF Threads
  <2> QED
    BY <2>1, ContentsTyped, ContentsTypedThen, <1>7 DEF Kept, Contained
<1>10. Counted'
  <2>1. PICK i \in Nat, j \in Nat : i = Cardinality(OutOf(Contents)) /\ j = Cardinality(Busy)
    BY OutFinite, ContentsTyped, BusyFinite DEF Kept
  <2>2. Cardinality(Busy') = j - 1
    BY <1>5, <2>1, BusyFinite, FS_RemoveElement
  <2>3. Cardinality(OutOf(Contents)') = i /\ port'.transit = i + j - 1
    BY <1>6, <1>9, <2>1 DEF Kept, Counted, OutOf
  <2> QED
    BY <2>2, <2>3 DEF Counted
<1> QED
  BY <1>7, <1>8, <1>9, <1>10 DEF Kept, Apart

\* A header that goes to the action thread.
LEMMA CallbackQueued ==
  ASSUME Typed, Once, NEW x \in HeldHeader, x.header \notin HeadersOf(callbackQueue),
         SendCallback(x)
  PROVE  /\ callbackQueue' \in Seq(HeldHeader) /\ OnceHeld(callbackQueue)'
         /\ HeadersOf(callbackQueue') = HeadersOf(callbackQueue) \cup {x.header}
         /\ UNCHANGED port
         /\ action' \in [sema : Nat, mutex : {"none", "worker", "action", "deleted"}]
<1>1. callbackQueue \in Seq(HeldHeader) /\ OnceHeld(callbackQueue)
  BY DEF Typed, PortTyped, Once
<1>2. callbackQueue' = Append(callbackQueue, x)
  BY DEF SendCallback
<1>3. /\ callbackQueue' \in Seq(HeldHeader) /\ OnceHeld(callbackQueue)'
      /\ HeadersOf(callbackQueue') = HeadersOf(callbackQueue) \cup {x.header}
  BY <1>1, <1>2, AppendHeld DEF OnceHeld
<1>4. action' \in [sema : Nat, mutex : {"none", "worker", "action", "deleted"}]
  <2>1. PICK n \in Nat : n = action.sema + 1
    BY DEF Typed, PortTyped
  <2>2. action' = [action EXCEPT !.sema = n]
    BY <2>1 DEF SendCallback
  <2> QED
    BY <2>1, <2>2 DEF Typed, PortTyped
<1> QED
  BY <1>3, <1>4 DEF SendCallback

LEMMA VchiqBulkKeeps ==
  ASSUME Kept, VchiqBulk, UNCHANGED rest
  PROVE  Kept'
<1>1. /\ UNCHANGED <<toVC, toHost, vc, reply, pool, lost, cb>>
      /\ UNCHANGED <<stills, preview, stop, life, complete, db, offset, size, created, links,
                     enabled, payloads>>
      /\ bulks # <<>> /\ bulks' = Tail(bulks)
  BY DEF VchiqBulk, rest, poolvars, workervars, picturevars, setupvars
<1>2. PICK x : x = Head(bulks)
  OBVIOUS
<1>3. /\ x \in HeldHeader /\ x.header \in HeadersOf(bulks)
      /\ Tail(bulks) \in Seq(HeldHeader) /\ OnceHeld(Tail(bulks))
      /\ HeadersOf(Tail(bulks)) = HeadersOf(bulks) \ {x.header}
  <2>1. \A y \in HeldHeader : y.header \in Headers
    BY DEF HeldHeader
  <2> QED
    BY <1>1, <1>2, <2>1, TailHeld DEF Kept, Typed, WireTyped, Once
<1>4. PICK y \in HeldHeader : SendCallback(y) /\ y.header = x.header
  <2>1. [x EXCEPT !.failed = TRUE] \in HeldHeader /\ [x EXCEPT !.failed = TRUE].header = x.header
    BY <1>3 DEF HeldHeader
  <2>2. SendCallback(x) \/ SendCallback([x EXCEPT !.failed = TRUE])
    BY <1>2 DEF VchiqBulk
  <2> QED
    BY <1>3, <2>1, <2>2
<1>5. trouble' \in 0 .. MaxTrouble
  BY MmalBoundsOK DEF VchiqBulk, MayFail, Kept, Typed, PortTyped
<1>6. "bulks" \in Places /\ "callbacks" \in Places /\ "bulks" \in OutPlaces /\ "callbacks" \in OutPlaces
  BY DEF Places, OutPlaces
<1>7. /\ Contents["bulks"] = HeadersOf(bulks) /\ Contents["callbacks"] = HeadersOf(callbackQueue)
      /\ Contents'["bulks"] = HeadersOf(bulks') /\ Contents'["callbacks"] = HeadersOf(callbackQueue')
  BY ContentsNow, ContentsThen DEF ContentsAre, HeadersOf
<1>8. y.header \notin HeadersOf(callbackQueue)
  BY <1>3, <1>4, <1>6, <1>7 DEF Kept, Apart
<1>9. /\ callbackQueue' \in Seq(HeldHeader) /\ OnceHeld(callbackQueue)'
      /\ HeadersOf(callbackQueue') = HeadersOf(callbackQueue) \cup {x.header}
      /\ UNCHANGED port
      /\ action' \in [sema : Nat, mutex : {"none", "worker", "action", "deleted"}]
  BY <1>4, <1>8, CallbackQueued DEF Kept
<1>10. CallbackTyped' /\ WorkerTyped' /\ Busy' = Busy
  BY <1>1, CallbackUnchanged, WorkerUnchanged DEF Kept, Typed
<1>11. Typed'
  BY <1>1, <1>3, <1>5, <1>9, <1>10 DEF Kept, Typed, WireTyped, PortTyped, CallsTyped
<1>12. Once'
  BY <1>1, <1>3, <1>9, SameOnce DEF Kept, Once, OnceHeld
<1>13. /\ Contents'["bulks"] = Contents["bulks"] \ {x.header} /\ x.header \in Contents["bulks"]
       /\ Contents'["callbacks"] = Contents["callbacks"] \cup {x.header}
  BY <1>1, <1>3, <1>7, <1>9
<1>14. \A q \in Places \ {"bulks", "callbacks"} : Contents'[q] = Contents[q]
  BY <1>1, <1>9, SamePlaces, AllPlaces
<1>15. Apart(Contents)' /\ OutOf(Contents)' = OutOf(Contents)
  BY <1>6, <1>11, <1>13, <1>14, MovedHere DEF Kept
<1>16. Counted'
  BY <1>9, <1>10, <1>15 DEF Kept, Counted
<1> QED
  BY <1>11, <1>12, <1>15, <1>16 DEF Kept
\* A header goes from one place outside the pool to another.
LEMMA PassedOn ==
  ASSUME Kept, Typed', Once', NEW p \in OutPlaces, NEW r \in OutPlaces, p # r,
         NEW b \in Contents[p],
         Contents'[p] = Contents[p] \ {b}, Contents'[r] = Contents[r] \cup {b},
         \A q \in Places \ {p, r} : Contents'[q] = Contents[q],
         Busy' = Busy, UNCHANGED port
  PROVE  Kept'
<1>1. p \in Places /\ r \in Places
  BY DEF Places
<1>2. Apart(Contents)' /\ OutOf(Contents)' = OutOf(Contents)
  BY <1>1, MovedHere DEF Kept
<1>3. Counted'
  BY <1>2 DEF Kept, Counted
<1> QED
  BY <1>2, <1>3 DEF Kept

LEMMA VchiqMessageKeeps ==
  ASSUME Kept, VchiqMessage, UNCHANGED rest
  PROVE  /\ Kept'
         /\ Contents["toHost"] = {} => Contents' = Contents /\ UNCHANGED action
<1>1. /\ UNCHANGED <<toVC, vc, pool, lost, cb>>
      /\ UNCHANGED <<stills, preview, stop, life, complete, db, offset, size, created, links,
                     enabled, payloads>>
      /\ toHost # <<>> /\ toHost' = Tail(toHost)
  BY DEF VchiqMessage, rest, poolvars, workervars, picturevars, setupvars
<1>2. PICK m : m = Head(toHost)
  OBVIOUS
<1>3. /\ m \in HostMsgs /\ toHost' \in Seq(HostMsgs) /\ OnceSent(toHost')
      /\ IsBuffer(m) => /\ m.header \in MsgHeaders(toHost)
                        /\ MsgHeaders(toHost') = MsgHeaders(toHost) \ {m.header}
      /\ ~IsBuffer(m) => MsgHeaders(toHost') = MsgHeaders(toHost)
  BY <1>1, <1>2, TailSent DEF Kept, Typed, WireTyped, Once
<1>4. CallbackTyped' /\ WorkerTyped' /\ Busy' = Busy
  BY <1>1, CallbackUnchanged, WorkerUnchanged DEF Kept, Typed
<1>5. /\ Contents["toHost"] = MsgHeaders(toHost) /\ Contents'["toHost"] = MsgHeaders(toHost')
      /\ Contents["bulks"] = HeadersOf(bulks) /\ Contents'["bulks"] = HeadersOf(bulks')
      /\ Contents["callbacks"] = HeadersOf(callbackQueue)
      /\ Contents'["callbacks"] = HeadersOf(callbackQueue')
  BY ContentsNow, ContentsThen DEF ContentsAre, HeadersOf, MsgHeaders, BuffersIn
<1>6. /\ \A p \in {"toHost", "bulks", "callbacks"} : p \in Places /\ p \in OutPlaces
      /\ Apart(Contents)
  BY DEF Places, OutPlaces, Kept
<1>7. CASE m.msg = "reply"
  <2>1. reply' = m.status /\ UNCHANGED <<bulks, port, callbackQueue, action, trouble>>
    BY <1>2, <1>7 DEF VchiqMessage, portvars
  <2>2. m.status \in {"ok", "failed"} /\ ~IsBuffer(m)
    BY <1>3, <1>7 DEF HostMsgs, IsBuffer
  <2>3. WireTyped'
    BY <1>1, <1>3, <2>1, <2>2 DEF Kept, Typed, WireTyped, CallsTyped
  <2>4. Typed'
    BY <1>1, <1>4, <2>1, <2>3, PortUnchanged DEF Kept, Typed
  <2>5. Once'
    BY <1>1, <1>3, <2>1, SameOnce DEF Kept, Once, OnceSent, BuffersIn
  <2>6. \A p \in Places : Contents'[p] = Contents[p]
    BY <1>1, <1>3, <1>5, <2>1, <2>2, SamePlaces, AllPlaces
  <2>7. Contents' = Contents
    BY <2>4, <2>6, ContentsTyped, ContentsTypedThen DEF Kept, Contained
  <2> QED
    BY <1>4, <2>1, <2>4, <2>5, <2>7 DEF Kept, Counted, Apart, OutOf
<1>8. CASE m.msg # "reply"
  <2>1. /\ m.msg = "part" /\ IsBuffer(m) /\ m.part \in HeldHeader /\ m.header = m.part.header
    BY <1>3, <1>8 DEF HostMsgs, IsBuffer
  <2>2. m.header \in Contents["toHost"] /\ Contents'["toHost"] = Contents["toHost"] \ {m.header}
    BY <1>3, <1>5, <2>1
  <2>3. m.header \notin Contents["bulks"] /\ m.header \notin Contents["callbacks"]
    BY <1>6, <2>2 DEF Apart
  <2>4. CASE bulks' = Append(bulks, m.part) /\ UNCHANGED <<reply, portvars, trouble>>
    <3>1. UNCHANGED <<port, callbackQueue, action, reply, trouble>>
      BY <2>4 DEF portvars
    <3>2. /\ bulks' \in Seq(HeldHeader) /\ OnceHeld(bulks')
          /\ HeadersOf(bulks') = HeadersOf(bulks) \cup {m.header}
      BY <1>5, <2>1, <2>3, <2>4, AppendHeld DEF Kept, Typed, WireTyped, Once
    <3>3. Typed'
      BY <1>1, <1>3, <1>4, <3>1, <3>2, PortUnchanged DEF Kept, Typed, WireTyped, CallsTyped
    <3>4. Once'
      BY <1>1, <1>3, <3>1, <3>2, SameOnce DEF Kept, Once, OnceHeld, OnceSent, BuffersIn
    <3>5. \A q \in Places \ {"toHost", "bulks"} : Contents'[q] = Contents[q]
      BY <1>1, <3>1, SamePlaces, AllPlaces
    <3>6. Contents'["bulks"] = Contents["bulks"] \cup {m.header}
      BY <1>5, <3>2
    <3> QED
      BY <1>4, <1>6, <2>2, <3>1, <3>3, <3>4, <3>5, <3>6, PassedOn
  <2>5. ASSUME NEW y \in HeldHeader, y.header = m.header, SendCallback(y),
               UNCHANGED <<reply, bulks>>, trouble' \in 0 .. MaxTrouble
        PROVE  Kept'
    <3>1. /\ callbackQueue' \in Seq(HeldHeader) /\ OnceHeld(callbackQueue)'
          /\ HeadersOf(callbackQueue') = HeadersOf(callbackQueue) \cup {m.header}
          /\ UNCHANGED port
          /\ action' \in [sema : Nat, mutex : {"none", "worker", "action", "deleted"}]
      BY <1>5, <2>3, <2>5, CallbackQueued DEF Kept
    <3>2. Typed'
      BY <1>1, <1>3, <1>4, <2>5, <3>1 DEF Kept, Typed, WireTyped, PortTyped, CallsTyped
    <3>3. Once'
      BY <1>1, <1>3, <2>5, <3>1, SameOnce DEF Kept, Once, OnceHeld, OnceSent, BuffersIn
    <3>4. \A q \in Places \ {"toHost", "callbacks"} : Contents'[q] = Contents[q]
      BY <1>1, <2>5, <3>1, SamePlaces, AllPlaces
    <3>5. Contents'["callbacks"] = Contents["callbacks"] \cup {m.header}
      BY <1>5, <3>1
    <3> QED
      BY <1>4, <1>6, <2>2, <3>1, <3>2, <3>3, <3>4, <3>5, PassedOn
  <2>6. trouble \in 0 .. MaxTrouble /\ (MayFail => trouble + 1 \in 0 .. MaxTrouble)
    BY MmalBoundsOK DEF MayFail, Kept, Typed, PortTyped
  <2>7. /\ [m.part EXCEPT !.data = NoData] \in HeldHeader
        /\ [m.part EXCEPT !.data = NoData].header = m.header
    BY <2>1 DEF HeldHeader, Datas
  <2>8. \/ bulks' = Append(bulks, m.part) /\ UNCHANGED <<reply, portvars, trouble>>
        \/ SendCallback(m.part) /\ UNCHANGED <<reply, bulks, trouble>>
        \/ /\ SendCallback([m.part EXCEPT !.data = NoData]) /\ UNCHANGED <<reply, bulks>>
           /\ MayFail /\ trouble' = trouble + 1
    BY <1>2, <1>8 DEF VchiqMessage
  <2>9. Kept'
    <3>1. CASE SendCallback(m.part) /\ UNCHANGED <<reply, bulks, trouble>>
      BY <2>1, <2>5, <2>6, <3>1
    <3>2. CASE /\ SendCallback([m.part EXCEPT !.data = NoData]) /\ UNCHANGED <<reply, bulks>>
               /\ MayFail /\ trouble' = trouble + 1
      BY <2>5, <2>6, <2>7, <3>2
    <3> QED
      BY <2>4, <2>8, <3>1, <3>2
  <2> QED
    BY <2>2, <2>9
<1> QED
  BY <1>7, <1>8

LEMMA EncodesKeeps ==
  ASSUME Kept, Encodes(stills), UNCHANGED rest
  PROVE  Kept' /\ vc.held # <<>> /\ UNCHANGED action
<1>1. /\ UNCHANGED <<toVC, bulks, reply, port, callbackQueue, action, pool, lost, trouble, cb>>
      /\ UNCHANGED <<stills, preview, stop, life, complete, db, offset, size, created, links,
                     enabled, payloads>>
      /\ vc.held # <<>>
  BY DEF Encodes, rest, portvars, poolvars, workervars, picturevars, setupvars
<1>2. PICK b : b = Head(vc.held)
  OBVIOUS
<1>3. PICK end \in BOOLEAN :
         /\ vc.part = MaxParts => end
         /\ toHost' = Append(toHost, PartMsg(Header(b, <<<<vc.frame, vc.part, end>>>>, end)))
         /\ vc' = [vc EXCEPT !.held = Tail(@), !.part = IF end THEN 1 ELSE @ + 1,
                             !.frame = IF end THEN 1 - @ ELSE @,
                             !.captures = ~(end /\ stills)]
  BY <1>2 DEF Encodes
<1>4. vc \in [held : Seq(Headers), captures : BOOLEAN, frame : 0 .. 1,
              part : 1 .. MaxParts, disables : BOOLEAN]
  BY DEF Kept, Typed, WireTyped
<1>5. /\ b \in Headers /\ b \in Range(vc.held) /\ Tail(vc.held) \in Seq(Headers)
      /\ Range(Tail(vc.held)) = Range(vc.held) \ {b} /\ OnceEach(Tail(vc.held))
  BY <1>1, <1>2, <1>4, TailEach DEF Kept, Once
<1>6. /\ vc'.held = Tail(vc.held)
      /\ vc' \in [held : Seq(Headers), captures : BOOLEAN, frame : 0 .. 1,
                  part : 1 .. MaxParts, disables : BOOLEAN]
  <2>1. PICK n \in 1 .. MaxParts : n = IF end THEN 1 ELSE vc.part + 1
    <3>1. MaxParts \in Nat /\ MaxParts >= 1 /\ vc.part \in 1 .. MaxParts
      BY <1>4, MmalBoundsOK
    <3> QED
      BY <1>3, <3>1
  <2>2. PICK f \in 0 .. 1 : f = IF end THEN 1 - vc.frame ELSE vc.frame
    <3>1. vc.frame \in 0 .. 1
      BY <1>4
    <3> QED
      BY <3>1
  <2>3. PICK c \in BOOLEAN : c = ~(end /\ stills)
    OBVIOUS
  <2>4. PICK q \in Seq(Headers) : q = Tail(vc.held)
    BY <1>5
  <2>5. vc' = [vc EXCEPT !.held = q, !.part = n, !.frame = f, !.captures = c]
    BY <1>3, <2>1, <2>2, <2>3, <2>4
  <2> QED
    BY <1>4, <2>4, <2>5
<1>7. PICK d \in Datas : d = <<<<vc.frame, vc.part, end>>>>
  <2>1. <<vc.frame, vc.part, end>> \in (0 .. 1) \X (1 .. MaxParts) \X BOOLEAN
    BY <1>4
  <2> QED
    BY <2>1 DEF Datas
<1>8. PICK m : m = PartMsg(Header(b, d, end))
  OBVIOUS
<1>9. m \in HostMsgs /\ IsBuffer(m) /\ m.header = b
  <2>1. Header(b, d, end) \in HeldHeader /\ Header(b, d, end).header = b
    BY <1>5, <1>7 DEF Header, HeldHeader
  <2> QED
    BY <1>5, <1>8, <2>1 DEF HostMsgs, PartMsg, IsBuffer
<1>10. toHost' = Append(toHost, m)
  BY <1>3, <1>7, <1>8
<1>11. /\ Contents["held"] = Range(vc.held) /\ Contents'["held"] = Range(vc'.held)
       /\ Contents["toHost"] = MsgHeaders(toHost) /\ Contents'["toHost"] = MsgHeaders(toHost')
  BY ContentsNow, ContentsThen DEF ContentsAre, Range, MsgHeaders, BuffersIn
<1>12. \A p \in {"held", "toHost"} : p \in Places /\ p \in OutPlaces
  BY DEF Places, OutPlaces
<1>13. b \notin MsgHeaders(toHost)
  BY <1>5, <1>11, <1>12 DEF Kept, Apart
<1>14. /\ toHost' \in Seq(HostMsgs) /\ OnceSent(toHost')
       /\ MsgHeaders(toHost') = MsgHeaders(toHost) \cup {b}
  BY <1>9, <1>10, <1>13, AppendSent DEF Kept, Typed, WireTyped, Once
<1>15. CallbackTyped' /\ WorkerTyped' /\ PortTyped' /\ Busy' = Busy
  BY <1>1, CallbackUnchanged, WorkerUnchanged, PortUnchanged DEF Kept, Typed
<1>16. Typed'
  BY <1>1, <1>6, <1>14, <1>15 DEF Kept, Typed, WireTyped, CallsTyped
<1>17. Once'
  BY <1>1, <1>5, <1>6, <1>14, SameOnce DEF Kept, Once, OnceSent, OnceEach, BuffersIn
<1>18. \A q \in Places \ {"held", "toHost"} : Contents'[q] = Contents[q]
  BY <1>1, SamePlaces, AllPlaces
<1>19. /\ Contents'["held"] = Contents["held"] \ {b} /\ b \in Contents["held"]
       /\ Contents'["toHost"] = Contents["toHost"] \cup {b}
  BY <1>5, <1>6, <1>11, <1>14
<1> QED
  BY <1>1, <1>12, <1>15, <1>16, <1>17, <1>18, <1>19, PassedOn
LEMMA VCReceivesKeeps ==
  ASSUME Kept, VCReceives, UNCHANGED rest
  PROVE  /\ Kept' /\ UNCHANGED action
         /\ Contents["toVC"] = {} => Contents' = Contents
<1>1. /\ UNCHANGED <<bulks, reply, port, callbackQueue, action, pool, lost, cb>>
      /\ UNCHANGED <<stills, preview, stop, life, complete, db, offset, size, created, links,
                     enabled, payloads>>
      /\ toVC # <<>> /\ toVC' = Tail(toVC)
  BY DEF VCReceives, rest, portvars, poolvars, workervars, picturevars, setupvars
<1>2. PICK m : m = Head(toVC)
  OBVIOUS
<1>3. /\ CallsTyped(toVC') /\ m.msg \in {"call", "buffer"} /\ (m.msg = "buffer" => m.header \in Headers)
      /\ OnceSent(toVC')
      /\ IsBuffer(m) => /\ m.header \in MsgHeaders(toVC)
                        /\ MsgHeaders(toVC') = MsgHeaders(toVC) \ {m.header}
      /\ ~IsBuffer(m) => MsgHeaders(toVC') = MsgHeaders(toVC)
  <2>1. PICK S : toVC \in Seq(S)
    BY DEF Kept, Typed, WireTyped, CallsTyped, IsList
  <2>2. /\ CallsTyped(Tail(toVC)) /\ m.msg \in {"call", "buffer"}
        /\ m.msg = "buffer" => m.header \in Headers
    BY <1>1, <1>2, CallsTail DEF Kept, Typed, WireTyped
  <2> QED
    BY <1>1, <1>2, <2>1, <2>2, TailSent DEF Kept, Once
<1>4. CallbackTyped' /\ WorkerTyped' /\ Busy' = Busy
  BY <1>1, CallbackUnchanged, WorkerUnchanged DEF Kept, Typed
<1>5. /\ Contents["toVC"] = MsgHeaders(toVC) /\ Contents'["toVC"] = MsgHeaders(toVC')
      /\ Contents["held"] = Range(vc.held) /\ Contents'["held"] = Range(vc'.held)
      /\ Contents["toHost"] = MsgHeaders(toHost) /\ Contents'["toHost"] = MsgHeaders(toHost')
  BY ContentsNow, ContentsThen DEF ContentsAre, Range, MsgHeaders, BuffersIn
<1>6. /\ "toVC" \in Places /\ "held" \in Places /\ "toVC" \in OutPlaces /\ "held" \in OutPlaces
      /\ Apart(Contents)
  BY DEF Places, OutPlaces, Kept
<1>7. vc \in [held : Seq(Headers), captures : BOOLEAN, frame : 0 .. 1,
              part : 1 .. MaxParts, disables : BOOLEAN] /\ OnceEach(vc.held)
  BY DEF Kept, Typed, WireTyped, Once
<1>8. trouble' \in 0 .. MaxTrouble
  BY MmalBoundsOK DEF VCReceives, MayFail, Kept, Typed, PortTyped
<1>9. PortTyped'
  BY <1>1, <1>8 DEF Kept, Typed, PortTyped
<1>10. CASE m.msg = "buffer"
  <2> DEFINE b == m.header
  <2>1. vc' = [vc EXCEPT !.held = Append(@, b)] /\ UNCHANGED toHost
    BY <1>2, <1>10 DEF VCReceives, DisablesPort
  <2>2. b \in Headers /\ IsBuffer(m)
    BY <1>3, <1>10 DEF IsBuffer
  <2> HIDE DEF b
  <2>3. b \in Contents["toVC"] /\ Contents'["toVC"] = Contents["toVC"] \ {b}
    BY <1>3, <1>5, <2>2 DEF b
  <2>4. b \notin Range(vc.held)
    BY <1>5, <1>6, <2>3 DEF Apart
  <2>5. /\ Append(vc.held, b) \in Seq(Headers) /\ OnceEach(Append(vc.held, b))
        /\ Range(Append(vc.held, b)) = Range(vc.held) \cup {b}
    BY <1>7, <2>2, <2>4, AppendEach
  <2>6. /\ vc'.held = Append(vc.held, b)
        /\ vc' \in [held : Seq(Headers), captures : BOOLEAN, frame : 0 .. 1,
                    part : 1 .. MaxParts, disables : BOOLEAN]
    BY <1>7, <2>1, <2>5
  <2>7. Typed'
    BY <1>1, <1>3, <1>4, <1>9, <2>1, <2>6 DEF Kept, Typed, WireTyped, CallsTyped
  <2>8. Once'
    BY <1>1, <1>3, <2>1, <2>5, <2>6, SameOnce DEF Kept, Once, OnceSent, OnceEach, BuffersIn
  <2>9. \A q \in Places \ {"toVC", "held"} : Contents'[q] = Contents[q]
    BY <1>1, <2>1, SamePlaces, AllPlaces
  <2>10. Contents'["held"] = Contents["held"] \cup {b}
    BY <1>5, <2>5, <2>6
  <2> QED
    BY <1>1, <1>4, <1>6, <2>3, <2>7, <2>8, <2>9, <2>10, PassedOn
<1>11. CASE m.msg # "buffer"
  <2>1. m.msg = "call" /\ ~IsBuffer(m)
    BY <1>3, <1>11 DEF IsBuffer
  <2>2. /\ toHost' \in Seq(HostMsgs) /\ OnceSent(toHost')
        /\ MsgHeaders(toHost') = MsgHeaders(toHost)
    <3>1. ASSUME NEW s \in {"ok", "failed"}
          PROVE  /\ Append(toHost, ReplyMsg(s)) \in Seq(HostMsgs)
                 /\ OnceSent(Append(toHost, ReplyMsg(s)))
                 /\ MsgHeaders(Append(toHost, ReplyMsg(s))) = MsgHeaders(toHost)
      <4>1. ReplyMsg(s) \in HostMsgs /\ ~IsBuffer(ReplyMsg(s))
        BY DEF ReplyMsg, HostMsgs, IsBuffer
      <4> QED
        BY <4>1, AppendSent DEF Kept, Typed, WireTyped, Once
    <3>2. UNCHANGED toHost \/ \E s \in {"ok", "failed"} : toHost' = Append(toHost, ReplyMsg(s))
      BY <1>2, <2>1 DEF VCReceives
    <3> QED
      BY <3>1, <3>2 DEF Kept, Typed, WireTyped, Once
  <2>3. /\ vc'.held = vc.held
        /\ vc' \in [held : Seq(Headers), captures : BOOLEAN, frame : 0 .. 1,
                    part : 1 .. MaxParts, disables : BOOLEAN]
    <3>1. PICK c \in BOOLEAN : c = (vc.captures \/ m.what = "capture")
      OBVIOUS
    <3>2. \/ vc' = [vc EXCEPT !.captures = c]
          \/ vc' = [vc EXCEPT !.captures = FALSE, !.disables = TRUE]
          \/ vc' = vc
      BY <1>2, <2>1, <3>1 DEF VCReceives
    <3> QED
      BY <1>7, <3>1, <3>2
  <2>4. Typed'
    BY <1>1, <1>3, <1>4, <1>9, <2>2, <2>3 DEF Kept, Typed, WireTyped, CallsTyped
  <2>5. Once'
    BY <1>1, <1>3, <2>2, <2>3, SameOnce DEF Kept, Once, OnceSent, OnceEach, BuffersIn
  <2>6. \A p \in Places : Contents'[p] = Contents[p]
    BY <1>1, <1>3, <1>5, <2>1, <2>2, <2>3, SamePlaces, AllPlaces
  <2>7. Contents' = Contents
    BY <2>4, <2>6, ContentsTyped, ContentsTypedThen DEF Kept, Contained
  <2> QED
    BY <1>1, <1>4, <2>4, <2>5, <2>7 DEF Kept, Counted, Apart, OutOf
<1>12. m.msg = "buffer" => Contents["toVC"] # {}
  BY <1>3, <1>5 DEF IsBuffer
<1> QED
  BY <1>1, <1>10, <1>11, <1>12

\* All that VideoCore holds goes back.
LEMMA VCDisablesKeeps ==
  ASSUME Kept, VCDisables, UNCHANGED rest
  PROVE  /\ Kept' /\ UNCHANGED action
         /\ Contents["held"] = {} => Contents' = Contents
<1>1. /\ UNCHANGED <<toVC, bulks, reply, port, callbackQueue, action, pool, lost, trouble, cb>>
      /\ UNCHANGED <<stills, preview, stop, life, complete, db, offset, size, created, links,
                     enabled, payloads>>
  BY DEF VCDisables, rest, portvars, poolvars, workervars, picturevars, setupvars
<1>2. vc \in [held : Seq(Headers), captures : BOOLEAN, frame : 0 .. 1,
              part : 1 .. MaxParts, disables : BOOLEAN] /\ OnceEach(vc.held)
  BY DEF Kept, Typed, WireTyped, Once
<1>3. PICK p : p = [i \in DOMAIN vc.held |-> PartMsg(Header(vc.held[i], NoData, FALSE))]
  OBVIOUS
<1>4. /\ toHost' = (toHost \o p) \o <<ReplyMsg("ok")>>
      /\ vc' = [vc EXCEPT !.held = <<>>, !.disables = FALSE, !.part = 1]
  BY <1>3 DEF VCDisables
<1>5. /\ vc'.held = <<>>
      /\ vc' \in [held : Seq(Headers), captures : BOOLEAN, frame : 0 .. 1,
                  part : 1 .. MaxParts, disables : BOOLEAN]
  <2>1. 1 \in 1 .. MaxParts /\ <<>> \in Seq(Headers)
    BY MmalBoundsOK
  <2> QED
    BY <1>2, <1>4, <2>1
<1>6. p \in Seq(HostMsgs) /\ OnceSent(p) /\ MsgHeaders(p) = Range(vc.held)
  <2>1. PICK n \in Nat : DOMAIN vc.held = 1 .. n /\ \A i \in 1 .. n : vc.held[i] \in Headers
    BY <1>2
  <2>2. ASSUME NEW b \in Headers
        PROVE  /\ PartMsg(Header(b, NoData, FALSE)) \in HostMsgs
               /\ IsBuffer(PartMsg(Header(b, NoData, FALSE)))
               /\ PartMsg(Header(b, NoData, FALSE)).header = b
    <3>1. Header(b, NoData, FALSE) \in HeldHeader /\ Header(b, NoData, FALSE).header = b
      BY DEF Header, HeldHeader, Datas
    <3> QED
      BY <3>1 DEF PartMsg, HostMsgs, IsBuffer
  <2>3. /\ DOMAIN p = 1 .. n
        /\ \A i \in 1 .. n : p[i] \in HostMsgs /\ IsBuffer(p[i]) /\ p[i].header = vc.held[i]
    BY <1>3, <2>1, <2>2
  <2>4. p \in [1 .. n -> HostMsgs]
    BY <1>3, <2>1, <2>3
  <2>5. p \in Seq(HostMsgs)
    BY <2>4
  <2>6. BuffersIn(p) = 1 .. n
    BY <2>3 DEF BuffersIn
  <2>7. OnceSent(p)
    BY <1>2, <2>1, <2>3, <2>6 DEF OnceSent, OnceEach
  <2>8. MsgHeaders(p) = Range(vc.held)
    <3>1. MsgHeaders(p) = {p[i].header : i \in 1 .. n} /\ Range(vc.held) = {vc.held[i] : i \in 1 .. n}
      BY <2>1, <2>6 DEF MsgHeaders, Range
    <3> QED
      BY <2>3, <3>1
  <2> QED
    BY <2>5, <2>7, <2>8
<1>7. /\ Contents["held"] = Range(vc.held) /\ Contents'["held"] = Range(vc'.held)
      /\ Contents["toHost"] = MsgHeaders(toHost) /\ Contents'["toHost"] = MsgHeaders(toHost')
  BY ContentsNow, ContentsThen DEF ContentsAre, Range, MsgHeaders, BuffersIn
<1>8. /\ "toHost" \in Places /\ "held" \in Places /\ "toHost" \in OutPlaces /\ "held" \in OutPlaces
      /\ Apart(Contents)
  BY DEF Places, OutPlaces, Kept
<1>9. MsgHeaders(toHost) \cap MsgHeaders(p) = {}
  BY <1>6, <1>7, <1>8 DEF Apart
<1>10. /\ toHost \o p \in Seq(HostMsgs) /\ OnceSent(toHost \o p)
       /\ MsgHeaders(toHost \o p) = MsgHeaders(toHost) \cup Range(vc.held)
  BY <1>6, <1>9, ConcatSent DEF Kept, Typed, WireTyped, Once
<1>11. /\ toHost' \in Seq(HostMsgs) /\ OnceSent(toHost')
       /\ MsgHeaders(toHost') = MsgHeaders(toHost) \cup Range(vc.held)
  <2>1. PICK x, y : x = toHost \o p /\ y = ReplyMsg("ok")
    OBVIOUS
  <2>2. y \in HostMsgs /\ ~IsBuffer(y)
    BY <2>1 DEF ReplyMsg, HostMsgs, IsBuffer
  <2>3. x \in Seq(HostMsgs) /\ OnceSent(x)
    BY <1>10, <2>1
  <2>4. /\ Append(x, y) \in Seq(HostMsgs) /\ OnceSent(Append(x, y))
        /\ MsgHeaders(Append(x, y)) = MsgHeaders(x)
    BY <2>2, <2>3, AppendSent
  <2>5. toHost' = Append(x, y)
    BY <1>4, <2>1, <2>3
  <2> QED
    BY <1>10, <2>1, <2>4, <2>5
<1>12. CallbackTyped' /\ WorkerTyped' /\ PortTyped' /\ Busy' = Busy
  BY <1>1, CallbackUnchanged, WorkerUnchanged, PortUnchanged DEF Kept, Typed
<1>13. Typed'
  BY <1>1, <1>5, <1>11, <1>12 DEF Kept, Typed, WireTyped, CallsTyped
<1>14. Range(<<>>) = {} /\ OnceEach(<<>>)
  BY DEF Range, OnceEach
<1>15. Once'
  BY <1>1, <1>5, <1>11, <1>14, SameOnce DEF Kept, Once, OnceSent, OnceEach, BuffersIn
<1>16. /\ Contents'["held"] = {} /\ Contents'["toHost"] = Contents["toHost"] \cup Contents["held"]
       /\ \A q \in Places \ {"held", "toHost"} : Contents'[q] = Contents[q]
  BY <1>1, <1>5, <1>7, <1>11, <1>14, SamePlaces, AllPlaces
<1>17. PICK C, D : C = Contents /\ D = Contents'
  OBVIOUS
<1>18. C \in Contained /\ D \in Contained
  BY <1>13, <1>17, ContentsTyped, ContentsTypedThen DEF Kept
<1>19. Apart(D) /\ OutOf(D) = OutOf(C)
  <2>1. /\ Apart(C) /\ D["held"] = {} /\ D["toHost"] = C["toHost"] \cup C["held"]
        /\ \A q \in Places \ {"held", "toHost"} : D[q] = C[q]
    BY <1>8, <1>16, <1>17
  <2> QED
    BY <1>8, <1>18, <2>1, AllMoved
<1>20. Kept'
  BY <1>1, <1>12, <1>13, <1>15, <1>17, <1>19 DEF Kept, Counted, Apart, OutOf
<1>21. ASSUME Contents["held"] = {} PROVE Contents' = Contents
  <2>1. \A q \in Places : D[q] = C[q]
    BY <1>16, <1>17, <1>21
  <2>2. D = C
    BY <1>18, <2>1 DEF Contained
  <2> QED
    BY <1>17, <2>2
<1> QED
  BY <1>1, <1>20, <1>21
----------------------------------------------------------------------------
(* Steps on the pool and the port.                                          *)

LEMMA WorkerPoolKeeps ==
  ASSUME Kept, Todo, WorkerPool
  PROVE  /\ Kept'
         /\ Contents["pool"] = {} /\ Head(todo).do # "pool_create" => Contents' = Contents
<1>1. /\ UNCHANGED <<toVC, toHost, bulks, vc, reply, port, callbackQueue, action, lost, trouble>>
      /\ UNCHANGED <<stills, preview, stop, life, complete, cb, db, offset, size, created, links,
                     enabled>>
      /\ \/ /\ Head(todo).do = "pool_create" /\ todo # <<>>
            /\ \E H \in Recommended : pool' = SetToSeq(H) /\ payloads' = Cardinality(H)
         \/ Head(todo).do = "pool_destroy" /\ pool' = <<>> /\ payloads' = 0
  BY DEF WorkerPool, PoolCreate, Is, Then, wirevars, portvars, picturevars
<1>2. CallbackTyped' /\ WireTyped' /\ Busy' = Busy
  BY <1>1, CallbackUnchanged, WireUnchanged DEF Kept, Typed
<1>3. /\ pool' \in Seq(Headers) /\ OnceEach(pool')
      /\ payloads' \in {0} \cup {Cardinality(H) : H \in Recommended}
  <2>1. <<>> \in Seq(Headers) /\ OnceEach(<<>>)
    BY DEF OnceEach
  <2> QED
    BY <1>1, <2>1, PoolOnce
<1>4. Typed'
  BY <1>1, <1>2, <1>3 DEF Kept, Typed, PortTyped, WorkerTyped
<1>5. Once'
  BY <1>1, <1>3, SameOnce DEF Kept, Once, OnceEach
<1>6. /\ \A q \in Places \ {"pool"} : Contents'[q] = Contents[q]
      /\ "pool" \in Places /\ "pool" \notin OutPlaces /\ OutPlaces \subseteq Places
  BY <1>1, SamePlaces, AllPlaces DEF Places, OutPlaces
<1>7. Contents' \in Contained /\ Contents \in Contained
  BY <1>4, ContentsTyped, ContentsTypedThen DEF Kept
<1>8. \/ Contents'["pool"] = {}
      \/ Head(todo).do = "pool_create" /\ \A q \in Places : Contents[q] = {}
  <2>1. CASE Head(todo).do = "pool_create" /\ todo # <<>>
    BY <2>1, CallNext DEF Fresh
  <2>2. CASE pool' = <<>>
    <3>1. Range(<<>>) = {}
      BY DEF Range
    <3> QED
      BY <2>2, <3>1, ContentsThen DEF ContentsAre, Range
  <2> QED
    BY <1>1, <2>1, <2>2
<1>9. PICK C, D : C = Contents /\ D = Contents'
  OBVIOUS
<1>10. /\ \A q \in Places \ {"pool"} : D[q] = C[q]
       /\ D["pool"] = {} \/ \A q \in Places : C[q] = {}
       /\ \A q, r \in Places : q # r => C[q] \cap C[r] = {}
  BY <1>6, <1>8, <1>9 DEF Kept, Apart
<1>11. Apart(D)
  <2>1. ASSUME NEW q \in Places, NEW r \in Places, q # r PROVE D[q] \cap D[r] = {}
    BY <1>10, <2>1
  <2> QED
    BY <2>1 DEF Apart
<1>12. OutOf(D) = OutOf(C)
  <2>1. \A q \in OutPlaces : D[q] = C[q]
    BY <1>6, <1>10
  <2> QED
    BY <2>1 DEF OutOf
<1>13. Kept'
  BY <1>1, <1>2, <1>4, <1>5, <1>9, <1>11, <1>12 DEF Kept, Counted, Apart, OutOf
<1>14. ASSUME Contents["pool"] = {}, Head(todo).do # "pool_create" PROVE Contents' = Contents
  <2>1. \A q \in Places : Contents'[q] = Contents[q]
    BY <1>6, <1>8, <1>14
  <2> QED
    BY <1>7, <2>1 DEF Contained
<1> QED
  BY <1>13, <1>14

LEMMA WorkerPortKeeps ==
  ASSUME Kept, WorkerPort
  PROVE  Kept' /\ (Contents["queue"] = {} => Contents' = Contents)
<1>1. /\ UNCHANGED <<toVC, toHost, bulks, vc, reply, callbackQueue, action, lost, trouble>>
      /\ UNCHANGED <<stills, preview, stop, life, complete, cb, db, offset, size, created, links,
                     enabled, payloads>>
  BY DEF WorkerPort, Then, wirevars, picturevars, setupvars
<1>2. CallbackTyped' /\ WireTyped' /\ WorkerTyped' /\ Busy' = Busy /\ \A t : InHand(t)' = InHand(t)
  BY <1>1, CallbackUnchanged, WireUnchanged, WorkerUnchanged DEF Kept, Typed
<1>3. /\ port \in [isEnabled : BOOLEAN, hasPool : BOOLEAN, isPaused : BOOLEAN,
                   queue : Seq(Headers), transit : Int]
      /\ pool \in Seq(Headers) /\ OnceEach(pool) /\ OnceEach(port.queue)
  BY DEF Kept, Typed, PortTyped, Once
<1>4. CASE UNCHANGED pool /\ \/ port' = [port EXCEPT !.isEnabled = TRUE, !.hasPool = TRUE]
                             \/ port' = [port EXCEPT !.isEnabled = TRUE]
                             \/ port' = [port EXCEPT !.isEnabled = FALSE]
                             \/ port' = [port EXCEPT !.hasPool = FALSE]
                             \/ port' = port
  <2>1. /\ port' \in [isEnabled : BOOLEAN, hasPool : BOOLEAN, isPaused : BOOLEAN,
                      queue : Seq(Headers), transit : Int]
        /\ port'.queue = port.queue /\ port'.transit = port.transit
    BY <1>3, <1>4
  <2>2. Typed'
    BY <1>1, <1>2, <1>4, <2>1 DEF Kept, Typed, PortTyped
  <2>3. Unmoved
    BY <1>1, <1>2, <1>4, <2>1 DEF Unmoved
  <2> QED
    BY <2>2, <2>3, NothingMoves DEF Kept
<1>5. CASE /\ pool' = pool \o port.queue
           /\ port' = [port EXCEPT !.transit = @ - Len(port.queue), !.queue = <<>>]
  <2>1. PICK k \in Nat : k = Len(port.queue)
    BY <1>3
  <2>2. PICK n \in Int : n = port.transit - k
    BY <1>3, <2>1
  <2>3. /\ port' \in [isEnabled : BOOLEAN, hasPool : BOOLEAN, isPaused : BOOLEAN,
                      queue : Seq(Headers), transit : Int]
        /\ port'.queue = <<>> /\ port'.transit = n
    <3>1. <<>> \in Seq(Headers)
      OBVIOUS
    <3>2. port' = [port EXCEPT !.transit = n, !.queue = <<>>]
      BY <1>5, <2>1, <2>2
    <3> QED
      BY <1>3, <2>2, <3>1, <3>2
  <2>4. /\ Contents["queue"] = Range(port.queue) /\ Contents'["queue"] = Range(port'.queue)
        /\ Contents["pool"] = Range(pool) /\ Contents'["pool"] = Range(pool')
    BY ContentsNow, ContentsThen DEF ContentsAre, Range
  <2>5. /\ "queue" \in Places /\ "pool" \in Places /\ "queue" \in OutPlaces /\ "pool" \notin OutPlaces
        /\ Apart(Contents)
    BY DEF Places, OutPlaces, Kept
  <2>6. Range(pool) \cap Range(port.queue) = {}
    BY <2>4, <2>5 DEF Apart
  <2>7. /\ pool' \in Seq(Headers) /\ Range(pool') = Range(pool) \cup Range(port.queue)
        /\ OnceEach(pool')
    BY <1>3, <1>5, <2>6, ConcatEach
  <2>8. Typed'
    BY <1>1, <1>2, <2>3, <2>7 DEF Kept, Typed, PortTyped
  <2>9. Range(<<>>) = {} /\ OnceEach(<<>>)
    BY DEF Range, OnceEach
  <2>10. Once'
    BY <1>1, <2>3, <2>7, <2>9, SameOnce DEF Kept, Once, OnceEach
  <2>11. /\ Contents'["queue"] = {} /\ Contents'["pool"] = Contents["pool"] \cup Contents["queue"]
         /\ \A q \in Places \ {"queue", "pool"} : Contents'[q] = Contents[q]
    BY <1>1, <2>3, <2>4, <2>7, <2>9, SamePlaces, AllPlaces
  <2>12. PICK C, D : C = Contents /\ D = Contents'
    OBVIOUS
  <2>13. C \in Contained /\ D \in Contained
    BY <2>8, <2>12, ContentsTyped, ContentsTypedThen DEF Kept
  <2>14. Apart(D) /\ Cardinality(OutOf(D)) = Cardinality(OutOf(C)) - Cardinality(C["queue"])
    <3>1. /\ Apart(C) /\ D["queue"] = {} /\ D["pool"] = C["pool"] \cup C["queue"]
          /\ \A q \in Places \ {"queue", "pool"} : D[q] = C[q]
      BY <2>5, <2>11, <2>12
    <3> QED
      BY <2>5, <2>13, <3>1, AllMoved
  <2>15. Cardinality(C["queue"]) = k
    BY <1>3, <2>1, <2>4, <2>12, OnceCounts
  <2>16. PICK i \in Nat, j \in Nat : i = Cardinality(OutOf(C)) /\ j = Cardinality(Busy)
    BY <2>13, OutFinite, BusyFinite
  <2>17. Cardinality(OutOf(D)) = i - k /\ port'.transit = (i + j) - k
    BY <2>2, <2>3, <2>12, <2>14, <2>15, <2>16 DEF Kept, Counted, OutOf
  <2>18. Counted'
    <3>1. (i + j) - k = (i - k) + j
      OBVIOUS
    <3> QED
      BY <1>2, <2>12, <2>16, <2>17, <3>1 DEF Counted, OutOf
  <2>19. Kept'
    BY <2>8, <2>10, <2>12, <2>14, <2>18 DEF Kept, Apart
  <2>20. ASSUME Contents["queue"] = {} PROVE Contents' = Contents
    <3>1. \A q \in Places : D[q] = C[q]
      BY <2>11, <2>12, <2>20
    <3>2. D = C
      BY <2>13, <3>1 DEF Contained
    <3> QED
      BY <2>12, <3>2
  <2> QED
    BY <2>19, <2>20
<1> QED
  BY <1>4, <1>5 DEF WorkerPort

----------------------------------------------------------------------------
(* What the worker has left to do.                                          *)

WorkerSteps ==
    \/ WorkerReturns \/ WorkerPool \/ WorkerChooses \/ WorkerEnds \/ WorkerSends
    \/ WorkerAwaits \/ WorkerPort \/ WorkerLocks \/ WorkerDrained

\* Every step of the worker is replaced by good steps.
LEMMA StepsAdd ==
  ASSUME NEW K \in SUBSET Special, NEW both, both => "enabled_again" \notin K,
         IsList(pool), WorkerSteps, GoodStep(Head(todo), K, both),
         reply = "failed" => both, "disable_output" \in K => "cleanup" \in K,
         K \cap Locking = {} \/ Head(todo).do # "disable_output" \/ ~port.isEnabled,
         Head(todo).do = "start" => Good(StartEncoding, K, both),
         Head(todo).do = "while" => Good(StillsRound, K, both) /\ Good(Teardown, K, both),
         Head(todo).do = "poll" => Good(Teardown, K, both)
  PROVE  todo # <<>> /\ \E more : Good(more, K, both) /\ todo' = more \o Tail(todo)
<1>1. Good(<<>>, K, both)
  BY GoodNil
<1>2. CASE WorkerReturns
  <2>1. Good(Head(todo).then, K, both) /\ (both => Good(Head(todo).else, K, both))
    BY <1>2, GoodThen DEF WorkerReturns, Is
  <2> QED
    BY <1>2, <2>1 DEF WorkerReturns, Is, Then
<1>3. CASE WorkerPool
  BY <1>1, <1>3 DEF WorkerPool, Is, Then
<1>4. CASE WorkerEnds
  BY <1>1, <1>4 DEF WorkerEnds, Is, Then
<1>5. CASE WorkerSends \/ WorkerAwaits \/ WorkerDrained
  BY <1>1, <1>5 DEF WorkerSends, WorkerAwaits, WorkerDrained, Is, Then
<1>6. CASE WorkerPort
  BY <1>1, <1>6 DEF WorkerPort, Is, Then
<1>7. CASE WorkerLocks
  BY <1>1, <1>7 DEF WorkerLocks, Is, Then
<1>8. CASE WorkerChooses
  <2>1. todo # <<>>
    BY <1>8 DEF WorkerChooses, Is
  <2>2. CASE Is("start") /\ Then(StartEncoding)
    BY <2>1, <2>2 DEF Is, Then
  <2>3. CASE Is("unless_ENOSYS") /\ (Then(<<>>) \/ Then(<<Exit>>))
    <3>1. Good(<<Exit>>, K, both)
      BY PlainCalls
    <3> QED
      BY <1>1, <2>1, <2>3, <3>1 DEF Then
  <2>4. CASE Is("while") /\ Then(IF stop THEN Teardown ELSE StillsRound)
    BY <2>1, <2>4 DEF Is, Then
  <2>5. CASE Is("poll") /\ stop /\ Then(Teardown)
    BY <2>1, <2>5 DEF Is, Then
  <2>6. CASE Is("count") /\ Then([i \in DOMAIN pool |-> Do("send", "")])
    <3>1. Good([i \in DOMAIN pool |-> Do("send", "")], K, both)
      <4>1. PICK n \in Nat : DOMAIN pool = 1 .. n
        BY ListFacts
      <4>2. PICK x : x = Do("send", "")
        OBVIOUS
      <4>3. [i \in DOMAIN pool |-> x] \in [1 .. n -> {x}]
        BY <4>1
      <4>4. [i \in DOMAIN pool |-> x] \in Seq({x})
        BY <4>3
      <4>5. GoodStep(x, K, both)
        BY <4>2, GoodDo DEF Special
      <4>6. PICK l : l = [i \in DOMAIN pool |-> x]
        OBVIOUS
      <4>7. l \in Seq({x}) /\ \A i \in DOMAIN l : l[i] = x
        BY <4>4, <4>6
      <4> QED
        BY <4>2, <4>5, <4>6, <4>7 DEF Good, IsList
    <3> QED
      BY <2>1, <2>6, <3>1 DEF Then
  <2>7. CASE Is("disable_output") /\ Then(IF port.isEnabled THEN DisablePort ELSE <<>>)
    <3>1. Head(todo).do = "disable_output"
      BY <2>7 DEF Is
    <3>2. Good(IF port.isEnabled THEN DisablePort ELSE <<>>, K, both)
      BY <1>1, <3>1, GoodDisablePort
    <3> QED
      BY <2>1, <2>7, <3>2 DEF Then
  <2>8. CASE /\ Is("disable")
             /\ Then(IF Arg \in enabled THEN DisableTunnel(TunnelOf(Arg), <<>>) ELSE <<>>)
    BY <1>1, <2>1, <2>8, GoodDisableTunnel DEF Then
  <2>9. CASE Is("disconnect") /\ Then(Disconnect(Arg))
    BY <2>1, <2>9, GoodDestruction DEF Then
  <2>10. CASE Is("cleanup") /\ Then(Cleanup(Arg))
    <3>1. "cleanup" \notin K
      BY <2>10 DEF Is, GoodStep, Closed
    <3>2. Good(Cleanup(Arg), K, both)
      BY <3>1, GoodCleanup
    <3> QED
      BY <2>1, <2>10, <3>2 DEF Then
  <2>11. CASE /\ Is("unless_referenced")
              /\ Then(IF Arg = "encoder" /\ payloads > 0 THEN <<>> ELSE DestroyInternal(Arg))
    BY <1>1, <2>1, <2>11, GoodDestruction DEF Then
  <2>12. CASE Is("semaphore_delete") /\ Then(<<>>)
    BY <1>1, <2>1, <2>12 DEF Then
  <2> QED
    BY <1>8, <2>2, <2>3, <2>4, <2>5, <2>6, <2>7, <2>8, <2>9, <2>10, <2>11, <2>12
       DEF WorkerChooses
<1> QED
  BY <1>2, <1>3, <1>4, <1>5, <1>6, <1>7, <1>8 DEF WorkerSteps
LEMMA ListsAfterPool ==
  /\ Good(StartEncoding, NoPool, TRUE) /\ Good(StillsRound, NoPool, TRUE)
  /\ Good(Teardown, NoPool, TRUE)
<1>1. NoPool \in SUBSET Special /\ "is_enabled" \notin NoPool
  BY DEF NoPool, Special
<1>2. Good(<<Do("while", "")>>, NoPool, TRUE) /\ Good(<<Do("poll", "")>>, NoPool, TRUE)
  BY GoodDo DEF NoPool
<1>3. Good(StillsRound, NoPool, TRUE)
  BY <1>1, <1>2, GoodStillsRound, GoodConcat DEF Before
<1>4. Good(StartEncoding, NoPool, TRUE)
  <2>1. PICK last \in {Do("while", ""), Do("poll", "")} :
            Before(StartEncoding, NoPool, TRUE, <<last>>)
    BY <1>1, GoodStartEncoding
  <2>2. Good(<<last>>, NoPool, TRUE)
    BY <1>2
  <2> QED
    BY <2>1, <2>2, GoodConcat DEF Before
<1> QED
  BY <1>3, <1>4, GoodTeardown DEF NoPool

LEMMA WorkerStepsKeep ==
  ASSUME Kept, Todo, WorkerSteps
  PROVE  /\ Kept' /\ UNCHANGED cb /\ action'.sema = action.sema /\ todo # <<>>
         /\ Fresh /\ Head(todo).do # "pool_create" => Contents' = Contents
<1>1. UNCHANGED cb
  BY DEF WorkerSteps, WorkerReturns, WorkerPool, WorkerChooses, WorkerEnds, WorkerSends,
         WorkerAwaits, WorkerPort, WorkerLocks, WorkerDrained
<1>2. action'.sema = action.sema
  <2>1. UNCHANGED action \/ \E t : action' = [action EXCEPT !.mutex = t]
    BY DEF WorkerSteps, WorkerReturns, WorkerPool, WorkerChooses, WorkerEnds, WorkerSends,
           WorkerAwaits, WorkerPort, WorkerLocks, WorkerDrained, mmalvars, portvars,
           ActionLock, ActionUnlock, ActionQuits
  <2> QED
    BY <2>1 DEF Kept, Typed, PortTyped
<1>3. todo # <<>>
  BY DEF WorkerSteps, WorkerReturns, WorkerPool, WorkerChooses, WorkerEnds, WorkerSends,
         WorkerAwaits, WorkerPort, WorkerLocks, WorkerDrained, Is
<1>4. Fresh => Contents["queue"] = {} /\ Contents["pool"] = {} /\ pool = <<>>
  <2>1. ASSUME Fresh PROVE Contents["queue"] = {} /\ Contents["pool"] = {}
    BY <2>1 DEF Fresh, Places, OutPlaces
  <2>2. pool # <<>> => Range(pool) # {}
    BY TailEach DEF Kept, Typed, PortTyped, Once
  <2> QED
    BY <2>1, <2>2, ContentsNow DEF ContentsAre
<1>5. Kept' /\ (Fresh /\ Head(todo).do # "pool_create" => Contents' = Contents)
  <2>1. CASE WorkerReturns
    BY <2>1, WorkerReturnsKeeps
  <2>2. CASE WorkerPool
    BY <1>4, <2>2, WorkerPoolKeeps
  <2>3. CASE WorkerChooses \/ WorkerEnds \/ WorkerAwaits \/ WorkerDrained
    BY <2>3, LightSteps
  <2>4. CASE WorkerSends
    BY <1>4, <2>4, WorkerSendsKeeps
  <2>5. CASE WorkerPort
    BY <1>4, <2>5, WorkerPortKeeps
  <2>6. CASE WorkerLocks
    BY <2>6, WorkerLocksKeeps
  <2> QED
    BY <2>1, <2>2, <2>3, <2>4, <2>5, <2>6 DEF WorkerSteps
<1> QED
  BY <1>1, <1>2, <1>3, <1>5

LEMMA FreshStays ==
  ASSUME Fresh, Contents' = Contents, UNCHANGED cb, action'.sema = action.sema
  PROVE  Fresh'
BY DEF Fresh, At

LEMMA WorkerStepsTodo ==
  ASSUME Kept, Todo, WorkerSteps
  PROVE  Todo'
<1>1. /\ UNCHANGED cb /\ action'.sema = action.sema /\ todo # <<>>
      /\ Fresh /\ Head(todo).do # "pool_create" => Contents' = Contents
  BY WorkerStepsKeep
<1>2. /\ NoPool \in SUBSET Special /\ "enabled_again" \notin NoPool /\ IsList(pool)
      /\ "disable_output" \notin NoPool /\ NoPool \cap Locking = {}
  BY DEF NoPool, Special, Locking, Kept, Typed, PortTyped, IsList
<1>3. ASSUME GoodStep(Head(todo), NoPool, TRUE)
      PROVE  \E more : Good(more, NoPool, TRUE) /\ todo' = more \o Tail(todo)
  BY <1>2, <1>3, StepsAdd, ListsAfterPool
<1>4. CASE Good(todo, NoPool, TRUE)
  <2>1. GoodStep(Head(todo), NoPool, TRUE) /\ Good(Tail(todo), NoPool, TRUE)
    BY <1>1, <1>4, GoodTail
  <2> QED
    BY <1>3, <2>1, GoodConcat DEF Todo
<1>5. CASE Before(todo, NoPool, TRUE, <<Do("pool_create", ""), Do("start", "")>>) /\ Fresh
  <2>1. CASE todo = <<Do("pool_create", ""), Do("start", "")>>
    <3>1. Head(todo).do = "pool_create" /\ Tail(todo) = <<Do("start", "")>>
      BY <2>1, Prelude
    <3>2. todo' = <<>> \o Tail(todo)
      BY <3>1 DEF WorkerSteps, WorkerReturns, WorkerPool, WorkerChooses, WorkerEnds, WorkerSends,
                  WorkerAwaits, WorkerPort, WorkerLocks, WorkerDrained, Is, Then
    <3>3. Good(<<>>, NoPool, TRUE) /\ Good(<<Do("start", "")>>, NoPool, TRUE)
      BY GoodNil, GoodDo DEF NoPool
    <3> QED
      BY <3>1, <3>2, <3>3, GoodConcat DEF Todo
  <2>2. ASSUME GoodStep(Head(todo), NoPool, TRUE),
               \A more : Good(more, NoPool, TRUE) =>
                   Before(more \o Tail(todo), NoPool, TRUE, <<Do("pool_create", ""), Do("start", "")>>)
        PROVE  Todo'
    <3>1. Head(todo).do # "pool_create"
      BY <2>2 DEF GoodStep, Closed, NoPool
    <3>2. Fresh'
      BY <1>1, <1>5, <3>1, FreshStays
    <3>3. Before(todo', NoPool, TRUE, <<Do("pool_create", ""), Do("start", "")>>)
      BY <1>3, <2>2
    <3> QED
      BY <3>2, <3>3 DEF Todo, Before
  <2> QED
    BY <1>5, <2>1, <2>2, BeforeTail, Prelude
<1> QED
  BY <1>4, <1>5 DEF Todo

\* The other steps do not change what the worker has left.
LEMMA TodoStays ==
  ASSUME Todo, UNCHANGED todo, Fresh => Fresh'
  PROVE  Todo'
BY DEF Todo, Before

LEMMA CallbackKeeps ==
  ASSUME Kept, Todo, NEW t \in Threads, Callback(t)
  PROVE  Kept' /\ Todo'
<1>1. Kept'
  BY CallbackBeginsKeeps, CopyKeeps, CallbackReleasesKeeps, CallbackGetsKeeps,
     CallbackPostsKeeps, CallbackEndsKeeps DEF Callback
<1>2. ~Fresh
  <2> SUFFICES ASSUME Fresh PROVE FALSE
    OBVIOUS
  <2>1. cb[t].at = "idle"
    BY DEF Fresh, At
  <2>2. CallbackBegins(t)
    BY <2>1 DEF Callback, Copy, CallbackReleases, CallbackGets, CallbackPosts, CallbackEnds, At
  <2>3. t = "worker" /\ callbackQueue # <<>>
    BY <2>1, <2>2 DEF CallbackBegins, At, Threads
  <2>4. HeadersOf(callbackQueue) # {}
    <3>1. \A y \in HeldHeader : y.header \in Headers
      BY DEF HeldHeader
    <3> QED
      BY <2>3, <3>1, TailHeld DEF Kept, Typed, PortTyped, Once
  <2> QED
    BY <2>4, ContentsNow DEF ContentsAre, Fresh, Places, OutPlaces
<1>3. UNCHANGED todo
  BY DEF Callback, CallbackBegins, Copy, CallbackReleases, CallbackGets, CallbackPosts,
         CallbackEnds, workervars
<1> QED
  BY <1>1, <1>2, <1>3, TodoStays

LEMMA WorkerKeeps ==
  ASSUME Kept, Todo, Worker
  PROVE  Kept' /\ Todo'
<1>1. CASE WorkerCalls
  <2>1. Kept' /\ Contents' = Contents /\ UNCHANGED <<cb, todo, action>>
    BY <1>1, WorkerCallsKeeps DEF WorkerCalls, SendWait, workervars, portvars
  <2> QED
    BY <2>1, FreshStays, TodoStays
<1>2. CASE WorkerSteps
  BY <1>2, WorkerStepsKeep, WorkerStepsTodo
<1>3. CASE Callback("worker")
  BY <1>3, CallbackKeeps DEF Threads
<1> QED
  BY <1>1, <1>2, <1>3 DEF Worker, WorkerSteps

LEMMA ActionKeeps ==
  ASSUME Kept, Todo, Action
  PROVE  Kept' /\ Todo'
<1>1. CASE ActionWakes
  <2>1. Kept' /\ UNCHANGED todo /\ ~Fresh
    BY <1>1, ActionWakesKeeps DEF ActionWakes, workervars, Fresh
  <2> QED
    BY <2>1, TodoStays
<1>2. CASE Callback("action")
  BY <1>2, CallbackKeeps DEF Threads
<1>3. CASE CallbackSends
  <2>1. Kept' /\ UNCHANGED todo /\ ~Fresh
    BY <1>3, CallbackSendsKeeps DEF CallbackSends, workervars, Fresh, At, Threads
  <2> QED
    BY <2>1, TodoStays
<1> QED
  BY <1>1, <1>2, <1>3 DEF Action

\* A queue with a header in it shows that the encoding has begun.
LEMMA FreshEmpty ==
  ASSUME Kept, Fresh
  PROVE  bulks = <<>> /\ vc.held = <<>> /\ Contents["toHost"] = {} /\ Contents["toVC"] = {}
         /\ Contents["held"] = {}
<1>1. /\ Contents["bulks"] = {} /\ Contents["held"] = {} /\ Contents["toHost"] = {}
      /\ Contents["toVC"] = {}
  BY DEF Fresh, Places, OutPlaces
<1>2. bulks # <<>> => HeadersOf(bulks) # {}
  <2>1. \A y \in HeldHeader : y.header \in Headers
    BY DEF HeldHeader
  <2> QED
    BY <2>1, TailHeld DEF Kept, Typed, WireTyped, Once
<1>3. vc.held # <<>> => Range(vc.held) # {}
  BY TailEach DEF Kept, Typed, WireTyped, Once
<1> QED
  BY <1>1, <1>2, <1>3, ContentsNow DEF ContentsAre

LEMMA VideoCoreKeeps ==
  ASSUME Kept, Todo, Vchiq \/ Encoder \/ Server
  PROVE  Kept' /\ Todo'
<1>1. UNCHANGED todo /\ UNCHANGED cb /\ UNCHANGED rest
  BY DEF Vchiq, Encoder, Server, rest, workervars
<1>2. Kept' /\ (Fresh => Contents' = Contents /\ UNCHANGED action)
  <2>1. CASE VchiqMessage
    BY <1>1, <2>1, VchiqMessageKeeps, FreshEmpty
  <2>2. CASE VchiqBulk
    BY <1>1, <2>2, VchiqBulkKeeps, FreshEmpty DEF VchiqBulk
  <2>3. CASE Encodes(stills)
    BY <1>1, <2>3, EncodesKeeps, FreshEmpty
  <2>4. CASE VCReceives
    BY <1>1, <2>4, VCReceivesKeeps, FreshEmpty
  <2>5. CASE VCDisables
    BY <1>1, <2>5, VCDisablesKeeps, FreshEmpty
  <2> QED
    BY <2>1, <2>2, <2>3, <2>4, <2>5 DEF Vchiq, Encoder, Server
<1> QED
  BY <1>1, <1>2, FreshStays, TodoStays

LEMMA StopKeeps ==
  ASSUME Kept, Todo, Stop
  PROVE  Kept' /\ Todo'
<1>1. Kept' /\ Contents' = Contents /\ UNCHANGED <<cb, todo, action>>
  BY LightSteps DEF Stop, mmalvars, portvars
<1> QED
  BY <1>1, FreshStays, TodoStays

LEMMA StutterKeeps ==
  ASSUME Kept, Todo, UNCHANGED vars
  PROVE  Kept' /\ Todo'
<1>1. UNCHANGED <<mmalvars, cb, todo, action>> /\ WorkerTyped'
  BY WorkerUnchanged DEF vars, mmalvars, portvars, workervars, picturevars, setupvars, Kept, Typed
<1>2. Kept' /\ Contents' = Contents
  BY <1>1, LightKeeps
<1> QED
  BY <1>1, <1>2, FreshStays, TodoStays
----------------------------------------------------------------------------
(* The theorems.                                                            *)

LEMMA InitKept ==
  ASSUME Init
  PROVE  Kept /\ Todo
<1>1. /\ toVC = <<>> /\ toHost = <<>> /\ bulks = <<>> /\ reply = "none" /\ callbackQueue = <<>>
      /\ vc = [held |-> <<>>, captures |-> FALSE, frame |-> 0, part |-> 1, disables |-> FALSE]
      /\ port = [isEnabled |-> FALSE, hasPool |-> FALSE, isPaused |-> FALSE,
                 queue |-> <<>>, transit |-> 0]
      /\ action = [sema |-> 0, mutex |-> "none"] /\ pool = <<>> /\ lost = {} /\ trouble = 0
      /\ cb = [t \in Threads |-> NoCallback]
  BY DEF Init, MmalInit
<1>2. /\ NoCallback \in [at : Steps, of : HeldHeader \cup {NoHeader}, next : Headers \cup {"none"}]
      /\ NoCallback.at = "idle"
  BY DEF NoCallback, NoHeader, Steps
<1>3. CallbackTyped /\ (\A t \in Threads : At(t, "idle") /\ InHand(t) = {}) /\ Busy = {}
  BY <1>1, <1>2 DEF CallbackTyped, At, InHand, Busy
<1>4. /\ <<>> \in Seq(HostMsgs) /\ <<>> \in Seq(HeldHeader) /\ <<>> \in Seq(Headers)
      /\ IsList(<<>>) /\ DOMAIN <<>> = {}
  BY GoodNil
<1>5. WireTyped
  <2>1. CallsTyped(toVC)
    BY <1>1, <1>4 DEF CallsTyped
  <2>2. 1 \in 1 .. MaxParts
    BY MmalBoundsOK
  <2> QED
    BY <1>1, <1>4, <2>1, <2>2 DEF WireTyped
<1>6. PortTyped
  BY <1>1, <1>4, MmalBoundsOK DEF PortTyped
<1>7. WorkerTyped
  <2>1. stills \in BOOLEAN /\ preview \in BOOLEAN
    <3>1. PICK given \in Options : /\ stills = ("stills" \in given)
                                   /\ preview = ("preview" \in given)
      BY DEF Init
    <3>2. ("stills" \in given) \in BOOLEAN /\ ("preview" \in given) \in BOOLEAN
      OBVIOUS
    <3> QED
      BY <3>1, <3>2
  <2>2. /\ life = "runs" /\ stop = FALSE /\ complete = 0 /\ db = FALSE /\ offset = 0 /\ size = 0
        /\ created = {} /\ links = {} /\ enabled = {} /\ payloads = 0
    BY DEF Init
  <2> QED
    BY <2>1, <2>2 DEF WorkerTyped
<1>8. Once
  BY <1>1, <1>4 DEF Once, OnceSent, OnceEach, OnceHeld, BuffersIn
<1>9. \A p \in Places : Contents[p] = {}
  <2>1. MsgHeaders(<<>>) = {} /\ HeadersOf(<<>>) = {} /\ Range(<<>>) = {}
    BY <1>4 DEF MsgHeaders, BuffersIn, HeadersOf, Range
  <2>2. InHand("worker") = {} /\ InHand("action") = {}
    BY <1>3 DEF Threads
  <2> QED
    BY <1>1, <2>1, <2>2, ContentsNow, AllPlaces DEF ContentsAre
<1>10. Apart(Contents)
  BY <1>9 DEF Apart
<1>11. Counted
  <2>1. OutOf(Contents) = {}
    BY <1>9 DEF OutOf, Places
  <2> QED
    BY <1>1, <1>3, <2>1, FS_EmptySet DEF Counted
<1>12. Fresh
  BY <1>1, <1>3, <1>9 DEF Fresh
<1>13. Before(todo, NoPool, TRUE, <<Do("pool_create", ""), Do("start", "")>>)
  <2>1. NoPool \in SUBSET Special
    BY DEF NoPool, Special
  <2>2. PICK a, b : a = Do("pool_create", "") /\ b = Do("start", "")
    OBVIOUS
  <2>3. PICK p : Good(p, NoPool, TRUE) /\ OpenEncoder = p \o <<a>>
    BY <2>1, <2>2, GoodOpenEncoder
  <2>4. PICK c : c = OpenCamera /\ Good(c, NoPool, TRUE)
    BY <2>1, GoodOpenCamera
  <2>5. todo = (c \o (p \o <<a>>)) \o <<b>>
    BY <2>2, <2>3, <2>4 DEF Init
  <2>6. IsList(c) /\ IsList(p) /\ IsList(<<a>>) /\ IsList(<<b>>) /\ <<a>> \o <<b>> = <<a, b>>
    <3>1. <<a>> \in Seq({a}) /\ <<b>> \in Seq({b})
      OBVIOUS
    <3> QED
      BY <2>3, <2>4, <3>1, Pair DEF Good, IsList
  <2>7. c \o (p \o <<a>>) = (c \o p) \o <<a>>
    BY <2>6, ConcatLists
  <2>8. ((c \o p) \o <<a>>) \o <<b>> = (c \o p) \o (<<a>> \o <<b>>)
    <3>1. IsList(c \o p)
      BY <2>6, ConcatList
    <3> QED
      BY <2>6, <3>1, ConcatLists
  <2>9. Good(c \o p, NoPool, TRUE)
    BY <2>3, <2>4, GoodConcat
  <2>10. todo = (c \o p) \o <<a, b>>
    BY <2>5, <2>6, <2>7, <2>8
  <2> QED
    BY <2>2, <2>9, <2>10 DEF Before
<1> QED
  BY <1>3, <1>5, <1>6, <1>7, <1>8, <1>10, <1>11, <1>12, <1>13 DEF Kept, Typed, Todo

LEMMA NextKeeps ==
  ASSUME Kept, Todo, [Next]_vars
  PROVE  Kept' /\ Todo'
<1>1. CASE Worker
  BY <1>1, WorkerKeeps
<1>2. CASE Action
  BY <1>2, ActionKeeps
<1>3. CASE Vchiq \/ Encoder \/ Server
  BY <1>3, VideoCoreKeeps
<1>4. CASE Stop
  BY <1>4, StopKeeps
<1>5. CASE UNCHANGED vars
  BY <1>5, StutterKeeps
<1> QED
  BY <1>1, <1>2, <1>3, <1>4, <1>5 DEF Next

LEMMA Invariant == Spec => [](Kept /\ Todo)
<1>1. Init => Kept /\ Todo
  BY InitKept
<1>2. Kept /\ Todo /\ [Next]_vars => (Kept /\ Todo)'
  BY NextKeeps
<1> QED
  BY <1>1, <1>2, PTL DEF Spec

LEMMA KeptTyped ==
  ASSUME Kept
  PROVE  TypeOK
<1>1. ASSUME NEW h \in HeldHeader PROVE HeaderTypeOK(h)
  <2>1. h.header \in Headers /\ h.data \in Datas /\ h.end \in BOOLEAN /\ h.failed \in BOOLEAN
    BY DEF HeldHeader
  <2>2. h.data = NoData \/ Head(h.data) \in (0 .. 1) \X (1 .. MaxParts) \X BOOLEAN
    BY <2>1 DEF Datas
  <2> QED
    BY <2>1, <2>2 DEF HeaderTypeOK
<1>2. \A h \in Range(bulks) \cup Range(callbackQueue) : HeaderTypeOK(h)
  <2>1. Range(bulks) \in SUBSET HeldHeader /\ Range(callbackQueue) \in SUBSET HeldHeader
    BY RangeTyped DEF Kept, Typed, WireTyped, PortTyped
  <2> QED
    BY <1>1, <2>1
<1>3. Range(vc.held) \subseteq Headers /\ Range(pool) \cup lost \subseteq Headers
  BY RangeTyped DEF Kept, Typed, WireTyped, PortTyped
<1>4. port.transit \in Nat
  <2>1. Cardinality(OutOf(Contents)) \in Nat /\ Cardinality(Busy) \in Nat
    BY ContentsTyped, OutFinite, BusyFinite DEF Kept
  <2> QED
    BY <2>1 DEF Kept, Counted
<1>5. MmalTypeOK
  BY <1>2, <1>3, <1>4 DEF MmalTypeOK, Kept, Typed, WireTyped, PortTyped
<1>6. cb \in [Threads -> [at : {"idle", "begin", "copy", "release", "resend", "send", "post",
                                "done"},
                          of : {cb[t].of : t \in Threads}, next : Headers \cup {"none"}]]
  BY DEF Kept, Typed, CallbackTyped, Steps
<1>7. /\ {stills, preview, stop, db} \subseteq BOOLEAN
      /\ life \in {"runs", "ended", "exited", "crashed"}
      /\ complete \in Nat /\ offset \in Nat /\ size \in Nat
      /\ created \subseteq {"camera", "preview", "encoder"} /\ links \subseteq Tunnels
      /\ enabled \subseteq {"control", "output"} \cup UNION {{Out(x), In(x)} : x \in Tunnels}
      /\ payloads \in {0} \cup {Cardinality(H) : H \in Recommended}
  BY DEF Kept, Typed, WorkerTyped, Ports
<1> QED
  BY <1>5, <1>6, <1>7 DEF TypeOK

LEMMA KeptConserved ==
  ASSUME Kept
  PROVE  Conserved
<1>1. Cardinality(Range(pool)) = Len(pool)
  BY OnceCounts DEF Kept, Typed, PortTyped, Once
<1>2. OnTheWire \cup HeadersOf(callbackQueue) \cup Range(port.queue) = OutOf(Contents)
  <2>1. OutOf(Contents) = UNION {Contents["toVC"], Contents["held"], Contents["toHost"],
                                 Contents["bulks"], Contents["callbacks"], Contents["queue"]}
    BY DEF OutOf, OutPlaces
  <2> QED
    BY <2>1, ContentsNow DEF ContentsAre, OnTheWire, MsgHeaders
<1>3. OutOf(Contents) \cap (Range(pool) \cup lost) = {}
  <2>1. \A p \in OutPlaces : /\ Contents[p] \cap Contents["pool"] = {}
                             /\ Contents[p] \cap Contents["lost"] = {}
    BY DEF Kept, Apart, Places, OutPlaces
  <2> QED
    BY <2>1, ContentsNow DEF ContentsAre, OutOf
<1>4. port.transit = Cardinality(OutOf(Contents))
                     + Cardinality({t \in Threads : ~At(t, "idle") /\ ~At(t, "begin")})
  BY DEF Kept, Counted, Busy
<1> QED
  BY <1>1, <1>2, <1>3, <1>4 DEF Conserved

\* All variables have their types: the worker creates, connects and enables
\* only what there is, whatever fails, and a header is one of the pool's.
THEOREM TypeCorrect == Spec => []TypeOK
<1>1. Kept => TypeOK
  BY KeptTyped
<1> QED
  BY <1>1, Invariant, PTL

\* No buffer header is in two places, and the count of those in transit,
\* which mmal_port_disable waits for, is that of the headers which are with
\* VideoCore, on the way, waiting for their callback or queued, and of the
\* callbacks that run: whatever fails, in any order of the threads.
THEOREM HeadersConserved == Spec => []Conserved
<1>1. Kept => Conserved
  BY KeptConserved
<1> QED
  BY <1>1, Invariant, PTL
----------------------------------------------------------------------------
(* How far the worker has come.  As long as nothing has failed the encoder's *)
(* port is disabled once: its end is waited for before the pool is           *)
(* destroyed, and nothing enables it again.                                  *)

Answered == <<Do("no_pool", ""), Do("drain", ""), Do("action_unlock", ""), Do("flush", ""),
              Do("transit_wait", "")>>
Refused  == <<Do("no_pool", ""), Do("drain", ""), Do("action_unlock", ""),
              Do("enabled_again", "")>>
DisableCall == Call("port_disable", "output", Answered, Refused)

\* Before the encoder's port is enabled, and while pictures are taken.
Early == \E z \in {<<Do("pool_create", ""), Do("start", "")>>, <<Do("start", "")>>,
                   <<Do("while", "")>>, <<Do("poll", "")>>} :
             Before(todo, BeforeDisable, TRUE, z)

\* Before the port is disabled.
Going == \E q : /\ Good(q, AfterDisable, FALSE)
                /\ Before(todo, BeforeDisable, TRUE,
                          <<Do("not_enabled", "")>>
                              \o (<<Do("action_lock", ""), DisableCall>> \o q))

\* While it is disabled.  The worker holds the lock of the action thread from
\* its call until it has drained the callbacks.
Waits(q)   == <<Do("transit_wait", "")>> \o q
Flushes(q) == <<Do("flush", "")>> \o Waits(q)
Unlocks(q) == <<Do("action_unlock", "")>> \o Flushes(q)
Drains(q)  == <<Do("drain", "")>> \o Unlocks(q)
Pools(q)   == <<Do("no_pool", "")>> \o Drains(q)
Calls(q)   == <<DisableCall>> \o q
Locks(q)   == <<Do("action_lock", "")>> \o Calls(q)
HasLock(q) == todo \in {Calls(q), Pools(q), Drains(q), Unlocks(q)}
Halfway == /\ ~port.isEnabled
           /\ \E q : /\ Good(q, AfterDisable, FALSE)
                     /\ \/ HasLock(q) /\ action.mutex = "worker"
                        \/ todo \in {Locks(q), Flushes(q), Waits(q)}

\* Afterwards.
Still == ~port.isEnabled /\ port.transit = 0 /\ Good(todo, AfterDisable, FALSE)

Phase == Early \/ Going \/ Halfway \/ Still

\* A callback runs only in the thread that holds the lock.
Alone == /\ cb["action"].at # "idle" => action.mutex = "action"
         /\ cb["worker"].at # "idle" => action.mutex = "worker" /\ Is("drain")

\* No call has been refused.
Accepting == {m \in HostMsgs : m.msg = "reply" => m.status = "ok"}
Unrefused == toHost \in Seq(Accepting) /\ reply # "failed"

Smooth == trouble = 0 => Unrefused /\ Phase /\ Alone /\ (life = "ended" => Still)

LEMMA SingleTail ==
  ASSUME NEW x, NEW q, IsList(q)
  PROVE  /\ IsList(<<x>> \o q) /\ <<x>> \o q # <<>> /\ Head(<<x>> \o q) = x
         /\ Tail(<<x>> \o q) = q
<1>1. PICK S : q \in Seq(S)
  BY DEF IsList
<1>2. PICK U : q \in Seq(U) /\ <<x>> \in Seq(U)
  <2>1. q \in Seq(S \cup {x}) /\ <<x>> \in Seq(S \cup {x})
    BY <1>1, SeqMonotonic
  <2> QED
    BY <2>1
<1>3. PICK n \in Nat : n = Len(q)
  BY <1>2
<1>a. PICK a : a = <<x>>
  OBVIOUS
<1>4. PICK r : r = a \o q
  OBVIOUS
<1>5. a \in Seq(U) /\ Len(a) = 1 /\ a[1] = x
  BY <1>2, <1>a
<1>6. r \in Seq(U) /\ Len(r) = 1 + n /\ \A i \in 1 .. 1 + n : r[i] = IF i <= 1 THEN a[i] ELSE q[i - 1]
  <2>1. /\ r \in Seq(U) /\ Len(r) = Len(a) + Len(q)
        /\ \A i \in 1 .. Len(a) + Len(q) : r[i] = IF i <= Len(a) THEN a[i] ELSE q[i - Len(a)]
    BY <1>2, <1>4, <1>5, ConcatProperties
  <2> QED
    BY <1>3, <1>5, <2>1
<1>7. r # <<>> /\ Head(r) = x
  <2>1. r # <<>>
    BY <1>6
  <2>2. 1 \in 1 .. 1 + n /\ Head(r) = r[1]
    BY <1>6, <2>1
  <2> QED
    BY <1>5, <1>6, <2>1, <2>2
<1>8. Tail(r) \in Seq(U) /\ Len(Tail(r)) = n /\ \A i \in 1 .. n : Tail(r)[i] = r[i + 1]
  BY <1>6, <1>7, HeadTailProperties
<1>9. \A i \in 1 .. n : Tail(r)[i] = q[i]
  <2>1. ASSUME NEW i \in 1 .. n PROVE Tail(r)[i] = q[i]
    <3>1. i + 1 \in 1 .. 1 + n /\ ~(i + 1 <= 1) /\ (i + 1) - 1 = i
      OBVIOUS
    <3>2. r[i + 1] = q[i]
      BY <1>6, <3>1
    <3> QED
      BY <1>8, <3>2
  <2> QED
    BY <2>1
<1>10. Tail(r) = q
  BY <1>2, <1>3, <1>8, <1>9, SeqEqual
<1> QED
  BY <1>a, <1>4, <1>6, <1>7, <1>10 DEF IsList

LEMMA Words ==
  ASSUME NEW w
  PROVE  /\ IsList(<<Do(w, "")>>) /\ Head(<<Do(w, "")>>).do = w /\ Tail(<<Do(w, "")>>) = <<>>
         /\ Do(w, "").do = w /\ <<Do(w, "")>> # <<>>
<1>1. PICK x : x = Do(w, "")
  OBVIOUS
<1>2. <<x>> \in Seq({x}) /\ Head(<<x>>) = x /\ Tail(<<x>>) = <<>> /\ <<x>> # <<>>
  OBVIOUS
<1>3. x.do = w
  BY <1>1 DEF Do
<1> QED
  BY <1>1, <1>2, <1>3 DEF IsList

LEMMA NilConcat ==
  ASSUME NEW l, IsList(l)
  PROVE  <<>> \o l = l /\ l \o <<>> = l
BY DEF IsList

\* What the step is that the worker takes.
LEMMA StepIs ==
  ASSUME WorkerSteps
  PROVE  /\ Head(todo).do \in {"pool_create", "not_enabled", "transit_wait"} =>
                todo' = <<>> \o Tail(todo)
         /\ Head(todo).do = "start" => todo' = StartEncoding \o Tail(todo)
         /\ Head(todo).do = "while" =>
                todo' = (IF stop THEN Teardown ELSE StillsRound) \o Tail(todo)
         /\ Head(todo).do = "poll" => todo' = Teardown \o Tail(todo)
         /\ Head(todo).do = "not_enabled" => port' = [port EXCEPT !.isEnabled = FALSE]
         /\ Head(todo).do = "transit_wait" => port.transit = 0 /\ port' = port
         /\ Head(todo).do = "call" =>
                /\ reply \in {"ok", "failed"}
                /\ todo' = (IF reply = "ok" THEN Head(todo).then ELSE Head(todo).else) \o Tail(todo)
<1>1. CASE WorkerReturns
  BY <1>1 DEF WorkerReturns, Is, Then
<1>2. CASE WorkerPool
  BY <1>2 DEF WorkerPool, Is, Then
<1>3. CASE WorkerChooses
  BY <1>3 DEF WorkerChooses, Is, Then
<1>4. CASE WorkerEnds \/ WorkerSends \/ WorkerAwaits \/ WorkerDrained
  BY <1>4 DEF WorkerEnds, WorkerSends, WorkerAwaits, WorkerDrained, Is
<1>5. CASE WorkerPort
  BY <1>5 DEF WorkerPort, Is, Then, TransitWait
<1>6. CASE WorkerLocks
  BY <1>6 DEF WorkerLocks, Is
<1> QED
  BY <1>1, <1>2, <1>3, <1>4, <1>5, <1>6 DEF WorkerSteps
\* Only these steps enable the port, and when it is disabled and all headers
\* are back none is counted in transit any more.
LEMMA StaysDisabled ==
  ASSUME Kept, [Next]_vars, ~port.isEnabled
  PROVE  /\ \/ ~port'.isEnabled
            \/ WorkerSteps /\ Head(todo).do \in {"is_enabled", "enabled_again"}
         /\ port.transit = 0 => port'.transit = 0
<1>1. /\ port \in [isEnabled : BOOLEAN, hasPool : BOOLEAN, isPaused : BOOLEAN,
                   queue : Seq(Headers), transit : Int]
  BY DEF Kept, Typed, PortTyped
<1> DEFINE Goal == /\ \/ ~port'.isEnabled
                      \/ WorkerSteps /\ Head(todo).do \in {"is_enabled", "enabled_again"}
                   /\ port.transit = 0 => port'.transit = 0
<1>2. ASSUME NEW b, SendBuffer(b) PROVE UNCHANGED port
  BY <1>2 DEF SendBuffer
<1>3. CASE UNCHANGED port
  BY <1>3
<1>4. CASE WorkerReturns
  <2>1. PICK x \in BOOLEAN : port' = [port EXCEPT !.isPaused = x]
    <3>1. (port.isPaused \/ "encoder" \in Noted({}, "component_disable", "component_enable")) \in BOOLEAN
      OBVIOUS
    <3> QED
      BY <1>4, <3>1 DEF WorkerReturns
  <2> QED
    BY <1>1, <2>1
<1>5. CASE WorkerPort
  <2>1. CASE Is("is_enabled") /\ port' = [port EXCEPT !.isEnabled = TRUE, !.hasPool = TRUE]
    BY <1>1, <1>5, <2>1 DEF Is, WorkerSteps
  <2>2. CASE Is("enabled_again") /\ port' = [port EXCEPT !.isEnabled = TRUE]
    BY <1>1, <1>5, <2>2 DEF Is, WorkerSteps
  <2>3. CASE \/ port' = [port EXCEPT !.isEnabled = FALSE]
             \/ port' = [port EXCEPT !.hasPool = FALSE] \/ port' = port
    BY <1>1, <2>3
  <2>4. CASE port' = [port EXCEPT !.transit = @ - Len(port.queue), !.queue = <<>>]
    <3>1. PICK k \in Nat : k = Len(port.queue)
      BY <1>1
    <3>2. PICK n \in Int : n = port.transit - k
      BY <1>1, <3>1
    <3>3. port' = [port EXCEPT !.transit = n, !.queue = <<>>]
      BY <2>4, <3>1, <3>2
    <3>4. port'.isEnabled = port.isEnabled /\ port'.transit = n
      BY <1>1, <3>3
    <3>5. port.transit = 0 => k = 0
      <4>1. k = Cardinality(Range(port.queue)) /\ IsFiniteSet(Range(port.queue))
        BY <1>1, <3>1, OnceCounts DEF Kept, Once
      <4>2. Range(port.queue) = Contents["queue"] /\ "queue" \in OutPlaces
        BY ContentsNow DEF ContentsAre, OutPlaces
      <4>3. Range(port.queue) \subseteq OutOf(Contents)
        BY <4>2 DEF OutOf
      <4>4. IsFiniteSet(OutOf(Contents)) /\ Cardinality(OutOf(Contents)) \in Nat
        BY ContentsTyped, OutFinite DEF Kept
      <4>5. k <= Cardinality(OutOf(Contents))
        BY <4>1, <4>3, <4>4, FS_Subset
      <4> QED
        BY <4>4, <4>5, BusyFinite DEF Kept, Counted
    <3> QED
      BY <3>2, <3>4, <3>5
  <2> QED
    BY <1>5, <2>1, <2>2, <2>3, <2>4 DEF WorkerPort
<1>6. CASE WorkerSends
  BY <1>2, <1>3, <1>6 DEF WorkerSends
<1>7. CASE CallbackSends
  BY <1>2, <1>3, <1>7 DEF CallbackSends
<1>8. ASSUME NEW t \in Threads, CallbackEnds(t) PROVE Goal
  <2>1. PICK n \in Int : n = port.transit - 1
    BY <1>1
  <2>2. port' = [port EXCEPT !.transit = n]
    BY <1>8, <2>1 DEF CallbackEnds, TransitDecrement
  <2>3. port.transit # 0
    <3>1. t \in Busy
      BY <1>8 DEF CallbackEnds, At, Busy
    <3>2. Cardinality(Busy) # 0
      BY <3>1, BusyFinite, FS_EmptySet
    <3>3. Cardinality(OutOf(Contents)) \in Nat
      BY ContentsTyped, OutFinite DEF Kept
    <3> QED
      BY <3>2, <3>3, BusyFinite DEF Kept, Counted
  <2> QED
    BY <1>1, <2>2, <2>3
<1>9. ASSUME NEW t \in Threads, Callback(t) PROVE Goal
  <2>1. CASE CallbackEnds(t)
    BY <1>8, <2>1
  <2>2. CASE ~CallbackEnds(t)
    <3>1. UNCHANGED port
      BY <1>9, <2>2 DEF Callback, CallbackBegins, Copy, CallbackReleases, CallbackGets,
                         CallbackPosts, mmalvars, portvars
    <3> QED
      BY <1>3, <3>1
  <2> QED
    BY <2>1, <2>2
<1>10. CASE WorkerCalls \/ WorkerPool \/ WorkerChooses \/ WorkerEnds \/ WorkerAwaits
            \/ WorkerLocks \/ WorkerDrained
  <2>1. UNCHANGED port
    BY <1>10 DEF WorkerCalls, SendWait, WorkerPool, WorkerChooses, WorkerEnds, WorkerAwaits,
                 WorkerLocks, WorkerDrained, mmalvars, portvars
  <2> QED
    BY <1>3, <2>1
<1>11. CASE ActionWakes \/ Vchiq \/ Encoder \/ Server \/ Stop \/ UNCHANGED vars
  <2>1. UNCHANGED port
    BY <1>11 DEF ActionWakes, Vchiq, Encoder, Server, Stop, VchiqMessage, VchiqBulk, SendCallback,
                 Encodes, VCReceives, VCDisables, vars, mmalvars, portvars
  <2> QED
    BY <1>3, <2>1
<1> QED
  BY <1>4, <1>5, <1>6, <1>7, <1>9, <1>10, <1>11 DEF Next, Worker, Action, Threads

\* What has failed stays counted.
LEMMA TroubleStays ==
  ASSUME Kept, [Next]_vars, trouble' = 0
  PROVE  trouble = 0
<1>1. trouble \in Nat
  BY MmalBoundsOK DEF Kept, Typed, PortTyped
<1>2. trouble' = trouble + 1 \/ trouble' = trouble
  <2>1. ASSUME NEW b, SendBuffer(b) PROVE trouble' = trouble + 1 \/ trouble' = trouble
    BY <2>1 DEF SendBuffer, NotSent
  <2>2. CASE WorkerSends \/ CallbackSends
    BY <2>1, <2>2 DEF WorkerSends, CallbackSends
  <2>3. CASE Vchiq \/ Encoder \/ Server
    BY <2>3 DEF Vchiq, Encoder, Server, VchiqMessage, VchiqBulk, Encodes, VCReceives, VCDisables
  <2>4. CASE WorkerCalls \/ WorkerReturns \/ WorkerPool \/ WorkerChooses \/ WorkerEnds
             \/ WorkerAwaits \/ WorkerPort \/ WorkerLocks \/ WorkerDrained
    BY <2>4 DEF WorkerCalls, SendWait, WorkerReturns, WorkerPool, WorkerChooses, WorkerEnds,
                WorkerAwaits, WorkerPort, WorkerLocks, WorkerDrained, mmalvars
  <2>5. ASSUME NEW t \in Threads, Callback(t) PROVE trouble' = trouble
    BY <2>5 DEF Callback, CallbackBegins, Copy, CallbackReleases, CallbackGets, CallbackPosts,
                CallbackEnds, mmalvars
  <2>6. CASE ActionWakes \/ Stop \/ UNCHANGED vars
    BY <2>6 DEF ActionWakes, Stop, vars, mmalvars
  <2> QED
    BY <2>2, <2>3, <2>4, <2>5, <2>6 DEF Next, Worker, Action, Threads
<1> QED
  BY <1>1, <1>2
\* A call is refused only when something fails.
LEMMA UnrefusedStays ==
  ASSUME Kept, Unrefused, [Next]_vars, trouble' = trouble
  PROVE  Unrefused'
<1>1. toHost \in Seq(Accepting) /\ reply # "failed" /\ trouble \in Nat
  BY MmalBoundsOK DEF Unrefused, Kept, Typed, PortTyped
<1>2. CASE VchiqMessage
  <2>1. toHost # <<>> /\ toHost' = Tail(toHost)
    BY <1>2 DEF VchiqMessage
  <2>2. PICK m \in Accepting : m = Head(toHost)
    BY <1>1, <2>1
  <2>3. toHost' \in Seq(Accepting)
    BY <1>1, <2>1, HeadTailProperties
  <2>4. UNCHANGED reply \/ (m.msg = "reply" /\ reply' = m.status)
    BY <1>2, <2>2 DEF VchiqMessage
  <2> QED
    BY <1>1, <2>2, <2>3, <2>4 DEF Unrefused, Accepting
<1>3. CASE Encodes(stills)
  <2>1. PICK h : toHost' = Append(toHost, PartMsg(h)) /\ h.header \in Headers /\ h \in HeldHeader
    <3>1. vc \in [held : Seq(Headers), captures : BOOLEAN, frame : 0 .. 1,
                  part : 1 .. MaxParts, disables : BOOLEAN]
      BY DEF Kept, Typed, WireTyped
    <3>2. PICK b \in Headers : b = Head(vc.held)
      BY <1>3, <3>1 DEF Encodes
    <3>3. PICK end \in BOOLEAN :
              toHost' = Append(toHost, PartMsg(Header(b, <<<<vc.frame, vc.part, end>>>>, end)))
      BY <1>3, <3>2 DEF Encodes
    <3>4. PICK d \in Datas : d = <<<<vc.frame, vc.part, end>>>>
      <4>1. <<vc.frame, vc.part, end>> \in (0 .. 1) \X (1 .. MaxParts) \X BOOLEAN
        BY <3>1
      <4> QED
        BY <4>1 DEF Datas
    <3>5. Header(b, d, end) \in HeldHeader /\ Header(b, d, end).header = b
      BY <3>2 DEF Header, HeldHeader
    <3> QED
      BY <3>3, <3>4, <3>5
  <2>2. PartMsg(h) \in Accepting
    BY <2>1 DEF PartMsg, Accepting, HostMsgs
  <2> QED
    BY <1>1, <1>3, <2>1, <2>2 DEF Unrefused, Encodes
<1>4. CASE VCReceives
  <2>1. trouble' # trouble + 1
    BY <1>1
  <2>2. UNCHANGED toHost \/ toHost' = Append(toHost, ReplyMsg("ok"))
    BY <1>4, <2>1 DEF VCReceives
  <2>3. ReplyMsg("ok") \in Accepting
    BY DEF ReplyMsg, Accepting, HostMsgs
  <2>4. toHost' \in Seq(Accepting)
    BY <1>1, <2>2, <2>3, AppendProperties
  <2>5. UNCHANGED reply
    BY <1>4 DEF VCReceives
  <2> QED
    BY <1>1, <2>4, <2>5 DEF Unrefused
<1>5. CASE VCDisables
  <2>1. PICK p : p = [i \in DOMAIN vc.held |-> PartMsg(Header(vc.held[i], NoData, FALSE))]
    OBVIOUS
  <2>2. p \in Seq(Accepting)
    <3>1. PICK n \in Nat : DOMAIN vc.held = 1 .. n /\ \A i \in 1 .. n : vc.held[i] \in Headers
      BY DEF Kept, Typed, WireTyped
    <3>2. ASSUME NEW b \in Headers PROVE PartMsg(Header(b, NoData, FALSE)) \in Accepting
      <4>1. Header(b, NoData, FALSE) \in HeldHeader /\ Header(b, NoData, FALSE).header = b
        BY DEF Header, HeldHeader, Datas
      <4> QED
        BY <4>1 DEF PartMsg, Accepting, HostMsgs
    <3>3. p \in [1 .. n -> Accepting]
      BY <2>1, <3>1, <3>2
    <3> QED
      BY <3>3
  <2>3. ReplyMsg("ok") \in Accepting
    BY DEF ReplyMsg, Accepting, HostMsgs
  <2>4. PICK a : a = ReplyMsg("ok") /\ a \in Accepting
    BY <2>3
  <2>5. (toHost \o p) \in Seq(Accepting) /\ <<a>> \in Seq(Accepting)
    BY <1>1, <2>2, <2>4, ConcatProperties
  <2>6. (toHost \o p) \o <<a>> \in Seq(Accepting)
    BY <2>5, ConcatProperties
  <2>7. toHost' = (toHost \o p) \o <<a>> /\ UNCHANGED reply
    BY <1>5, <2>1, <2>4 DEF VCDisables
  <2> QED
    BY <1>1, <2>6, <2>7 DEF Unrefused
<1>6. CASE WorkerCalls \/ WorkerReturns
  BY <1>1, <1>6 DEF Unrefused, WorkerCalls, SendWait, WorkerReturns, wirevars
<1>7. CASE UNCHANGED <<toHost, reply>>
  BY <1>7 DEF Unrefused
<1>8. ASSUME NEW t \in Threads, Callback(t) PROVE UNCHANGED <<toHost, reply>>
  BY <1>8 DEF Callback, CallbackBegins, Copy, CallbackReleases, CallbackGets, CallbackPosts,
              CallbackEnds, mmalvars, wirevars
<1>9. CASE WorkerPool \/ WorkerChooses \/ WorkerEnds \/ WorkerSends \/ WorkerAwaits \/ WorkerPort
           \/ WorkerLocks \/ WorkerDrained \/ CallbackSends \/ ActionWakes \/ Stop \/ VchiqBulk
           \/ UNCHANGED vars
  <2>1. UNCHANGED <<toHost, reply>>
    BY <1>9 DEF WorkerPool, WorkerChooses, WorkerEnds, WorkerSends, WorkerAwaits, WorkerPort,
                WorkerLocks, WorkerDrained, CallbackSends, ActionWakes, Stop, VchiqBulk, vars,
                mmalvars, wirevars
  <2> QED
    BY <1>7, <2>1
<1> QED
  BY <1>2, <1>3, <1>4, <1>5, <1>6, <1>7, <1>8, <1>9
     DEF Next, Worker, Action, Vchiq, Encoder, Server, Threads

LEMMA SpecialSets ==
  /\ BeforeDisable \in SUBSET Special /\ AfterDisable \in SUBSET Special
  /\ "enabled_again" \notin BeforeDisable /\ "is_enabled" \notin BeforeDisable
  /\ "disable_output" \in BeforeDisable /\ "cleanup" \in BeforeDisable
  /\ "disable_output" \notin AfterDisable
BY DEF BeforeDisable, AfterDisable, Special, Locking

\* What a good step is not.
LEMMA GoodIsNot ==
  ASSUME NEW K, NEW both, NEW x, GoodStep(x, K, both)
  PROVE  x.do \notin K
BY DEF GoodStep, Closed

LEMMA Triple ==
  ASSUME NEW a, NEW b, NEW c
  PROVE  /\ <<a>> \o <<b, c>> = <<a, b, c>>
         /\ IsList(<<a>>) /\ IsList(<<b, c>>) /\ IsList(<<a, b, c>>)
<1>1. PICK q, r, s : q = <<a>> /\ r = <<b, c>> /\ s = <<a, b, c>>
  OBVIOUS
<1>2. /\ q \in Seq({a, b, c}) /\ Len(q) = 1 /\ q[1] = a
      /\ r \in Seq({a, b, c}) /\ Len(r) = 2 /\ r[1] = b /\ r[2] = c
      /\ s \in Seq({a, b, c}) /\ Len(s) = 3 /\ s[1] = a /\ s[2] = b /\ s[3] = c
  BY <1>1
<1>3. /\ q \o r \in Seq({a, b, c}) /\ Len(q \o r) = Len(q) + Len(r)
      /\ \A i \in 1 .. Len(q) + Len(r) :
             (q \o r)[i] = IF i <= Len(q) THEN q[i] ELSE r[i - Len(q)]
  BY <1>2, ConcatProperties
<1>4. (q \o r)[1] = a /\ (q \o r)[2] = b /\ (q \o r)[3] = c /\ Len(q \o r) = 3
  BY <1>2, <1>3
<1>5. \A i \in 1 .. 3 : (q \o r)[i] = s[i]
  <2>1. \A i \in 1 .. 3 : i \in {1, 2, 3}
    OBVIOUS
  <2> QED
    BY <1>2, <1>4, <2>1
<1>6. q \o r = s
  BY <1>2, <1>3, <1>4, <1>5, SeqEqual
<1> QED
  BY <1>1, <1>2, <1>6 DEF IsList

LEMMA TeardownIs ==
  \E q : /\ Good(q, AfterDisable, FALSE)
         /\ Before(Teardown, BeforeDisable, TRUE,
                   <<Do("not_enabled", "")>> \o (<<Do("action_lock", ""), DisableCall>> \o q))
<1>1. PICK p, q : /\ Good(p, BeforeDisable, TRUE) /\ Good(q, AfterDisable, FALSE)
                  /\ Teardown = (p \o DisablePort) \o q
  BY GoodTeardown
<1>2. PICK a, b, c : a = Do("not_enabled", "") /\ b = Do("action_lock", "") /\ c = DisableCall
  OBVIOUS
<1>3. DisablePort = <<a, b, c>>
  BY <1>2 DEF DisablePort, DisableCall, Answered, Refused
<1>4. PICK u, v : u = <<a>> /\ v = <<b, c>> /\ IsList(u) /\ IsList(v) /\ DisablePort = u \o v
  BY <1>3, Triple
<1>5. IsList(p) /\ IsList(q) /\ IsList(u \o v)
  BY <1>1, <1>4, ConcatList DEF Good
<1>6. (p \o (u \o v)) \o q = p \o ((u \o v) \o q)
  BY <1>5, ConcatLists
<1>7. (u \o v) \o q = u \o (v \o q)
  BY <1>4, <1>5, ConcatLists
<1>8. Teardown = p \o (u \o (v \o q))
  BY <1>1, <1>4, <1>6, <1>7
<1>9. u = <<Do("not_enabled", "")>> /\ v = <<Do("action_lock", ""), DisableCall>>
  BY <1>2, <1>4
<1> QED
  BY <1>1, <1>8, <1>9 DEF Before

\* While pictures are taken.
LEMMA EarlyGoes ==
  ASSUME Kept, Early, WorkerSteps
  PROVE  (Early \/ Going)'
<1>1. PICK z \in {<<Do("pool_create", ""), Do("start", "")>>, <<Do("start", "")>>,
                  <<Do("while", "")>>, <<Do("poll", "")>>} :
          Before(todo, BeforeDisable, TRUE, z)
  BY DEF Early
<1>2. IsList(z)
  BY Words, Prelude
<1>3. IsList(pool)
  BY DEF Kept, Typed, PortTyped, IsList
<1>4. ASSUME GoodStep(Head(todo), BeforeDisable, TRUE),
             \A more : Good(more, BeforeDisable, TRUE) =>
                 Before(more \o Tail(todo), BeforeDisable, TRUE, z)
      PROVE  Early'
  <2>1. Head(todo).do \notin BeforeDisable
    BY <1>4, GoodIsNot
  <2>2. \E more : Good(more, BeforeDisable, TRUE) /\ todo' = more \o Tail(todo)
    <3>1. Head(todo).do \notin {"start", "while", "poll", "disable_output"}
      BY <2>1 DEF BeforeDisable
    <3> QED
      BY <1>3, <1>4, <3>1, SpecialSets, StepsAdd
  <2>3. Before(todo', BeforeDisable, TRUE, z)
    BY <1>4, <2>2
  <2> QED
    BY <2>3 DEF Early, Before
<1>5. \A l : IsList(l) => Before(l, BeforeDisable, TRUE, l)
  <2>1. ASSUME NEW l, IsList(l) PROVE Before(l, BeforeDisable, TRUE, l)
    <3>1. Good(<<>>, BeforeDisable, TRUE) /\ <<>> \o l = l
      BY <2>1, GoodNil, NilConcat
    <3> QED
      BY <3>1 DEF Before
  <2> QED
    BY <2>1
<1>6. todo' = Teardown => Going'
  BY TeardownIs DEF Going
<1>7. CASE todo = z
  <2>1. CASE z = <<Do("pool_create", ""), Do("start", "")>>
    <3>1. Head(todo).do = "pool_create" /\ Tail(todo) = <<Do("start", "")>>
      BY <1>7, <2>1, Prelude
    <3>2. todo' = <<Do("start", "")>>
      BY <3>1, StepIs, NilConcat, Words
    <3> QED
      BY <1>5, <3>1, <3>2, Words DEF Early, Before
  <2>2. CASE z = <<Do("start", "")>>
    <3>1. Head(todo).do = "start" /\ Tail(todo) = <<>>
      BY <1>7, <2>2, Words
    <3>2. PICK last \in {Do("while", ""), Do("poll", "")} :
              Before(StartEncoding, BeforeDisable, TRUE, <<last>>)
      BY SpecialSets, GoodStartEncoding
    <3>3. IsList(StartEncoding)
      <4>1. PICK p : Good(p, BeforeDisable, TRUE) /\ StartEncoding = p \o <<last>>
        BY <3>2 DEF Before
      <4> QED
        BY <4>1, Words, ConcatList DEF Good
    <3>4. todo' = StartEncoding
      BY <3>1, <3>3, StepIs, NilConcat
    <3>5. Before(todo', BeforeDisable, TRUE, <<last>>)
      BY <3>2, <3>4
    <3> QED
      BY <3>1, <3>5 DEF Early, Before
  <2>3. CASE z = <<Do("while", "")>>
    <3>1. Head(todo).do = "while" /\ Tail(todo) = <<>>
      BY <1>7, <2>3, Words
    <3>2. Before(StillsRound, BeforeDisable, TRUE, <<Do("while", "")>>)
      BY SpecialSets, GoodStillsRound
    <3>3. IsList(StillsRound) /\ IsList(Teardown)
      <4>1. PICK p : Good(p, BeforeDisable, TRUE) /\ StillsRound = p \o <<Do("while", "")>>
        BY <3>2 DEF Before
      <4> QED
        BY <4>1, Words, ConcatList, GoodTeardown DEF Good
    <3>4. todo' = Teardown \/ todo' = StillsRound
      BY <3>1, <3>3, StepIs, NilConcat
    <3>5. CASE todo' = StillsRound
      <4>1. Before(todo', BeforeDisable, TRUE, <<Do("while", "")>>)
        BY <3>2, <3>5
      <4> QED
        BY <3>1, <4>1 DEF Early, Before
    <3> QED
      BY <1>6, <3>1, <3>4, <3>5
  <2>4. CASE z = <<Do("poll", "")>>
    <3>1. Head(todo).do = "poll" /\ Tail(todo) = <<>>
      BY <1>7, <2>4, Words
    <3>2. IsList(Teardown)
      BY GoodTeardown DEF Good
    <3>3. todo' = Teardown
      BY <3>1, <3>2, StepIs, NilConcat
    <3> QED
      BY <1>6, <3>1, <3>3
  <2> QED
    BY <1>1, <2>1, <2>2, <2>3, <2>4
<1> QED
  BY <1>1, <1>2, <1>4, <1>7, BeforeTail
\* Until mmal_port_disable has begun.
LEMMA GoingGoes ==
  ASSUME Kept, Going, WorkerSteps
  PROVE  (Going \/ Halfway)'
<1>1. PICK q : /\ Good(q, AfterDisable, FALSE)
               /\ Before(todo, BeforeDisable, TRUE,
                         <<Do("not_enabled", "")>>
                             \o (<<Do("action_lock", ""), DisableCall>> \o q))
  BY DEF Going
<1>2. PICK a, b, c : a = Do("not_enabled", "") /\ b = Do("action_lock", "") /\ c = DisableCall
  OBVIOUS
<1>3. PICK y, z : y = <<b, c>> \o q /\ z = <<a>> \o y
  OBVIOUS
<1>4. Before(todo, BeforeDisable, TRUE, z)
  BY <1>1, <1>2, <1>3
<1>5. IsList(q) /\ IsList(y) /\ IsList(z)
  BY <1>1, <1>3, Triple, ConcatList DEF Good
<1>6. IsList(pool)
  BY DEF Kept, Typed, PortTyped, IsList
<1>7. ASSUME GoodStep(Head(todo), BeforeDisable, TRUE),
             \A more : Good(more, BeforeDisable, TRUE) =>
                 Before(more \o Tail(todo), BeforeDisable, TRUE, z)
      PROVE  Going'
  <2>1. Head(todo).do \notin BeforeDisable
    BY <1>7, GoodIsNot
  <2>2. \E more : Good(more, BeforeDisable, TRUE) /\ todo' = more \o Tail(todo)
    <3>1. Head(todo).do \notin {"start", "while", "poll", "disable_output"}
      BY <2>1 DEF BeforeDisable
    <3> QED
      BY <1>6, <1>7, <3>1, SpecialSets, StepsAdd
  <2>3. Before(todo', BeforeDisable, TRUE, z)
    BY <1>7, <2>2
  <2> QED
    BY <1>1, <1>2, <1>3, <2>3 DEF Going, Before
<1>8. CASE todo = z
  <2>1. Head(todo).do = "not_enabled" /\ Tail(todo) = y
    <3>1. Head(z) = a /\ Tail(z) = y
      BY <1>3, <1>5, SingleTail
    <3> QED
      BY <1>2, <1>8, <3>1, Words
  <2>2. todo' = y
    BY <1>5, <2>1, StepIs, NilConcat
  <2>3. ~port'.isEnabled
    <3>1. port \in [isEnabled : BOOLEAN, hasPool : BOOLEAN, isPaused : BOOLEAN,
                    queue : Seq(Headers), transit : Int]
      BY DEF Kept, Typed, PortTyped
    <3>2. port' = [port EXCEPT !.isEnabled = FALSE]
      BY <2>1, StepIs
    <3> QED
      BY <3>1, <3>2
  <2>4. y = <<b>> \o (<<c>> \o q)
    <3>1. <<b, c>> = <<b>> \o <<c>>
      BY Pair
    <3>2. IsList(<<b>>) /\ IsList(<<c>>)
      BY Triple
    <3> QED
      BY <1>3, <1>5, <3>1, <3>2, ConcatLists
  <2>5. todo' = Locks(q)
    BY <1>2, <2>2, <2>4 DEF Locks, Calls
  <2> QED
    BY <1>1, <2>3, <2>5 DEF Halfway
<1> QED
  BY <1>4, <1>5, <1>7, <1>8, BeforeTail

\* The steps of mmal_port_disable, one after the other.
LEMMA Segments ==
  ASSUME NEW q, IsList(q)
  PROVE  /\ IsList(Waits(q)) /\ Waits(q) # <<>>
         /\ Head(Waits(q)) = Do("transit_wait", "") /\ Tail(Waits(q)) = q
         /\ IsList(Flushes(q)) /\ Flushes(q) # <<>>
         /\ Head(Flushes(q)) = Do("flush", "") /\ Tail(Flushes(q)) = Waits(q)
         /\ IsList(Unlocks(q)) /\ Unlocks(q) # <<>>
         /\ Head(Unlocks(q)) = Do("action_unlock", "") /\ Tail(Unlocks(q)) = Flushes(q)
         /\ IsList(Drains(q)) /\ Drains(q) # <<>>
         /\ Head(Drains(q)) = Do("drain", "") /\ Tail(Drains(q)) = Unlocks(q)
         /\ IsList(Pools(q)) /\ Pools(q) # <<>>
         /\ Head(Pools(q)) = Do("no_pool", "") /\ Tail(Pools(q)) = Drains(q)
         /\ IsList(Calls(q)) /\ Calls(q) # <<>>
         /\ Head(Calls(q)) = DisableCall /\ Tail(Calls(q)) = q
         /\ IsList(Locks(q)) /\ Locks(q) # <<>>
         /\ Head(Locks(q)) = Do("action_lock", "") /\ Tail(Locks(q)) = Calls(q)
<1>1. /\ IsList(Waits(q)) /\ Waits(q) # <<>>
      /\ Head(Waits(q)) = Do("transit_wait", "") /\ Tail(Waits(q)) = q
  BY SingleTail DEF Waits
<1>2. /\ IsList(Flushes(q)) /\ Flushes(q) # <<>>
      /\ Head(Flushes(q)) = Do("flush", "") /\ Tail(Flushes(q)) = Waits(q)
  BY <1>1, SingleTail DEF Flushes
<1>3. /\ IsList(Unlocks(q)) /\ Unlocks(q) # <<>>
      /\ Head(Unlocks(q)) = Do("action_unlock", "") /\ Tail(Unlocks(q)) = Flushes(q)
  BY <1>2, SingleTail DEF Unlocks
<1>4. /\ IsList(Drains(q)) /\ Drains(q) # <<>>
      /\ Head(Drains(q)) = Do("drain", "") /\ Tail(Drains(q)) = Unlocks(q)
  BY <1>3, SingleTail DEF Drains
<1>5. /\ IsList(Pools(q)) /\ Pools(q) # <<>>
      /\ Head(Pools(q)) = Do("no_pool", "") /\ Tail(Pools(q)) = Drains(q)
  BY <1>4, SingleTail DEF Pools
<1>6. /\ IsList(Calls(q)) /\ Calls(q) # <<>>
      /\ Head(Calls(q)) = DisableCall /\ Tail(Calls(q)) = q
  BY SingleTail DEF Calls
<1>7. /\ IsList(Locks(q)) /\ Locks(q) # <<>>
      /\ Head(Locks(q)) = Do("action_lock", "") /\ Tail(Locks(q)) = Calls(q)
  BY <1>6, SingleTail DEF Locks
<1> QED
  BY <1>1, <1>2, <1>3, <1>4, <1>5, <1>6, <1>7

LEMMA Fronted ==
  ASSUME NEW S, NEW x \in S, NEW r \in Seq(S), NEW s \in Seq(S), NEW n \in Nat,
         Len(r) = n, Len(s) = n + 1, s[1] = x, \A i \in 1 .. n : s[i + 1] = r[i]
  PROVE  s = <<x>> \o r
<1>a. PICK a : a = <<x>>
  OBVIOUS
<1>1. a = <<x>> /\ a \in Seq(S) /\ Len(a) = 1 /\ a[1] = x
  BY <1>a
<1>2. PICK u : u = a \o r
  OBVIOUS
<1>3. /\ u \in Seq(S) /\ Len(u) = 1 + n
      /\ \A i \in 1 .. 1 + n : u[i] = IF i <= 1 THEN a[i] ELSE r[i - 1]
  <2>1. /\ u \in Seq(S) /\ Len(u) = Len(a) + Len(r)
        /\ \A i \in 1 .. Len(a) + Len(r) : u[i] = IF i <= Len(a) THEN a[i] ELSE r[i - Len(a)]
    BY <1>1, <1>2, ConcatProperties
  <2> QED
    BY <1>1, <2>1
<1>4. ASSUME NEW i \in 1 .. n + 1 PROVE s[i] = u[i]
  <2>1. CASE i = 1
    BY <1>1, <1>3, <2>1
  <2>2. CASE i # 1
    <3>1. PICK j \in 1 .. n : i = j + 1
      <4>1. i - 1 \in 1 .. n /\ i = (i - 1) + 1
        BY <2>2
      <4> QED
        BY <4>1
    <3>2. s[i] = r[j]
      BY <3>1
    <3>3. i \in 1 .. 1 + n /\ ~(i <= 1) /\ i - 1 = j
      BY <3>1
    <3>4. u[i] = r[j]
      BY <1>3, <3>3
    <3> QED
      BY <3>2, <3>4
  <2> QED
    BY <2>1, <2>2
<1>5. Len(u) = n + 1
  BY <1>3
<1> QED
  BY <1>1, <1>2, <1>3, <1>4, <1>5, SeqEqual

LEMMA ConsFour ==
  ASSUME NEW b, NEW c, NEW d, NEW e
  PROVE  <<b, c, d, e>> = <<b>> \o <<c, d, e>>
<1>1. PICK S, r, s : S = {b, c, d, e} /\ r = <<c, d, e>> /\ s = <<b, c, d, e>>
  OBVIOUS
<1>2. r \in Seq(S) /\ Len(r) = 3 /\ r[1] = c /\ r[2] = d /\ r[3] = e
  BY <1>1
<1>3. s \in Seq(S) /\ Len(s) = 4 /\ s[1] = b /\ s[2] = c /\ s[3] = d /\ s[4] = e
  BY <1>1
<1>4. \A i \in 1 .. 3 : s[i + 1] = r[i]
  <2>1. \A i \in 1 .. 3 : i \in {1, 2, 3}
    OBVIOUS
  <2>2. s[1 + 1] = r[1] /\ s[2 + 1] = r[2] /\ s[3 + 1] = r[3]
    BY <1>2, <1>3
  <2> QED
    BY <2>1, <2>2
<1>5. PICK n \in Nat : n = 3
  OBVIOUS
<1>6. /\ b \in S /\ r \in Seq(S) /\ s \in Seq(S) /\ n \in Nat
      /\ Len(r) = n /\ Len(s) = n + 1 /\ s[1] = b /\ \A i \in 1 .. n : s[i + 1] = r[i]
  BY <1>1, <1>2, <1>3, <1>4, <1>5
<1>7. s = <<b>> \o r
  BY <1>6, Fronted
<1> QED
  BY <1>1, <1>7

LEMMA ConsFive ==
  ASSUME NEW a, NEW b, NEW c, NEW d, NEW e
  PROVE  <<a, b, c, d, e>> = <<a>> \o <<b, c, d, e>>
<1>1. PICK S, r, s : S = {a, b, c, d, e} /\ r = <<b, c, d, e>> /\ s = <<a, b, c, d, e>>
  OBVIOUS
<1>2. r \in Seq(S) /\ Len(r) = 4 /\ r[1] = b /\ r[2] = c /\ r[3] = d /\ r[4] = e
  BY <1>1
<1>3. s \in Seq(S) /\ Len(s) = 5 /\ s[1] = a /\ s[2] = b /\ s[3] = c /\ s[4] = d /\ s[5] = e
  BY <1>1
<1>4. \A i \in 1 .. 4 : s[i + 1] = r[i]
  <2>1. \A i \in 1 .. 4 : i \in {1, 2, 3, 4}
    OBVIOUS
  <2>2. s[1 + 1] = r[1] /\ s[2 + 1] = r[2] /\ s[3 + 1] = r[3] /\ s[4 + 1] = r[4]
    BY <1>2, <1>3
  <2> QED
    BY <2>1, <2>2
<1>5. PICK n \in Nat : n = 4
  OBVIOUS
<1>6. /\ a \in S /\ r \in Seq(S) /\ s \in Seq(S) /\ n \in Nat
      /\ Len(r) = n /\ Len(s) = n + 1 /\ s[1] = a /\ \A i \in 1 .. n : s[i + 1] = r[i]
  BY <1>1, <1>2, <1>3, <1>4, <1>5
<1>7. s = <<a>> \o r
  BY <1>6, Fronted
<1> QED
  BY <1>1, <1>7

\* The reply of VideoCore is followed by the rest of the steps.
LEMMA AnsweredThen ==
  ASSUME NEW q, IsList(q)
  PROVE  Answered \o q = Pools(q)
<1>1. PICK a, b, c, d, e : /\ a = Do("no_pool", "") /\ b = Do("drain", "")
                           /\ c = Do("action_unlock", "") /\ d = Do("flush", "")
                           /\ e = Do("transit_wait", "")
  OBVIOUS
<1>2. PICK r : r = <<b, c, d, e>> /\ IsList(r)
  <2>1. <<b, c, d, e>> \in Seq({b, c, d, e})
    OBVIOUS
  <2> QED
    BY <2>1 DEF IsList
<1>3. Answered = <<a>> \o r
  BY <1>1, <1>2, ConsFive DEF Answered
<1>4. PICK u : u = <<c, d, e>> /\ IsList(u)
  BY Triple
<1>5. r = <<b>> \o u
  BY <1>2, <1>4, ConsFour
<1>6. PICK v : v = <<d, e>> /\ IsList(v) /\ u = <<c>> \o v
  BY <1>4, Triple
<1>7. v = <<d>> \o <<e>>
  BY <1>6, Pair
<1>8. IsList(<<a>>) /\ IsList(<<b>>) /\ IsList(<<c>>) /\ IsList(<<d>>) /\ IsList(<<e>>)
  BY Triple
<1>9. Answered \o q = <<a>> \o (r \o q)
  BY <1>2, <1>3, <1>8, ConcatLists
<1>10. r \o q = <<b>> \o (u \o q)
  BY <1>4, <1>5, <1>8, ConcatLists
<1>11. u \o q = <<c>> \o (v \o q)
  BY <1>6, <1>8, ConcatLists
<1>12. v \o q = <<d>> \o (<<e>> \o q)
  BY <1>7, <1>8, ConcatLists
<1>13. Waits(q) = <<e>> \o q
  BY <1>1 DEF Waits
<1>14. Flushes(q) = v \o q
  BY <1>1, <1>12, <1>13 DEF Flushes
<1>15. Unlocks(q) = u \o q
  BY <1>1, <1>11, <1>14 DEF Unlocks
<1>16. Drains(q) = r \o q
  BY <1>1, <1>10, <1>15 DEF Drains
<1> QED
  BY <1>1, <1>9, <1>16 DEF Pools

\* Which steps may come next, as far as the lock is concerned.
LEMMA StepHead ==
  ASSUME Kept, WorkerSteps
  PROVE  /\ todo # <<>> /\ life = "runs"
         /\ Head(todo).do \in {"action_lock", "no_pool", "drain", "action_unlock", "flush"}
                => todo' = <<>> \o Tail(todo)
         /\ Head(todo).do = "action_lock" => action.mutex = "none" /\ action'.mutex = "worker"
         /\ Head(todo).do \in {"call", "no_pool", "drain"} => action' = action
         /\ Head(todo).do = "drain" => cb["worker"].at = "idle"
<1>1. todo # <<>> /\ life = "runs"
  BY DEF WorkerSteps, WorkerReturns, WorkerPool, WorkerChooses, WorkerEnds, WorkerSends,
         WorkerAwaits, WorkerPort, WorkerLocks, WorkerDrained, Is
<1>2. CASE WorkerReturns
  BY <1>1, <1>2 DEF WorkerReturns, Is
<1>3. CASE WorkerPool
  BY <1>1, <1>3 DEF WorkerPool, Is
<1>4. CASE WorkerChooses
  BY <1>1, <1>4 DEF WorkerChooses, Is
<1>5. CASE WorkerEnds \/ WorkerSends \/ WorkerAwaits
  BY <1>1, <1>5 DEF WorkerEnds, WorkerSends, WorkerAwaits, Is
<1>6. CASE WorkerPort
  BY <1>1, <1>6 DEF WorkerPort, Is, Then
<1>7. CASE WorkerLocks
  <2>1. action = [sema |-> action.sema, mutex |-> action.mutex]
    BY DEF Kept, Typed, PortTyped
  <2>2. ActionLock("worker") => action.mutex = "none" /\ action'.mutex = "worker"
    BY <2>1 DEF ActionLock
  <2> QED
    BY <1>1, <1>7, <2>2 DEF WorkerLocks, Is, Then
<1>8. CASE WorkerDrained
  BY <1>1, <1>8 DEF WorkerDrained, Is, Then, mmalvars, portvars
<1> QED
  BY <1>2, <1>3, <1>4, <1>5, <1>6, <1>7, <1>8 DEF WorkerSteps

\* While the port is disabled.
LEMMA HalfwayGoes ==
  ASSUME Kept, Unrefused, Alone, WorkerSteps, [Next]_vars, Halfway
  PROVE  (Halfway \/ Still)'
<1>1. PICK q : /\ Good(q, AfterDisable, FALSE)
               /\ \/ HasLock(q) /\ action.mutex = "worker"
                  \/ todo \in {Locks(q), Flushes(q), Waits(q)}
  BY DEF Halfway
<1>2. IsList(q)
  BY <1>1 DEF Good
<1>3. ~port.isEnabled /\ todo # <<>>
  BY StepHead DEF Halfway
<1>w. /\ \A w : Do(w, "").do = w
      /\ DisableCall.do = "call" /\ DisableCall.then = Answered
  BY Words DEF DisableCall, Call
<1>4. ASSUME Head(todo).do \notin {"is_enabled", "enabled_again"},
             \/ HasLock(q)' /\ action'.mutex = "worker"
             \/ todo' \in {Locks(q), Flushes(q), Waits(q)}
      PROVE  Halfway'
  <2>1. ~port'.isEnabled
    BY <1>3, <1>4, StaysDisabled
  <2> QED
    BY <1>1, <1>4, <2>1 DEF Halfway
<1>5. CASE todo = Locks(q)
  <2>1. Head(todo).do = "action_lock" /\ Tail(todo) = Calls(q) /\ IsList(Calls(q))
    BY <1>2, <1>5, <1>w, Segments
  <2>2. todo' = Calls(q) /\ action'.mutex = "worker"
    BY <2>1, StepHead, NilConcat
  <2> QED
    BY <1>4, <2>1, <2>2 DEF HasLock
<1>6. CASE todo = Calls(q) /\ action.mutex = "worker"
  <2>1. Head(todo) = DisableCall /\ Tail(todo) = q
    BY <1>2, <1>6, Segments
  <2>2. reply = "ok" /\ todo' = Answered \o q
    BY <1>w, <2>1, StepIs DEF Unrefused
  <2>3. todo' = Pools(q) /\ action' = action
    BY <1>2, <1>w, <2>1, <2>2, AnsweredThen, StepHead
  <2> QED
    BY <1>4, <1>6, <1>w, <2>1, <2>3 DEF HasLock
<1>7. CASE todo = Pools(q) /\ action.mutex = "worker"
  <2>1. Head(todo).do = "no_pool" /\ Tail(todo) = Drains(q) /\ IsList(Drains(q))
    BY <1>2, <1>7, <1>w, Segments
  <2>2. todo' = Drains(q) /\ action' = action
    BY <2>1, StepHead, NilConcat
  <2> QED
    BY <1>4, <1>7, <2>1, <2>2 DEF HasLock
<1>8. CASE todo = Drains(q) /\ action.mutex = "worker"
  <2>1. Head(todo).do = "drain" /\ Tail(todo) = Unlocks(q) /\ IsList(Unlocks(q))
    BY <1>2, <1>8, <1>w, Segments
  <2>2. todo' = Unlocks(q) /\ action' = action
    BY <2>1, StepHead, NilConcat
  <2> QED
    BY <1>4, <1>8, <2>1, <2>2 DEF HasLock
<1>9. CASE todo = Unlocks(q)
  <2>1. Head(todo).do = "action_unlock" /\ Tail(todo) = Flushes(q) /\ IsList(Flushes(q))
    BY <1>2, <1>9, <1>w, Segments
  <2>2. todo' = Flushes(q)
    BY <2>1, StepHead, NilConcat
  <2> QED
    BY <1>4, <2>1, <2>2
<1>10. CASE todo = Flushes(q)
  <2>1. Head(todo).do = "flush" /\ Tail(todo) = Waits(q) /\ IsList(Waits(q))
    BY <1>2, <1>10, <1>w, Segments
  <2>2. todo' = Waits(q)
    BY <2>1, StepHead, NilConcat
  <2> QED
    BY <1>4, <2>1, <2>2
<1>11. CASE todo = Waits(q)
  <2>1. Head(todo).do = "transit_wait" /\ Tail(todo) = q
    BY <1>2, <1>11, <1>w, Segments
  <2>2. todo' = q /\ port.transit = 0 /\ port' = port
    BY <1>2, <2>1, StepIs, NilConcat
  <2> QED
    BY <1>1, <1>3, <2>2 DEF Still
<1> QED
  BY <1>1, <1>5, <1>6, <1>7, <1>8, <1>9, <1>10, <1>11 DEF HasLock

LEMMA StillGoes ==
  ASSUME Kept, Unrefused, WorkerSteps, [Next]_vars, Still
  PROVE  Still'
<1>1. IsList(pool)
  BY DEF Kept, Typed, PortTyped, IsList
<1>2. todo # <<>>
  BY DEF WorkerSteps, WorkerReturns, WorkerPool, WorkerChooses, WorkerEnds, WorkerSends,
         WorkerAwaits, WorkerPort, WorkerLocks, WorkerDrained, Is
<1>3. GoodStep(Head(todo), AfterDisable, FALSE) /\ Good(Tail(todo), AfterDisable, FALSE)
  BY <1>2, GoodTail DEF Still
<1>4. Head(todo).do \notin AfterDisable
  BY <1>3, GoodIsNot
<1>5. PICK more : Good(more, AfterDisable, FALSE) /\ todo' = more \o Tail(todo)
  <2>1. ~port.isEnabled /\ reply # "failed"
    BY DEF Still, Unrefused
  <2>2. Head(todo).do \notin {"start", "while", "poll"}
    BY <1>4 DEF AfterDisable
  <2> QED
    BY <1>1, <1>3, <2>1, <2>2, SpecialSets, StepsAdd
<1>6. Good(todo', AfterDisable, FALSE)
  BY <1>3, <1>5, GoodConcat
<1>7. ~port'.isEnabled /\ port'.transit = 0
  <2>1. Head(todo).do \notin {"is_enabled", "enabled_again"}
    BY <1>4 DEF AfterDisable
  <2> QED
    BY <2>1, StaysDisabled DEF Still
<1> QED
  BY <1>6, <1>7 DEF Still

\* Until mmal_port_disable has begun the next step is one of these.
LEMMA AheadHead ==
  ASSUME Early \/ Going
  PROVE  /\ todo # <<>>
         /\ \/ GoodStep(Head(todo), BeforeDisable, TRUE)
            \/ Head(todo).do \in {"pool_create", "start", "while", "poll", "not_enabled"}
<1>1. CASE Early
  <2>1. PICK z \in {<<Do("pool_create", ""), Do("start", "")>>, <<Do("start", "")>>,
                    <<Do("while", "")>>, <<Do("poll", "")>>} :
            Before(todo, BeforeDisable, TRUE, z)
    BY <1>1 DEF Early
  <2>2. /\ IsList(z) /\ z # <<>>
        /\ Head(z).do \in {"pool_create", "start", "while", "poll"}
    <3>1. CASE z = <<Do("pool_create", ""), Do("start", "")>>
      BY <3>1, Prelude
    <3>2. CASE z \in {<<Do("start", "")>>, <<Do("while", "")>>, <<Do("poll", "")>>}
      BY <3>2, Words
    <3> QED
      BY <2>1, <3>1, <3>2
  <2> QED
    BY <2>1, <2>2, BeforeTail
<1>2. CASE Going
  <2>1. PICK q : /\ Good(q, AfterDisable, FALSE)
                 /\ Before(todo, BeforeDisable, TRUE,
                           <<Do("not_enabled", "")>>
                               \o (<<Do("action_lock", ""), DisableCall>> \o q))
    BY <1>2 DEF Going
  <2>2. PICK a, b, c : a = Do("not_enabled", "") /\ b = Do("action_lock", "") /\ c = DisableCall
    OBVIOUS
  <2>3. PICK y, z : y = <<b, c>> \o q /\ z = <<a>> \o y
    OBVIOUS
  <2>4. IsList(y)
    BY <2>1, <2>3, Triple, ConcatList DEF Good
  <2>5. IsList(z) /\ z # <<>> /\ Head(z) = a
    BY <2>3, <2>4, SingleTail
  <2>6. Before(todo, BeforeDisable, TRUE, z)
    BY <2>1, <2>2, <2>3
  <2>7. a.do = "not_enabled"
    BY <2>2, Words
  <2> QED
    BY <2>5, <2>6, <2>7, BeforeTail
<1> QED
  BY <1>1, <1>2

LEMMA HalfwayHead ==
  ASSUME Halfway
  PROVE  /\ todo # <<>>
         /\ Head(todo).do \in {"call", "no_pool", "drain", "action_unlock", "action_lock", "flush",
                              "transit_wait"}
         /\ Head(todo).do \in {"drain", "action_unlock"} => action.mutex = "worker"
<1>1. PICK q : /\ Good(q, AfterDisable, FALSE)
               /\ \/ HasLock(q) /\ action.mutex = "worker"
                  \/ todo \in {Locks(q), Flushes(q), Waits(q)}
  BY DEF Halfway
<1>2. IsList(q)
  BY <1>1 DEF Good
<1>3. (\A w : Do(w, "").do = w) /\ DisableCall.do = "call"
  BY Words DEF DisableCall, Call
<1>4. CASE todo \in {Drains(q), Unlocks(q)}
  <2>1. todo # <<>> /\ Head(todo).do \in {"drain", "action_unlock"}
    BY <1>2, <1>3, <1>4, Segments
  <2>2. action.mutex = "worker"
    <3>1. todo \notin {Locks(q), Flushes(q), Waits(q)}
      <4>1. Head(Locks(q)).do = "action_lock" /\ Head(Flushes(q)).do = "flush"
            /\ Head(Waits(q)).do = "transit_wait"
        BY <1>2, <1>3, Segments
      <4> QED
        BY <2>1, <4>1
    <3> QED
      BY <1>1, <3>1
  <2> QED
    BY <2>1, <2>2
<1>5. CASE todo = Calls(q)
  BY <1>2, <1>3, <1>5, Segments
<1>9. CASE todo = Pools(q)
  BY <1>2, <1>3, <1>9, Segments
<1>6. CASE todo = Locks(q)
  BY <1>2, <1>3, <1>6, Segments
<1>7. CASE todo = Flushes(q)
  BY <1>2, <1>3, <1>7, Segments
<1>8. CASE todo = Waits(q)
  BY <1>2, <1>3, <1>8, Segments
<1> QED
  BY <1>1, <1>4, <1>5, <1>6, <1>7, <1>8, <1>9 DEF HasLock

\* The pool is destroyed, and the worker returns, only afterwards.
LEMMA LateSteps ==
  ASSUME Phase, todo # <<>>, Head(todo).do \in {"pool_destroy", "end"}
  PROVE  Still
<1>1. Head(todo).do \in BeforeDisable
  BY DEF BeforeDisable
<1> QED
  BY <1>1, AheadHead, HalfwayHead, GoodIsNot DEF Phase

\* The lock is used and given back only by the one who has it.
LEMMA LockHeld ==
  ASSUME Phase, todo # <<>>, Head(todo).do \in {"drain", "action_unlock"}
  PROVE  action.mutex = "worker"
<1>1. Head(todo).do \in BeforeDisable /\ Head(todo).do \in AfterDisable
  BY DEF BeforeDisable, AfterDisable, Locking
<1>2. ~(Early \/ Going)
  BY <1>1, AheadHead, GoodIsNot
<1>3. ~Still
  <2>1. SUFFICES ASSUME Still PROVE FALSE
    OBVIOUS
  <2>2. GoodStep(Head(todo), AfterDisable, FALSE)
    BY <2>1, GoodTail DEF Still
  <2> QED
    BY <1>1, <2>2, GoodIsNot
<1> QED
  BY <1>2, <1>3, HalfwayHead DEF Phase

\* Steps of the others leave the worker where it is.
LEMMA OthersStep ==
  ASSUME [Next]_vars, ~WorkerSteps
  PROVE  todo' = todo /\ life' = life
<1>1. CASE WorkerCalls \/ CallbackSends \/ ActionWakes \/ Stop \/ UNCHANGED vars
  BY <1>1 DEF WorkerCalls, CallbackSends, ActionWakes, Stop, workervars, vars
<1>2. CASE Vchiq \/ Encoder \/ Server
  BY <1>2 DEF Vchiq, Encoder, Server, rest, workervars
<1>3. ASSUME NEW t \in Threads, Callback(t) PROVE todo' = todo /\ life' = life
  BY <1>3 DEF Callback, CallbackBegins, Copy, CallbackReleases, CallbackGets, CallbackPosts,
              CallbackEnds, workervars
<1> QED
  BY <1>1, <1>2, <1>3 DEF Next, Worker, Action, Threads, WorkerSteps

LEMMA AloneKeeps ==
  ASSUME Kept, Phase, Alone, [Next]_vars
  PROVE  /\ Alone'
         /\ ~WorkerSteps /\ action.mutex = "worker" => action'.mutex = "worker"
<1>1. /\ DOMAIN cb = Threads /\ \A t \in Threads : DOMAIN cb[t] = {"at", "of", "next"}
      /\ action = [sema |-> action.sema, mutex |-> action.mutex]
  BY DEF Kept, Typed, CallbackTyped, PortTyped
<1> DEFINE Goal == /\ Alone'
                   /\ ~WorkerSteps /\ action.mutex = "worker" => action'.mutex = "worker"
<1>2. CASE WorkerSteps
  <2>1. todo # <<>> /\ UNCHANGED cb
    BY <1>2 DEF WorkerSteps, WorkerReturns, WorkerPool, WorkerChooses, WorkerEnds, WorkerSends,
                WorkerAwaits, WorkerPort, WorkerLocks, WorkerDrained, Is
  <2>2. cb["worker"].at = "idle"
    BY <1>2, StepHead DEF Alone, Is
  <2>3. action.mutex = "action" => action'.mutex = "action"
    <3>1. CASE WorkerLocks
      BY <2>1, <3>1, LockHeld DEF WorkerLocks, Is, ActionLock, ActionUnlock, ActionQuits
    <3>2. CASE ~WorkerLocks
      <4>1. UNCHANGED action
        BY <1>2, <3>2 DEF WorkerSteps, WorkerReturns, WorkerPool, WorkerChooses, WorkerEnds,
               WorkerSends, WorkerAwaits, WorkerPort, WorkerDrained, mmalvars, portvars
      <4> QED
        BY <4>1
    <3> QED
      BY <3>1, <3>2
  <2> QED
    BY <1>2, <2>1, <2>2, <2>3 DEF Alone
<1>3. ASSUME ~WorkerSteps, UNCHANGED cb, action'.mutex = action.mutex PROVE Goal
  <2>1. todo' = todo /\ life' = life
    BY <1>3, OthersStep
  <2> QED
    BY <1>3, <2>1 DEF Alone, Is
<1>4. ASSUME ~WorkerSteps, Callback("worker") PROVE Goal
  <2>1. todo' = todo /\ life' = life
    BY <1>4, OthersStep
  <2>2. Is("drain") /\ action.mutex = "worker"
    <3>1. CASE cb["worker"].at # "idle"
      BY <3>1 DEF Alone
    <3>2. CASE cb["worker"].at = "idle"
      <4>1. Is("drain")
        BY <1>4, <3>2 DEF Callback, CallbackBegins, Copy, CallbackReleases, CallbackGets,
                          CallbackPosts, CallbackEnds, At
      <4> QED
        BY <4>1, LockHeld DEF Is
    <3> QED
      BY <3>1, <3>2
  <2>3. action' = action /\ cb'["action"] = cb["action"]
    BY <1>1, <1>4 DEF Callback, CallbackBegins, Copy, CallbackReleases, CallbackGets,
                     CallbackPosts, CallbackEnds, Goes, Threads, mmalvars, portvars
  <2> QED
    BY <2>1, <2>2, <2>3 DEF Alone, Is
<1>5. ASSUME ~WorkerSteps, Callback("action") PROVE Goal
  <2>1. cb["action"].at # "idle"
    BY <1>5 DEF Callback, CallbackBegins, Copy, CallbackReleases, CallbackGets, CallbackPosts,
                CallbackEnds, At
  <2>2. action.mutex = "action" /\ cb["worker"].at = "idle"
    BY <2>1 DEF Alone
  <2>3. cb'["worker"] = cb["worker"]
    BY <1>1, <1>5 DEF Callback, CallbackBegins, Copy, CallbackReleases, CallbackGets,
                     CallbackPosts, CallbackEnds, Goes, Threads
  <2>4. cb'["action"].at = "idle" \/ action' = action
    BY <1>1, <1>5 DEF Callback, CallbackBegins, Copy, CallbackReleases, CallbackGets,
                     CallbackPosts, CallbackEnds, Goes, Threads, NoCallback, mmalvars, portvars
  <2> QED
    BY <2>2, <2>3, <2>4 DEF Alone
<1>6. CASE ActionWakes
  <2>1. action.mutex = "none" /\ action'.mutex = "action"
    BY <1>6 DEF ActionWakes
  <2>2. cb["worker"].at = "idle" /\ cb'["worker"] = cb["worker"]
    BY <1>1, <1>6, <2>1 DEF Alone, ActionWakes, Goes, Threads
  <2> QED
    BY <2>1, <2>2 DEF Alone
<1>7. CASE CallbackSends
  <2>1. cb["action"].at # "idle" /\ action' = action
    BY <1>7 DEF CallbackSends, At
  <2>2. cb'["worker"] = cb["worker"]
    BY <1>1, <1>7 DEF CallbackSends, Threads
  <2> QED
    BY <2>1, <2>2 DEF Alone
<1>8. CASE ~WorkerSteps /\ (WorkerCalls \/ Vchiq \/ Encoder \/ Server \/ Stop \/ UNCHANGED vars)
  <2>1. UNCHANGED cb
    BY <1>8 DEF WorkerCalls, Vchiq, Encoder, Server, Stop, rest, vars
  <2>2. action' = action \/ action' = [action EXCEPT !.sema = @ + 1]
    BY <1>8 DEF WorkerCalls, SendWait, Vchiq, Encoder, Server, Stop, VchiqMessage, VchiqBulk,
                SendCallback, Encodes, VCReceives, VCDisables, vars, mmalvars, portvars
  <2>3. action'.mutex = action.mutex
    BY <1>1, <2>2
  <2> QED
    BY <1>3, <1>8, <2>1, <2>3
<1> QED
  BY <1>2, <1>4, <1>5, <1>6, <1>7, <1>8 DEF Next, Worker, Action, WorkerSteps

LEMMA SmoothKeeps ==
  ASSUME Kept, Smooth, [Next]_vars
  PROVE  Smooth'
<1>1. SUFFICES ASSUME trouble' = 0
               PROVE  Unrefused' /\ Phase' /\ Alone' /\ (life' = "ended" => Still')
  BY DEF Smooth
<1>2. trouble = 0 /\ Unrefused /\ Phase /\ Alone /\ (life = "ended" => Still)
  BY <1>1, TroubleStays DEF Smooth
<1>3. Unrefused' /\ Alone'
  BY <1>1, <1>2, UnrefusedStays, AloneKeeps
<1>4. CASE WorkerSteps
  <2>1. Phase'
    <3>1. CASE Early
      BY <1>4, <3>1, EarlyGoes DEF Phase
    <3>2. CASE Going
      BY <1>4, <3>2, GoingGoes DEF Phase
    <3>3. CASE Halfway
      BY <1>2, <1>4, <3>3, HalfwayGoes DEF Phase
    <3>4. CASE Still
      BY <1>2, <1>4, <3>4, StillGoes DEF Phase
    <3> QED
      BY <1>2, <3>1, <3>2, <3>3, <3>4 DEF Phase
  <2>2. ASSUME life' = "ended" PROVE Still'
    <3>1. todo # <<>> /\ life = "runs"
      BY <1>4, StepHead
    <3>2. Head(todo).do = "end"
      BY <1>4, <2>2, <3>1 DEF WorkerSteps, WorkerReturns, WorkerPool, WorkerChooses, WorkerEnds,
                              WorkerSends, WorkerAwaits, WorkerPort, WorkerLocks, WorkerDrained,
                              Is, Then
    <3>3. Still
      BY <1>2, <3>1, <3>2, LateSteps
    <3> QED
      BY <1>2, <1>4, <3>3, StillGoes
  <2> QED
    BY <1>3, <2>1, <2>2
<1>5. CASE ~WorkerSteps
  <2>1. todo' = todo /\ life' = life
    BY <1>5, OthersStep
  <2>2. (~port.isEnabled => ~port'.isEnabled)
        /\ (~port.isEnabled /\ port.transit = 0 => port'.transit = 0)
    BY <1>5, StaysDisabled
  <2>3. Early => Early'
    BY <2>1 DEF Early, Before
  <2>4. Going => Going'
    BY <2>1 DEF Going, Before
  <2>5. Halfway => Halfway'
    <3>1. action.mutex = "worker" => action'.mutex = "worker"
      BY <1>2, <1>5, AloneKeeps
    <3> QED
      BY <2>1, <2>2, <3>1 DEF Halfway, HasLock
  <2>6. Still => Still'
    BY <2>1, <2>2 DEF Still
  <2> QED
    BY <1>2, <1>3, <2>1, <2>3, <2>4, <2>5, <2>6 DEF Phase
<1> QED
  BY <1>4, <1>5

LEMMA InitSmooth ==
  ASSUME Init
  PROVE  Smooth
<1>1. toHost = <<>> /\ reply = "none" /\ life = "runs"
  BY DEF Init, MmalInit
<1>2. toHost \in Seq(Accepting)
  BY <1>1
<1>3. Before(todo, BeforeDisable, TRUE, <<Do("pool_create", ""), Do("start", "")>>)
  <2>1. PICK a, b : a = Do("pool_create", "") /\ b = Do("start", "")
    OBVIOUS
  <2>2. PICK p : Good(p, BeforeDisable, TRUE) /\ OpenEncoder = p \o <<a>>
    BY <2>1, SpecialSets, GoodOpenEncoder
  <2>3. PICK c : c = OpenCamera /\ Good(c, BeforeDisable, TRUE)
    BY SpecialSets, GoodOpenCamera
  <2>4. todo = (c \o (p \o <<a>>)) \o <<b>>
    BY <2>1, <2>2, <2>3 DEF Init
  <2>5. /\ IsList(c) /\ IsList(p) /\ IsList(<<a>>) /\ IsList(<<b>>) /\ IsList(c \o p)
        /\ <<a>> \o <<b>> = <<a, b>>
    BY <2>2, <2>3, Triple, Pair, ConcatList DEF Good
  <2>6. c \o (p \o <<a>>) = (c \o p) \o <<a>>
    BY <2>5, ConcatLists
  <2>7. ((c \o p) \o <<a>>) \o <<b>> = (c \o p) \o (<<a>> \o <<b>>)
    BY <2>5, ConcatLists
  <2>8. Good(c \o p, BeforeDisable, TRUE)
    BY <2>2, <2>3, GoodConcat
  <2>9. todo = (c \o p) \o <<a, b>>
    BY <2>4, <2>5, <2>6, <2>7
  <2> QED
    BY <2>1, <2>8, <2>9 DEF Before
<1>4. Alone
  BY DEF Init, NoCallback, Threads, Alone
<1> QED
  BY <1>1, <1>2, <1>3, <1>4 DEF Smooth, Unrefused, Phase, Early

LEMMA StillQuiet ==
  ASSUME Kept, Still
  PROVE  /\ OnTheWire \cup HeadersOf(callbackQueue) = {}
         /\ \A t \in Threads : cb[t].at \in {"idle", "begin"}
<1>1. Cardinality(OutOf(Contents)) = 0 /\ Cardinality(Busy) = 0
  <2>1. PICK m \in Nat, n \in Nat : m = Cardinality(OutOf(Contents)) /\ n = Cardinality(Busy)
    BY ContentsTyped, OutFinite, BusyFinite DEF Kept
  <2>2. m + n = 0
    BY <2>1 DEF Kept, Counted, Still
  <2> QED
    BY <2>1, <2>2
<1>2. OutOf(Contents) = {} /\ Busy = {}
  BY <1>1, ContentsTyped, OutFinite, BusyFinite, FS_EmptySet DEF Kept
<1>3. OnTheWire \cup HeadersOf(callbackQueue) \cup Range(port.queue) = OutOf(Contents)
  <2>1. OutOf(Contents) = UNION {Contents["toVC"], Contents["held"], Contents["toHost"],
                                 Contents["bulks"], Contents["callbacks"], Contents["queue"]}
    BY DEF OutOf, OutPlaces
  <2> QED
    BY <2>1, ContentsNow DEF ContentsAre, OnTheWire, MsgHeaders
<1> QED
  BY <1>2, <1>3 DEF Busy, At

LEMMA SmoothAlways == Spec => []Smooth
<1>1. Init => Smooth
  BY InitSmooth
<1>2. Kept /\ Smooth /\ [Next]_vars => Smooth'
  BY SmoothKeeps
<1> QED
  BY <1>1, <1>2, Invariant, PTL DEF Spec

\* Nothing fails: when the pool is destroyed, and when the worker has
\* returned, no header of the encoder's port is with VideoCore or on the way,
\* none waits for its callback and no callback runs, because mmal_port_disable
\* has waited for the last of them and nothing enables the port afterwards.
THEOREM QuietAtTheEnd == Spec => []Quiet
<1>1. Kept /\ Smooth => Quiet
  <2>1. SUFFICES ASSUME Kept, Smooth, trouble = 0, life = "ended" \/ Is("pool_destroy")
                 PROVE  Still
    BY StillQuiet DEF Quiet
  <2>2. CASE life = "ended"
    BY <2>1, <2>2 DEF Smooth
  <2>3. CASE Is("pool_destroy")
    BY <2>1, <2>3, LateSteps DEF Smooth, Is
  <2> QED
    BY <2>1, <2>2, <2>3
<1> QED
  BY <1>1, Invariant, SmoothAlways, PTL
----------------------------------------------------------------------------
(* The parts of a picture stay in order, as long as nothing has failed and   *)
(* VideoCore does not let short data overtake a transfer.                    *)

\* A place in the stream of parts: the part number of a picture comes next.
Spots == [frame : 0 .. 1, part : Nat \ {0}]

\* The buffer h is what comes at s, and u comes after it.  An empty buffer may
\* come anywhere.
Hop(s, h, u) ==
    /\ ~h.failed
    /\ \/ h.data = NoData /\ ~h.end /\ u = s
       \/ /\ h.data = <<<<s.frame, s.part, h.end>>>>
          /\ \/ h.end  /\ u = [frame |-> 1 - s.frame, part |-> 1]
             \/ ~h.end /\ u = [frame |-> s.frame, part |-> s.part + 1]

\* The buffer that comes with a message; a reply brings none.
Carried(x, wire) == IF ~wire THEN x ELSE IF x.msg = "part" THEN x.part ELSE NoHeader

\* The buffers in q lead from s to t.
Leads(q, wire, s, t) ==
    \E w \in [1 .. Len(q) + 1 -> Spots] :
        /\ w[1] = s /\ w[Len(q) + 1] = t
        /\ \A i \in 1 .. Len(q) : Hop(w[i], Carried(q[i], wire), w[i + 1])

\* What has been copied is all that came before s.
Painted(s) ==
    /\ IsList(buf) /\ offset = s.part - 1 /\ (db <=> offset > 0)
    /\ offset > 0 => Len(buf) = offset /\ \A i \in 1 .. offset : buf[i] = <<s.frame, i, FALSE>>
    /\ offset = 0 => Len(buf) = size /\ \A i \in 1 .. size : buf[i] = <<buf[1][1], i, i = size>>

\* A callback that is about to copy its buffer leads from s to t.
Handed(s, t) == \/ s = t /\ \A c \in Threads : ~At(c, "copy")
                \/ \E c \in Threads : At(c, "copy") /\ Hop(s, Buffer(c), t)

\* VideoCore goes on at e.  When it has been told to disable the port it gets
\* no more buffers.
NoBuffer(q)  == \A i \in DOMAIN q : ~IsBuffer(q[i])
NoDisable(q) == \A i \in DOMAIN q : ~DisablesPort(q[i])
Ordered(q)   == \A i, j \in DOMAIN q : i < j => ~(DisablesPort(q[i]) /\ IsBuffer(q[j]))
Behind == Halfway \/ Still
Matches(e) == vc.frame = e.frame /\ vc.part = e.part
GoesOn(e) ==
    \/ NoDisable(toVC) /\ ~vc.disables /\ Matches(e)
    \/ /\ Behind /\ Ordered(toVC) /\ (vc.disables => NoBuffer(toVC))
       /\ Matches(e) \/ (vc.held = <<>> /\ NoBuffer(toVC))

PartsAt(s, t, u, v, e) ==
    /\ Painted(s) /\ Handed(s, t)
    /\ Leads(callbackQueue, FALSE, t, u) /\ Leads(bulks, FALSE, u, v)
    /\ Leads(toHost, TRUE, v, e) /\ GoesOn(e)
InOrder == \E s, t, u, v, e \in Spots : PartsAt(s, t, u, v, e)

LEMMA NothingLeads ==
  ASSUME NEW wire
  PROVE  /\ \A s \in Spots : Leads(<<>>, wire, s, s)
         /\ \A s, t : Leads(<<>>, wire, s, t) => s = t
<1>1. PICK q : q = <<>> /\ Len(q) = 0
  OBVIOUS
<1>2. ASSUME NEW s \in Spots PROVE Leads(q, wire, s, s)
  <2>1. PICK w : w = [i \in 1 .. 1 |-> s]
    OBVIOUS
  <2>2. w \in [1 .. 0 + 1 -> Spots] /\ w[1] = s /\ w[0 + 1] = s
    BY <2>1
  <2>3. \A i \in 1 .. 0 : Hop(w[i], Carried(q[i], wire), w[i + 1])
    OBVIOUS
  <2> QED
    BY <1>1, <2>2, <2>3 DEF Leads
<1>3. ASSUME NEW s, NEW t, Leads(q, wire, s, t) PROVE s = t
  BY <1>1, <1>3 DEF Leads
<1> QED
  BY <1>1, <1>2, <1>3

LEMMA RestLeads ==
  ASSUME NEW q, NEW r, NEW m \in Nat, Len(q) = m + 1, Len(r) = m,
         \A i \in 1 .. m : r[i] = q[i + 1],
         NEW wire, NEW s, NEW t, Leads(q, wire, s, t)
  PROVE  \E u \in Spots : Hop(s, Carried(q[1], wire), u) /\ Leads(r, wire, u, t)
<1>1. PICK n \in Nat : n = m + 1
  OBVIOUS
<1>2. PICK w \in [1 .. n + 1 -> Spots] :
          /\ w[1] = s /\ w[n + 1] = t
          /\ \A i \in 1 .. n : Hop(w[i], Carried(q[i], wire), w[i + 1])
  BY <1>1 DEF Leads
<1>3. PICK x : x = [i \in 1 .. m + 1 |-> w[i + 1]]
  OBVIOUS
<1>4. \A i \in 1 .. m + 1 : i + 1 \in 1 .. n + 1 /\ x[i] = w[i + 1]
  BY <1>1, <1>3
<1>5. x \in [1 .. m + 1 -> Spots] /\ x[1] = w[1 + 1] /\ x[m + 1] = t
  <2>1. x \in [1 .. m + 1 -> Spots]
    BY <1>2, <1>3, <1>4
  <2>2. 1 \in 1 .. m + 1 /\ m + 1 \in 1 .. m + 1 /\ (m + 1) + 1 = n + 1
    BY <1>1
  <2> QED
    BY <1>2, <1>4, <2>1, <2>2
<1>6. ASSUME NEW i \in 1 .. m PROVE Hop(x[i], Carried(r[i], wire), x[i + 1])
  <2>1. i + 1 \in 1 .. n /\ i \in 1 .. m + 1 /\ i + 1 \in 1 .. m + 1
    BY <1>1
  <2>2. Hop(w[i + 1], Carried(q[i + 1], wire), w[(i + 1) + 1])
    BY <1>2, <2>1
  <2> QED
    BY <1>4, <2>1, <2>2
<1>7. Leads(r, wire, x[1], t)
  BY <1>5, <1>6 DEF Leads
<1>8. Hop(s, Carried(q[1], wire), x[1])
  <2>1. 1 \in 1 .. n
    BY <1>1
  <2> QED
    BY <1>2, <1>5, <2>1
<1>9. x[1] \in Spots
  <2>1. 1 \in 1 .. m + 1
    OBVIOUS
  <2> QED
    BY <1>5, <2>1
<1> QED
  BY <1>7, <1>8, <1>9

LEMMA TailLeads ==
  ASSUME NEW S, NEW q \in Seq(S), NEW wire, NEW s, NEW t, Leads(q, wire, s, t), q # <<>>
  PROVE  \E u \in Spots : Hop(s, Carried(Head(q), wire), u) /\ Leads(Tail(q), wire, u, t)
<1>1. Len(q) > 0 /\ Head(q) = q[1]
  OBVIOUS
<1>2. Len(Tail(q)) = Len(q) - 1 /\ \A i \in 1 .. Len(Tail(q)) : Tail(q)[i] = q[i + 1]
  BY HeadTailProperties
<1>3. PICK m \in Nat : Len(q) = m + 1
  <2>1. PICK k \in Nat : k = Len(q)
    OBVIOUS
  <2>2. k - 1 \in Nat /\ k = (k - 1) + 1
    BY <1>1, <2>1
  <2> QED
    BY <2>1, <2>2
<1>4. Len(Tail(q)) = m
  BY <1>2, <1>3
<1>5. \A i \in 1 .. m : Tail(q)[i] = q[i + 1]
  BY <1>2, <1>4
<1> QED
  BY <1>1, <1>3, <1>4, <1>5, RestLeads

\* What comes next may be added, and any number of empty buffers.
LEMMA ConcatLeads ==
  ASSUME NEW S, NEW q \in Seq(S), NEW r \in Seq(S), NEW wire, NEW s, NEW t, NEW u \in Spots,
         Leads(q, wire, s, t),
         \/ Len(r) = 1 /\ Hop(t, Carried(r[1], wire), u)
         \/ t = u /\ \A i \in 1 .. Len(r) : Hop(t, Carried(r[i], wire), t)
  PROVE  Leads(q \o r, wire, s, u)
<1>1. PICK n \in Nat, m \in Nat : n = Len(q) /\ m = Len(r)
  OBVIOUS
<1>2. PICK w \in [1 .. n + 1 -> Spots] :
          /\ w[1] = s /\ w[n + 1] = t
          /\ \A i \in 1 .. n : Hop(w[i], Carried(q[i], wire), w[i + 1])
  BY <1>1 DEF Leads
<1>3. PICK a : a = q \o r
  OBVIOUS
<1>4. Len(a) = n + m /\ \A i \in 1 .. n + m : a[i] = IF i <= n THEN q[i] ELSE r[i - n]
  <2>1. Len(q \o r) = Len(q) + Len(r) /\ \A i \in 1 .. Len(q) + Len(r) :
            (q \o r)[i] = IF i <= Len(q) THEN q[i] ELSE r[i - Len(q)]
    BY ConcatProperties
  <2> QED
    BY <1>1, <1>3, <2>1
<1>5. PICK x : x = [i \in 1 .. (n + m) + 1 |-> IF i <= n + 1 THEN w[i] ELSE u]
  OBVIOUS
<1>6. \A i \in 1 .. (n + m) + 1 : x[i] = IF i <= n + 1 THEN w[i] ELSE u
  BY <1>5
<1>7. x \in [1 .. (n + m) + 1 -> Spots]
  BY <1>2, <1>5
<1>8. x[1] = s /\ x[n + 1] = t
  <2>1. 1 \in 1 .. (n + m) + 1 /\ 1 <= n + 1 /\ n + 1 \in 1 .. (n + m) + 1 /\ n + 1 <= n + 1
    BY <1>1
  <2> QED
    BY <1>2, <1>6, <2>1
<1>9. x[(n + m) + 1] = u
  <2>1. CASE m = 0
    <3>1. t = u
      BY <1>1, <2>1
    <3> QED
      BY <1>8, <2>1, <3>1
  <2>2. CASE m > 0
    <3>1. (n + m) + 1 \in 1 .. (n + m) + 1 /\ ~((n + m) + 1 <= n + 1)
      BY <2>2
    <3> QED
      BY <1>6, <3>1
  <2> QED
    BY <2>1, <2>2
<1>10. ASSUME NEW i \in 1 .. n + m PROVE Hop(x[i], Carried(a[i], wire), x[i + 1])
  <2>1. i \in 1 .. (n + m) + 1 /\ i + 1 \in 1 .. (n + m) + 1
    OBVIOUS
  <2>2. CASE i <= n
    <3>1. i \in 1 .. n /\ i <= n + 1 /\ i + 1 <= n + 1
      BY <2>2
    <3>2. x[i] = w[i] /\ x[i + 1] = w[i + 1] /\ a[i] = q[i]
      BY <1>4, <1>6, <2>1, <2>2, <3>1
    <3> QED
      BY <1>2, <3>1, <3>2
  <2>3. CASE ~(i <= n)
    <3>1. PICK j \in 1 .. m : i = n + j
      <4>1. i - n \in 1 .. m /\ i = n + (i - n)
        BY <2>3
      <4> QED
        BY <4>1
    <3>2. a[i] = r[j]
      <4>1. i - n = j
        BY <3>1
      <4> QED
        BY <1>4, <2>3, <4>1
    <3>3. x[i + 1] = u
      <4>1. ~(i + 1 <= n + 1)
        BY <2>3
      <4> QED
        BY <1>6, <2>1, <4>1
    <3>4. x[i] = IF j = 1 THEN t ELSE u
      <4>1. CASE j = 1
        BY <1>8, <3>1, <4>1
      <4>2. CASE j # 1
        <5>1. ~(i <= n + 1)
          BY <3>1, <4>2
        <5> QED
          BY <1>6, <2>1, <4>2, <5>1
      <4> QED
        BY <4>1, <4>2
    <3>5. CASE Len(r) = 1 /\ Hop(t, Carried(r[1], wire), u)
      <4>1. j = 1
        BY <1>1, <3>5
      <4> QED
        BY <3>2, <3>3, <3>4, <3>5, <4>1
    <3>6. CASE t = u /\ \A k \in 1 .. Len(r) : Hop(t, Carried(r[k], wire), t)
      <4>1. Hop(t, Carried(r[j], wire), t)
        BY <1>1, <3>6
      <4> QED
        BY <3>2, <3>3, <3>4, <3>6, <4>1
    <3> QED
      BY <3>5, <3>6
  <2> QED
    BY <2>2, <2>3
<1> QED
  BY <1>3, <1>4, <1>7, <1>8, <1>9, <1>10 DEF Leads

LEMMA AppendLeads ==
  ASSUME NEW S, NEW q \in Seq(S), NEW x \in S, NEW wire, NEW s, NEW t, NEW u \in Spots,
         Leads(q, wire, s, t), Hop(t, Carried(x, wire), u)
  PROVE  Leads(Append(q, x), wire, s, u)
<1>1. PICK r : r = <<x>>
  OBVIOUS
<1>2. r \in Seq(S) /\ Len(r) = 1 /\ r[1] = x
  BY <1>1
<1>3. Append(q, x) = q \o r
  BY <1>1, AppendIsConcat
<1>4. Leads(q \o r, wire, s, u)
  BY <1>2, ConcatLeads
<1> QED
  BY <1>3, <1>4

LEMMA NoHeaderLeads ==
  \A s, t : Hop(s, NoHeader, t) <=> t = s
<1>1. \A x : NoData # <<x>>
  BY DEF NoData
<1> QED
  BY <1>1 DEF Hop, NoHeader

LEMMA EmptyHop ==
  ASSUME NEW s, NEW h, NEW t, Hop(s, h, t), h.data = NoData
  PROVE  t = s /\ \A z : Hop(z, h, z)
<1>1. \A x : h.data # <<x>>
  BY DEF NoData
<1> QED
  BY <1>1 DEF Hop

LEMMA HopTo ==
  ASSUME NEW s \in Spots, NEW h, NEW u, Hop(s, h, u)
  PROVE  u \in Spots
BY DEF Hop, Spots

\* What the callback copies goes behind what is there.
LEMMA CopiedBehind ==
  ASSUME NEW S, NEW b \in Seq(S), NEW n \in Nat, n <= Len(b), NEW x
  PROVE  /\ IsList(SubSeq(b, 1, n) \o <<x>>) /\ Len(SubSeq(b, 1, n) \o <<x>>) = n + 1
         /\ \A i \in 1 .. n : (SubSeq(b, 1, n) \o <<x>>)[i] = b[i]
         /\ (SubSeq(b, 1, n) \o <<x>>)[n + 1] = x
<1>1. PICK m \in Nat : m = Len(b)
  OBVIOUS
<1>2. \A i \in 1 .. n : b[i] \in S
  BY <1>1
<1>3. PICK p : p = SubSeq(b, 1, n)
  OBVIOUS
<1>4. p \in Seq(S) /\ Len(p) = n /\ \A i \in 1 .. n : p[i] = b[i]
  <2>1. /\ p \in Seq(S) /\ Len(p) = IF 1 <= n THEN n - 1 + 1 ELSE 0
        /\ \A i \in 1 .. n - 1 + 1 : p[i] = b[1 + i - 1]
    BY <1>2, <1>3, SubSeqProperties
  <2> QED
    BY <2>1
<1>5. PICK r : r = <<x>> /\ IsList(r)
  BY Triple
<1>6. Len(r) = 1 /\ r[1] = x
  BY <1>5
<1>7. IsList(p)
  BY <1>4 DEF IsList
<1>8. PICK c : c = p \o r
  OBVIOUS
<1>9. /\ IsList(c) /\ Len(c) = n + 1
      /\ \A i \in 1 .. n + 1 : c[i] = IF i <= n THEN p[i] ELSE r[i - n]
  <2>1. /\ IsList(c) /\ Len(c) = Len(p) + Len(r)
        /\ \A i \in 1 .. Len(p) + Len(r) : c[i] = IF i <= Len(p) THEN p[i] ELSE r[i - Len(p)]
    BY <1>5, <1>7, <1>8, ConcatList
  <2> QED
    BY <1>4, <1>6, <2>1
<1>10. \A i \in 1 .. n : c[i] = b[i]
  BY <1>4, <1>9
<1>11. c[n + 1] = x
  <2>1. n + 1 \in 1 .. n + 1 /\ ~(n + 1 <= n) /\ (n + 1) - n = 1
    OBVIOUS
  <2> QED
    BY <1>6, <1>9, <2>1
<1> QED
  BY <1>3, <1>5, <1>8, <1>9, <1>10, <1>11

LEMMA CopyPaints ==
  ASSUME Kept, NEW s \in Spots, NEW u, Painted(s), NEW c \in Threads, Copy(c),
         Hop(s, Buffer(c), u)
  PROVE  Painted(u)'
<1>1. /\ offset \in Nat /\ size \in Nat /\ db \in BOOLEAN /\ s.part \in Nat \ {0}
  BY DEF Kept, Typed, WorkerTyped, Spots
<1>2. PICK n \in Nat : n = offset
  BY <1>1
<1>3. PICK d, e : d = Buffer(c).data /\ e = Buffer(c).end /\ e \in BOOLEAN
  BY DEF Kept, Typed, CallbackTyped, Copy, HeldHeader
<1>4. ~Buffer(c).failed /\ (IsComplete(c) <=> e)
  BY <1>3 DEF Hop, IsComplete
<1>5. CASE d = NoData /\ ~e /\ u = s
  <2>1. Len(d) = 0
    BY <1>5 DEF NoData
  <2>2. /\ buf' = buf /\ size' = size /\ offset' = offset /\ db' = db
    BY <1>1, <1>3, <1>4, <1>5, <2>1 DEF Copy, CopiedTo
  <2> QED
    BY <1>5, <2>2 DEF Painted
<1>6. CASE d = <<<<s.frame, s.part, e>>>>
  <2>1. PICK x : x = <<s.frame, s.part, e>> /\ d = <<x>>
    BY <1>6
  <2>2. Len(d) = 1 /\ d # NoData
    BY <2>1 DEF NoData
  <2>3. PICK b : b = SubSeq(buf, 1, n) \o <<x>>
    OBVIOUS
  <2>4. PICK S : buf \in Seq(S)
    BY DEF Painted, IsList
  <2>5. n <= Len(buf)
    <3>1. PICK l \in Nat : l = Len(buf)
      BY <2>4
    <3>2. n > 0 => l = n
      BY <1>2, <3>1 DEF Painted
    <3>3. n <= l
      BY <3>2
    <3> QED
      BY <3>1, <3>3
  <2>6. IsList(b) /\ Len(b) = n + 1 /\ (\A i \in 1 .. n : b[i] = buf[i]) /\ b[n + 1] = x
    BY <2>3, <2>4, <2>5, CopiedBehind
  <2>7. buf' = b
    BY <1>2, <1>3, <2>1, <2>2, <2>3 DEF Copy, CopiedTo
  <2>8. s.part = n + 1
    BY <1>1, <1>2 DEF Painted
  <2>9. \A i \in 1 .. n : b[i] = <<s.frame, i, FALSE>>
    <3>1. ASSUME NEW i \in 1 .. n PROVE buf[i] = <<s.frame, i, FALSE>>
      <4>1. n > 0
        OBVIOUS
      <4> QED
        BY <1>2, <4>1 DEF Painted
    <3> QED
      BY <2>6, <3>1
  <2>10. CASE e
    <3>1. size' = n + 1 /\ offset' = 0 /\ db' = FALSE
      BY <1>2, <1>3, <1>4, <2>2, <2>10 DEF Copy
    <3>2. u = [frame |-> 1 - s.frame, part |-> 1]
      BY <1>3, <2>2, <2>10 DEF Hop
    <3>3. \A i \in 1 .. n + 1 : b[i] = <<s.frame, i, i = n + 1>>
      <4>1. b[n + 1] = <<s.frame, n + 1, TRUE>>
        BY <2>1, <2>6, <2>8, <2>10
      <4>2. ASSUME NEW i \in 1 .. n PROVE b[i] = <<s.frame, i, i = n + 1>>
        <5>1. (i = n + 1) = FALSE
          BY <4>2
        <5> QED
          BY <2>9, <5>1
      <4>3. ASSUME NEW i \in 1 .. n + 1 PROVE b[i] = <<s.frame, i, i = n + 1>>
        <5>1. CASE i = n + 1
          <6>1. (i = n + 1) = TRUE
            BY <5>1
          <6> QED
            BY <4>1, <5>1, <6>1
        <5>2. CASE i # n + 1
          BY <4>2, <5>2
        <5> QED
          BY <5>1, <5>2
      <4> QED
        BY <4>3
    <3>4. b[1][1] = s.frame
      <4>1. b[1] = <<s.frame, 1, 1 = n + 1>>
        BY <3>3
      <4> QED
        BY <4>1
    <3>5. IsList(buf') /\ offset' = u.part - 1 /\ (db' <=> offset' > 0) /\ ~(offset' > 0)
      BY <2>6, <2>7, <3>1, <3>2
    <3>6. Len(buf') = size' /\ \A i \in 1 .. size' : buf'[i] = <<buf'[1][1], i, i = size'>>
      BY <2>6, <2>7, <3>1, <3>3, <3>4
    <3> QED
      BY <3>5, <3>6 DEF Painted
  <2>11. CASE ~e
    <3>1. size' = size /\ offset' = n + 1 /\ db' = TRUE
      BY <1>1, <1>2, <1>3, <1>4, <2>2, <2>11 DEF Copy
    <3>2. u = [frame |-> s.frame, part |-> s.part + 1]
      BY <1>3, <2>2, <2>11 DEF Hop
    <3>3. \A i \in 1 .. n + 1 : b[i] = <<s.frame, i, FALSE>>
      <4>1. b[n + 1] = <<s.frame, n + 1, FALSE>>
        BY <1>3, <2>1, <2>6, <2>8, <2>11
      <4>2. \A i \in 1 .. n + 1 : i \in 1 .. n \/ i = n + 1
        OBVIOUS
      <4> QED
        BY <2>9, <4>1, <4>2
    <3>4. IsList(buf') /\ offset' = u.part - 1 /\ (db' <=> offset' > 0) /\ offset' # 0
      BY <1>1, <2>6, <2>7, <2>8, <3>1, <3>2
    <3>5. Len(buf') = offset' /\ \A i \in 1 .. offset' : buf'[i] = <<u.frame, i, FALSE>>
      BY <2>6, <2>7, <3>1, <3>2, <3>3
    <3> QED
      BY <3>1, <3>4, <3>5 DEF Painted
  <2> QED
    BY <1>3, <2>10, <2>11
<1> QED
  BY <1>3, <1>5, <1>6 DEF Hop

\* Once the port is being disabled it remains so.
LEMMA BehindGoes ==
  ASSUME Kept, Unrefused, Phase, Alone, [Next]_vars, Behind
  PROVE  Behind'
<1>1. CASE WorkerSteps
  <2>1. CASE Halfway
    BY <1>1, <2>1, HalfwayGoes DEF Behind
  <2>2. CASE Still
    BY <1>1, <2>2, StillGoes DEF Behind
  <2> QED
    BY <2>1, <2>2 DEF Behind
<1>2. CASE ~WorkerSteps
  <2>1. todo' = todo
    BY <1>2, OthersStep
  <2>2. /\ ~port'.isEnabled
        /\ (port.transit = 0 => port'.transit = 0)
    BY <1>2, StaysDisabled DEF Behind, Halfway, Still
  <2>3. action.mutex = "worker" => action'.mutex = "worker"
    BY <1>2, AloneKeeps
  <2>4. Halfway => Halfway'
    BY <2>1, <2>2, <2>3 DEF Halfway, HasLock
  <2>5. Still => Still'
    BY <2>1, <2>2 DEF Still
  <2> QED
    BY <2>4, <2>5 DEF Behind
<1> QED
  BY <1>1, <1>2

\* The call that disables the port is sent only then.
LEMMA DisableSent ==
  ASSUME Phase, WorkerCalls, DisablesPort(CallMsg(Head(todo).what, Arg))
  PROVE  Behind
<1>1. SUFFICES ASSUME Early \/ Going PROVE FALSE
  BY DEF Phase, Behind
<1>2. Head(todo).do = "call"
  BY DEF WorkerCalls, Is
<1>3. GoodStep(Head(todo), BeforeDisable, TRUE)
  BY <1>1, <1>2, AheadHead
<1>4. CallOK(Head(todo).what, Head(todo).arg, BeforeDisable)
  BY <1>2, <1>3 DEF GoodStep, Closed
<1>5. "action_lock" \in BeforeDisable
  BY DEF BeforeDisable, Locking
<1> QED
  BY <1>4, <1>5 DEF CallOK, DisablesPort, CallMsg, Arg

\* Messages that are sent and taken.
LEMMA MoreMessages ==
  ASSUME NEW q, IsList(q), NEW m, NEW r, r = Append(q, m)
  PROVE  /\ NoDisable(q) /\ ~DisablesPort(m) => NoDisable(r)
         /\ ~IsBuffer(m) => /\ Ordered(q) => Ordered(r)
                            /\ NoBuffer(q) => NoBuffer(r)
<1>1. PICK S : q \in Seq(S)
  BY DEF IsList
<1>2. q \in Seq(S \cup {m}) /\ m \in S \cup {m}
  BY <1>1, SeqMonotonic
<1>3. PICK n \in Nat : n = Len(q) /\ DOMAIN q = 1 .. n
  BY <1>2
<1>4. DOMAIN r = 1 .. n + 1 /\ r[n + 1] = m /\ \A i \in 1 .. n : r[i] = q[i]
  <2>1. /\ r \in Seq(S \cup {m}) /\ Len(r) = Len(q) + 1 /\ r[Len(q) + 1] = m
        /\ \A i \in 1 .. Len(q) : r[i] = q[i]
    BY <1>2, AppendProperties
  <2> QED
    BY <1>3, <2>1
<1>5. \A i \in 1 .. n + 1 : i \in 1 .. n \/ i = n + 1
  OBVIOUS
<1>6. NoDisable(q) /\ ~DisablesPort(m) => NoDisable(r)
  BY <1>3, <1>4, <1>5 DEF NoDisable
<1>7. ~IsBuffer(m) /\ NoBuffer(q) => NoBuffer(r)
  BY <1>3, <1>4, <1>5 DEF NoBuffer
<1>8. ASSUME ~IsBuffer(m), Ordered(q) PROVE Ordered(r)
  <2>1. ASSUME NEW i \in 1 .. n + 1, NEW j \in 1 .. n + 1, i < j
        PROVE  ~(DisablesPort(r[i]) /\ IsBuffer(r[j]))
    <3>1. CASE j = n + 1
      BY <1>4, <1>8, <3>1
    <3>2. CASE j \in 1 .. n
      <4>1. i \in 1 .. n
        BY <2>1, <3>2
      <4> QED
        BY <1>3, <1>4, <1>8, <2>1, <3>2, <4>1 DEF Ordered
    <3> QED
      BY <1>5, <3>1, <3>2
  <2> QED
    BY <1>4, <2>1 DEF Ordered
<1> QED
  BY <1>6, <1>7, <1>8

LEMMA FewerMessages ==
  ASSUME NEW q, IsList(q), q # <<>>
  PROVE  /\ NoDisable(q) => NoDisable(Tail(q)) /\ ~DisablesPort(Head(q))
         /\ NoBuffer(q) => NoBuffer(Tail(q)) /\ ~IsBuffer(Head(q))
         /\ Ordered(q) => /\ Ordered(Tail(q))
                          /\ DisablesPort(Head(q)) => NoBuffer(Tail(q))
<1>1. PICK n \in Nat : n = Len(q) /\ DOMAIN q = 1 .. n /\ n > 0
  BY ListFacts
<1>2. PICK r : r = Tail(q)
  OBVIOUS
<1>3. DOMAIN r = 1 .. n - 1 /\ Head(q) = q[1] /\ \A i \in 1 .. n - 1 : r[i] = q[i + 1]
  <2>1. /\ IsList(r) /\ Len(r) = n - 1 /\ Head(q) = q[1]
        /\ \A i \in 1 .. n - 1 : r[i] = q[i + 1]
    BY <1>1, <1>2, ListFacts
  <2> QED
    BY <2>1, ListFacts
<1>4. 1 \in 1 .. n /\ \A i \in 1 .. n - 1 : i + 1 \in 1 .. n /\ 1 < i + 1
  BY <1>1
<1>5. NoDisable(q) => NoDisable(r) /\ ~DisablesPort(Head(q))
  BY <1>1, <1>3, <1>4 DEF NoDisable
<1>6. NoBuffer(q) => NoBuffer(r) /\ ~IsBuffer(Head(q))
  BY <1>1, <1>3, <1>4 DEF NoBuffer
<1>7. ASSUME Ordered(q) PROVE Ordered(r)
  <2>1. ASSUME NEW i \in 1 .. n - 1, NEW j \in 1 .. n - 1, i < j
        PROVE  ~(DisablesPort(r[i]) /\ IsBuffer(r[j]))
    <3>1. i + 1 < j + 1
      BY <2>1
    <3> QED
      BY <1>1, <1>3, <1>4, <1>7, <3>1 DEF Ordered
  <2> QED
    BY <1>3, <2>1 DEF Ordered
<1>8. ASSUME Ordered(q), DisablesPort(Head(q)) PROVE NoBuffer(r)
  BY <1>1, <1>3, <1>4, <1>8 DEF Ordered, NoBuffer
<1> QED
  BY <1>2, <1>5, <1>6, <1>7, <1>8

LEMMA ChoiceStays ==
  ASSUME WorkerChooses
  PROVE  UNCHANGED <<toVC, vc>>
<1>1. UNCHANGED mmalvars
  BY Zenon DEF WorkerChooses
<1> QED
  BY <1>1 DEF mmalvars, wirevars

\* What the others send and take leaves VideoCore where it is.
LEMMA VideoCoreSteps ==
  ASSUME Kept, Unrefused, Phase, Alone, [Next]_vars, ~Encoder, NEW e, GoesOn(e)
  PROVE  GoesOn(e)'
<1>1. Behind => Behind' /\ ~port.isEnabled
  BY BehindGoes DEF Behind, Halfway, Still
<1>2. /\ IsList(toVC)
      /\ vc \in [held : Seq(Headers), captures : BOOLEAN, frame : 0 .. 1,
                 part : 1 .. MaxParts, disables : BOOLEAN]
  BY DEF Kept, Typed, WireTyped, CallsTyped
<1>3. ASSUME UNCHANGED <<toVC, vc>> PROVE GoesOn(e)'
  BY <1>1, <1>3 DEF GoesOn, Matches
<1>4. CASE WorkerCalls
  <2>1. PICK m : m = CallMsg(Head(todo).what, Arg)
    OBVIOUS
  <2>2. toVC' = Append(toVC, m) /\ vc' = vc
    BY <1>4, <2>1 DEF WorkerCalls, SendWait
  <2>3. ~IsBuffer(m)
    BY <2>1 DEF IsBuffer, CallMsg
  <2>4. DisablesPort(m) => Behind
    BY <1>4, <2>1, DisableSent
  <2>5. /\ NoDisable(toVC) /\ ~DisablesPort(m) => NoDisable(toVC')
        /\ Ordered(toVC) => Ordered(toVC')
        /\ NoBuffer(toVC) => NoBuffer(toVC')
    BY <1>2, <2>2, <2>3, MoreMessages
  <2>6. NoDisable(toVC) => Ordered(toVC)
    BY DEF NoDisable, Ordered
  <2> QED
    BY <1>1, <2>2, <2>4, <2>5, <2>6 DEF GoesOn, Matches
<1>5. ASSUME NEW b, SendBuffer(b), UNCHANGED vc PROVE GoesOn(e)'
  <2>1. CASE UNCHANGED toVC
    BY <1>3, <1>5, <2>1
  <2>2. CASE toVC' = Append(toVC, BufferMsg(b)) /\ port.isEnabled
    <3>1. ~DisablesPort(BufferMsg(b))
      BY DEF DisablesPort, BufferMsg
    <3>2. NoDisable(toVC) => NoDisable(toVC')
      BY <1>2, <2>2, <3>1, MoreMessages
    <3> QED
      BY <1>1, <1>5, <2>2, <3>2 DEF GoesOn, Matches
  <2> QED
    BY <1>5, <2>1, <2>2 DEF SendBuffer, NotSent
<1>6. CASE VCReceives
  <2>1. toVC # <<>> /\ toVC' = Tail(toVC)
    BY <1>6 DEF VCReceives
  <2>2. PICK m : m = Head(toVC)
    OBVIOUS
  <2>3. /\ NoDisable(toVC) => NoDisable(toVC') /\ ~DisablesPort(m)
        /\ NoBuffer(toVC) => NoBuffer(toVC') /\ ~IsBuffer(m)
        /\ Ordered(toVC) => Ordered(toVC') /\ (DisablesPort(m) => NoBuffer(toVC'))
    BY <1>2, <2>1, <2>2, FewerMessages
  <2>4. vc'.frame = vc.frame /\ vc'.part = vc.part
    BY <1>2, <1>6 DEF VCReceives
  <2>5. CASE m.msg = "buffer" /\ vc' = [vc EXCEPT !.held = Append(@, m.header)]
    <3>1. vc'.disables = vc.disables /\ IsBuffer(m)
      BY <1>2, <2>5 DEF IsBuffer
    <3> QED
      BY <1>1, <2>3, <2>4, <3>1 DEF GoesOn, Matches
  <2>6. CASE vc' = [vc EXCEPT !.captures = @ \/ m.what = "capture"]
    <3>1. vc'.disables = vc.disables /\ vc'.held = vc.held
      BY <1>2, <2>6
    <3> QED
      BY <1>1, <2>3, <2>4, <3>1 DEF GoesOn, Matches
  <2>7. CASE DisablesPort(m) /\ vc' = [vc EXCEPT !.captures = FALSE, !.disables = TRUE]
    <3>1. vc'.held = vc.held
      BY <1>2, <2>7
    <3> QED
      BY <1>1, <2>3, <2>4, <2>7, <3>1 DEF GoesOn, Matches
  <2>8. CASE vc' = vc
    BY <1>1, <2>3, <2>8 DEF GoesOn, Matches
  <2> QED
    BY <1>6, <2>2, <2>5, <2>6, <2>7, <2>8 DEF VCReceives
<1>7. CASE VCDisables
  <2>1. vc.disables /\ toVC' = toVC
    BY <1>7 DEF VCDisables
  <2>2. vc'.held = <<>> /\ vc'.disables = FALSE
    BY <1>2, <1>7 DEF VCDisables
  <2> QED
    BY <1>1, <2>1, <2>2 DEF GoesOn
<1>8. CASE WorkerSends \/ CallbackSends
  <2>1. vc' = vc /\ (UNCHANGED toVC \/ \E b : SendBuffer(b))
    BY <1>8 DEF WorkerSends, CallbackSends
  <2> QED
    BY <1>3, <1>5, <2>1
<1>9. CASE WorkerReturns \/ WorkerPool \/ WorkerChooses \/ WorkerEnds \/ WorkerAwaits
           \/ WorkerPort \/ WorkerLocks \/ WorkerDrained
  <2>1. UNCHANGED <<toVC, vc>>
    <3>1. CASE WorkerReturns \/ WorkerPool \/ WorkerLocks
      BY <3>1 DEF WorkerReturns, WorkerPool, WorkerLocks, wirevars
    <3>2. CASE WorkerPort
      BY <3>2 DEF WorkerPort, wirevars
    <3>3. CASE WorkerEnds \/ WorkerAwaits \/ WorkerDrained
      BY <3>3 DEF WorkerEnds, WorkerAwaits, WorkerDrained, mmalvars, wirevars
    <3>4. CASE WorkerChooses
      BY <3>4, ChoiceStays
    <3> QED
      BY <1>9, <3>1, <3>2, <3>3, <3>4
  <2> QED
    BY <1>3, <2>1
<1>10. ASSUME NEW c \in Threads, Callback(c) PROVE GoesOn(e)'
  <2>1. UNCHANGED <<toVC, vc>>
    BY <1>10 DEF Callback, CallbackBegins, Copy, CallbackReleases, CallbackGets,
                 CallbackPosts, CallbackEnds, mmalvars, wirevars
  <2> QED
    BY <1>3, <2>1
<1>11. CASE ActionWakes \/ Vchiq \/ Stop \/ UNCHANGED vars
  <2>1. UNCHANGED <<toVC, vc>>
    BY <1>11 DEF ActionWakes, Vchiq, VchiqMessage, VchiqBulk, Stop, vars, mmalvars, wirevars
  <2> QED
    BY <1>3, <2>1
<1> QED
  BY <1>4, <1>6, <1>7, <1>8, <1>9, <1>10, <1>11 DEF Next, Worker, Action, Server, Threads

\* What the encoder fills comes next.
LEMMA EncoderSteps ==
  ASSUME Kept, Unrefused, Phase, Alone, [Next]_vars, Encoder, NEW e \in Spots, GoesOn(e),
         NEW v, Leads(toHost, TRUE, v, e)
  PROVE  \E u \in Spots : Leads(toHost', TRUE, v, u) /\ GoesOn(u)'
<1>1. Behind => Behind'
  BY BehindGoes
<1>2. vc \in [held : Seq(Headers), captures : BOOLEAN, frame : 0 .. 1,
              part : 1 .. MaxParts, disables : BOOLEAN]
  BY DEF Kept, Typed, WireTyped
<1>3. Matches(e) /\ vc.held # <<>> /\ toVC' = toVC
  BY DEF Encoder, Encodes, GoesOn
<1>4. PICK end \in {FALSE, TRUE} :
         /\ toHost' = Append(toHost, PartMsg(Header(Head(vc.held),
                                       <<<<vc.frame, vc.part, end>>>>, end)))
         /\ vc' = [vc EXCEPT !.held = Tail(@),
                             !.part = IF end THEN 1 ELSE @ + 1,
                             !.frame = IF end THEN 1 - @ ELSE @,
                             !.captures = ~(end /\ stills)]
  BY DEF Encoder, Encodes
<1>5. PICK h : h = Header(Head(vc.held), <<<<vc.frame, vc.part, end>>>>, end)
  OBVIOUS
<1>6. PICK u : u = [frame |-> IF end THEN 1 - vc.frame ELSE vc.frame,
                    part |-> IF end THEN 1 ELSE vc.part + 1]
  OBVIOUS
<1>7. Hop(e, h, u)
  BY <1>3, <1>5, <1>6 DEF Hop, Header, Matches
<1>8. u \in Spots
  BY <1>7, HopTo
<1>9. PICK m : m = PartMsg(h)
  OBVIOUS
<1>10. Carried(m, TRUE) = h
  BY <1>9 DEF Carried, PartMsg
<1>11. Leads(toHost', TRUE, v, u)
  <2>1. PICK S : toHost \in Seq(S) /\ m \in S
    <3>1. toHost \in Seq(HostMsgs \cup {m})
      BY SeqMonotonic DEF Kept, Typed, WireTyped
    <3> QED
      BY <3>1
  <2>2. toHost' = Append(toHost, m)
    BY <1>4, <1>5, <1>9
  <2>3. Hop(e, Carried(m, TRUE), u)
    BY <1>7, <1>10
  <2>4. Leads(Append(toHost, m), TRUE, v, u)
    BY <1>8, <2>1, <2>3, AppendLeads
  <2> QED
    BY <2>2, <2>4
<1>12. GoesOn(u)'
  <2>1. vc'.disables = vc.disables
    BY <1>2, <1>4
  <2>2. vc'.frame = u.frame /\ vc'.part = u.part
    BY <1>2, <1>4, <1>6
  <2> QED
    BY <1>1, <1>3, <2>1, <2>2 DEF GoesOn, Matches
<1> QED
  BY <1>8, <1>11, <1>12

\* A callback that copies stays where it is unless its own thread goes on.
LEMMA HandedStays ==
  ASSUME NEW s, NEW t, Handed(s, t),
         \A c \in Threads : At(c, "copy") \/ At(c, "copy")' => cb'[c] = cb[c]
  PROVE  Handed(s, t)'
BY DEF Handed, At, Buffer

\* No two callbacks run.
LEMMA OneRuns ==
  ASSUME Alone, NEW c \in Threads, NEW d \in Threads, ~At(c, "idle"), ~At(d, "idle")
  PROVE  c = d
BY DEF Alone, Threads, At

\* Steps that move no part.
LEMMA NoPartMoves ==
  ASSUME InOrder, UNCHANGED <<picturevars, callbackQueue, bulks, toHost>>,
         \A c \in Threads : At(c, "copy") \/ At(c, "copy")' => cb'[c] = cb[c],
         \A e \in Spots : GoesOn(e) => GoesOn(e)'
  PROVE  InOrder'
<1>1. PICK s, t, u, v, e \in Spots :
          /\ Painted(s) /\ Handed(s, t)
          /\ Leads(callbackQueue, FALSE, t, u) /\ Leads(bulks, FALSE, u, v)
          /\ Leads(toHost, TRUE, v, e) /\ GoesOn(e)
  BY DEF InOrder, PartsAt
<1>2. Painted(s)'
  BY <1>1 DEF Painted, picturevars
<1>3. Handed(s, t)'
  BY <1>1, HandedStays
<1>4. /\ Leads(callbackQueue', FALSE, t, u) /\ Leads(bulks', FALSE, u, v)
      /\ Leads(toHost', TRUE, v, e) /\ GoesOn(e)'
  BY <1>1
<1>5. PartsAt(s, t, u, v, e)'
  BY <1>2, <1>3, <1>4 DEF PartsAt
<1> QED
  BY <1>5 DEF InOrder

\* A callback begins with the next part.
LEMMA BeginsInOrder ==
  ASSUME Kept, Phase, Alone, InOrder, NEW c \in Threads, CallbackBegins(c), callbackQueue # <<>>,
         \A e \in Spots : GoesOn(e) => GoesOn(e)'
  PROVE  InOrder'
<1>1. PICK s, t, u, v, e \in Spots :
          /\ Painted(s) /\ Handed(s, t)
          /\ Leads(callbackQueue, FALSE, t, u) /\ Leads(bulks, FALSE, u, v)
          /\ Leads(toHost, TRUE, v, e) /\ GoesOn(e)
  BY DEF InOrder, PartsAt
<1>2. \A d \in Threads : ~At(d, "copy")
  <2>1. CASE c = "action"
    <3>1. ~At(c, "idle") /\ ~At(c, "copy")
      BY <2>1 DEF CallbackBegins, At
    <3> QED
      BY <3>1, OneRuns DEF At
  <2>2. CASE c = "worker"
    <3>1. Is("drain") /\ At(c, "idle")
      BY <2>2 DEF CallbackBegins
    <3>2. action.mutex = "worker"
      BY <3>1, LockHeld DEF Is
    <3>3. ~At(c, "copy") /\ cb["action"].at = "idle"
      BY <3>1, <3>2 DEF Alone, At
    <3> QED
      BY <2>2, <3>3 DEF At, Threads
  <2> QED
    BY <2>1, <2>2 DEF Threads
<1>3. s = t
  BY <1>1, <1>2 DEF Handed
<1>4. callbackQueue \in Seq(HeldHeader)
  BY DEF Kept, Typed, PortTyped
<1>5. PICK w \in Spots : /\ Hop(t, Carried(Head(callbackQueue), FALSE), w)
                         /\ Leads(Tail(callbackQueue), FALSE, w, u)
  BY <1>1, <1>4, TailLeads
<1>6. PICK h : h = Head(callbackQueue)
  OBVIOUS
<1>7. Hop(s, h, w)
  BY <1>3, <1>5, <1>6 DEF Carried
<1>8. /\ callbackQueue' = Tail(callbackQueue) /\ cb' = [cb EXCEPT ![c].at = "copy", ![c].of = h]
      /\ UNCHANGED <<picturevars, bulks, toHost>>
  BY <1>6 DEF CallbackBegins, wirevars
<1>9. Painted(s)'
  BY <1>1, <1>8 DEF Painted, picturevars
<1>10. Handed(s, w)'
  <2>1. cb'[c].at = "copy" /\ cb'[c].of = h
    BY <1>8 DEF Kept, Typed, CallbackTyped
  <2> QED
    BY <1>7, <2>1 DEF Handed, At, Buffer
<1>11. /\ Leads(callbackQueue', FALSE, w, u) /\ Leads(bulks', FALSE, u, v)
       /\ Leads(toHost', TRUE, v, e) /\ GoesOn(e)'
  BY <1>1, <1>5, <1>8
<1>12. PartsAt(s, w, u, v, e)'
  BY <1>9, <1>10, <1>11 DEF PartsAt
<1> QED
  BY <1>12 DEF InOrder

\* It copies it.
LEMMA CopiesInOrder ==
  ASSUME Kept, Alone, InOrder, NEW c \in Threads, Copy(c),
         \A e \in Spots : GoesOn(e) => GoesOn(e)'
  PROVE  InOrder'
<1>1. PICK s, t, u, v, e \in Spots :
          /\ Painted(s) /\ Handed(s, t)
          /\ Leads(callbackQueue, FALSE, t, u) /\ Leads(bulks, FALSE, u, v)
          /\ Leads(toHost, TRUE, v, e) /\ GoesOn(e)
  BY DEF InOrder, PartsAt
<1>2. At(c, "copy")
  BY DEF Copy
<1>3. \A d \in Threads : At(d, "copy") => d = c
  BY <1>2, OneRuns DEF At
<1>4. Hop(s, Buffer(c), t)
  BY <1>1, <1>2, <1>3 DEF Handed
<1>5. Painted(t)'
  BY <1>1, <1>4, CopyPaints
<1>6. Handed(t, t)'
  <2>1. cb' = [cb EXCEPT ![c].at = "release"]
    BY DEF Copy, Goes
  <2>2. \A d \in Threads : cb'[d].at # "copy"
    BY <1>3, <2>1 DEF Kept, Typed, CallbackTyped, At
  <2> QED
    BY <2>2 DEF Handed, At
<1>7. /\ Leads(callbackQueue', FALSE, t, u) /\ Leads(bulks', FALSE, u, v)
      /\ Leads(toHost', TRUE, v, e) /\ GoesOn(e)'
  <2>1. UNCHANGED <<callbackQueue, bulks, toHost>>
    BY DEF Copy, mmalvars, portvars, wirevars
  <2> QED
    BY <1>1, <2>1
<1>8. PartsAt(t, t, u, v, e)'
  BY <1>5, <1>6, <1>7 DEF PartsAt
<1> QED
  BY <1>8 DEF InOrder

\* A message takes its part to the callbacks or to the transfers.
LEMMA MessageInOrder ==
  ASSUME Kept, InOrder, ~Overtakes, VchiqMessage, trouble' = trouble,
         UNCHANGED <<picturevars, cb>>, \A e \in Spots : GoesOn(e) => GoesOn(e)'
  PROVE  InOrder'
<1>1. PICK s, t, u, v, e \in Spots :
          /\ Painted(s) /\ Handed(s, t)
          /\ Leads(callbackQueue, FALSE, t, u) /\ Leads(bulks, FALSE, u, v)
          /\ Leads(toHost, TRUE, v, e) /\ GoesOn(e)
  BY DEF InOrder, PartsAt
<1>2. /\ toHost \in Seq(HostMsgs) /\ bulks \in Seq(HeldHeader) /\ callbackQueue \in Seq(HeldHeader)
      /\ trouble \in Nat
  BY MmalBoundsOK DEF Kept, Typed, WireTyped, PortTyped
<1>3. toHost # <<>> /\ toHost' = Tail(toHost)
  BY DEF VchiqMessage
<1>4. PICK m \in HostMsgs : m = Head(toHost)
  BY <1>2, <1>3
<1>5. PICK w \in Spots : Hop(v, Carried(m, TRUE), w) /\ Leads(toHost', TRUE, w, e)
  BY <1>1, <1>2, <1>3, <1>4, TailLeads
<1>6. Painted(s)'
  BY <1>1 DEF Painted, picturevars
<1>7. Handed(s, t)'
  BY <1>1, HandedStays
<1>8. ASSUME NEW y \in Spots, NEW z \in Spots, Leads(callbackQueue', FALSE, t, y),
             Leads(bulks', FALSE, y, z), Leads(toHost', TRUE, z, e)
      PROVE  InOrder'
  <2>1. PartsAt(s, t, y, z, e)'
    BY <1>1, <1>6, <1>7, <1>8 DEF PartsAt
  <2> QED
    BY <2>1 DEF InOrder
<1>9. CASE m.msg = "reply" /\ UNCHANGED <<bulks, portvars>>
  <2>1. w = v
    BY <1>5, <1>9, NoHeaderLeads DEF Carried
  <2>2. bulks' = bulks /\ callbackQueue' = callbackQueue
    BY <1>9 DEF portvars
  <2> QED
    BY <1>1, <1>5, <1>8, <2>1, <2>2
<1>10. ASSUME m.msg = "part" PROVE Hop(v, m.part, w) /\ m.part \in HeldHeader
  BY <1>4, <1>5, <1>10 DEF Carried, HostMsgs
<1>11. CASE m.msg = "part" /\ bulks' = Append(bulks, m.part) /\ UNCHANGED portvars
  <2>1. Leads(bulks', FALSE, u, w)
    <3>1. Hop(v, Carried(m.part, FALSE), w)
      BY <1>10, <1>11 DEF Carried
    <3>2. Leads(Append(bulks, m.part), FALSE, u, w)
      BY <1>1, <1>2, <1>10, <1>11, <3>1, AppendLeads
    <3> QED
      BY <1>11, <3>2
  <2>2. callbackQueue' = callbackQueue
    BY <1>11 DEF portvars
  <2> QED
    BY <1>1, <1>5, <1>8, <2>1, <2>2
<1>12. CASE /\ m.msg = "part"
            /\ m.part.data = NoData \/ bulks = <<>>
            /\ callbackQueue' = Append(callbackQueue, m.part) /\ bulks' = bulks
  <2>a. Hop(v, m.part, w) /\ m.part \in HeldHeader
    BY <1>10, <1>12
  <2>1. PICK y \in Spots : Hop(u, m.part, y) /\ Leads(bulks, FALSE, y, w)
    <3>1. CASE m.part.data = NoData
      <4>1. w = v /\ Hop(u, m.part, u)
        BY <2>a, <3>1, EmptyHop
      <4> QED
        BY <1>1, <4>1
    <3>2. CASE bulks = <<>>
      <4>1. u = v /\ Leads(bulks, FALSE, w, w)
        BY <1>1, <3>2, NothingLeads
      <4>2. Hop(u, m.part, w)
        BY <2>a, <4>1
      <4> QED
        BY <4>1, <4>2
    <3> QED
      BY <1>12, <3>1, <3>2
  <2>2. Leads(callbackQueue', FALSE, t, y)
    <3>1. Hop(u, Carried(m.part, FALSE), y)
      BY <2>1 DEF Carried
    <3>2. Leads(Append(callbackQueue, m.part), FALSE, t, y)
      BY <1>1, <1>2, <2>1, <2>a, <3>1, AppendLeads
    <3> QED
      BY <1>12, <3>2
  <2> QED
    BY <1>5, <1>8, <1>12, <2>1, <2>2
<1>13. trouble' # trouble + 1
  BY <1>2
<1> QED
  BY <1>4, <1>9, <1>11, <1>12, <1>13 DEF VchiqMessage, SendCallback

\* A transfer takes its part to the callbacks.
LEMMA TransferInOrder ==
  ASSUME Kept, InOrder, VchiqBulk, trouble' = trouble, UNCHANGED <<picturevars, cb>>,
         \A e \in Spots : GoesOn(e) => GoesOn(e)'
  PROVE  InOrder'
<1>1. PICK s, t, u, v, e \in Spots :
          /\ Painted(s) /\ Handed(s, t)
          /\ Leads(callbackQueue, FALSE, t, u) /\ Leads(bulks, FALSE, u, v)
          /\ Leads(toHost, TRUE, v, e) /\ GoesOn(e)
  BY DEF InOrder, PartsAt
<1>2. bulks \in Seq(HeldHeader) /\ callbackQueue \in Seq(HeldHeader) /\ trouble \in Nat
  BY MmalBoundsOK DEF Kept, Typed, WireTyped, PortTyped
<1>3. bulks # <<>> /\ bulks' = Tail(bulks) /\ toHost' = toHost
  BY DEF VchiqBulk
<1>4. PICK h \in HeldHeader : h = Head(bulks)
  BY <1>2, <1>3
<1>5. PICK w \in Spots : Hop(u, Carried(h, FALSE), w) /\ Leads(bulks', FALSE, w, v)
  BY <1>1, <1>2, <1>3, <1>4, TailLeads
<1>6. callbackQueue' = Append(callbackQueue, h)
  <2>1. trouble' # trouble + 1
    BY <1>2
  <2> QED
    BY <1>4, <2>1 DEF VchiqBulk, SendCallback
<1>7. Leads(Append(callbackQueue, h), FALSE, t, w)
  BY <1>1, <1>2, <1>5, AppendLeads
<1>8. Painted(s)'
  BY <1>1 DEF Painted, picturevars
<1>9. Handed(s, t)'
  BY <1>1, HandedStays
<1>10. /\ Leads(callbackQueue', FALSE, t, w) /\ Leads(bulks', FALSE, w, v)
       /\ Leads(toHost', TRUE, v, e) /\ GoesOn(e)'
  BY <1>1, <1>3, <1>5, <1>6, <1>7
<1>11. PartsAt(s, t, w, v, e)'
  BY <1>8, <1>9, <1>10 DEF PartsAt
<1> QED
  BY <1>11 DEF InOrder

\* VideoCore adds to the messages that come back.
LEMMA ServedInOrder ==
  ASSUME InOrder, UNCHANGED <<picturevars, cb, callbackQueue, bulks>>,
         \A v, e \in Spots : Leads(toHost, TRUE, v, e) /\ GoesOn(e)
             => \E f \in Spots : Leads(toHost', TRUE, v, f) /\ GoesOn(f)'
  PROVE  InOrder'
<1>1. PICK s, t, u, v, e \in Spots :
          /\ Painted(s) /\ Handed(s, t)
          /\ Leads(callbackQueue, FALSE, t, u) /\ Leads(bulks, FALSE, u, v)
          /\ Leads(toHost, TRUE, v, e) /\ GoesOn(e)
  BY DEF InOrder, PartsAt
<1>2. PICK f \in Spots : Leads(toHost', TRUE, v, f) /\ GoesOn(f)'
  BY <1>1
<1>3. Painted(s)'
  BY <1>1 DEF Painted, picturevars
<1>4. Handed(s, t)'
  BY <1>1, HandedStays
<1>5. Leads(callbackQueue', FALSE, t, u) /\ Leads(bulks', FALSE, u, v)
  BY <1>1
<1>6. PartsAt(s, t, u, v, f)'
  BY <1>2, <1>3, <1>4, <1>5 DEF PartsAt
<1> QED
  BY <1>6 DEF InOrder

LEMMA RepliesLead ==
  ASSUME Kept, VCReceives \/ VCDisables, NEW v \in Spots, NEW e \in Spots,
         Leads(toHost, TRUE, v, e)
  PROVE  Leads(toHost', TRUE, v, e)
<1>1. toHost \in Seq(HostMsgs) /\ vc.held \in Seq(Headers)
  BY DEF Kept, Typed, WireTyped
<1>2. \A status : Hop(e, Carried(ReplyMsg(status), TRUE), e)
  BY NoHeaderLeads DEF Carried, ReplyMsg
<1>3. \A b : Hop(e, Carried(PartMsg(Header(b, NoData, FALSE)), TRUE), e)
  BY DEF Carried, PartMsg, Header, Hop
<1>4. CASE VCReceives
  <2>1. ASSUME NEW status, toHost' = Append(toHost, ReplyMsg(status))
        PROVE  Leads(toHost', TRUE, v, e)
    <3>1. PICK m : m = ReplyMsg(status)
      OBVIOUS
    <3>2. toHost \in Seq(HostMsgs \cup {m}) /\ m \in HostMsgs \cup {m}
      BY <1>1, SeqMonotonic
    <3>3. Leads(Append(toHost, m), TRUE, v, e)
      BY <1>2, <3>1, <3>2, AppendLeads
    <3> QED
      BY <2>1, <3>1, <3>3
  <2>2. \/ toHost' = toHost \/ toHost' = Append(toHost, ReplyMsg("ok"))
        \/ toHost' = Append(toHost, ReplyMsg("failed"))
    BY <1>4 DEF VCReceives
  <2> QED
    BY <2>1, <2>2
<1>5. CASE VCDisables
  <2>1. PICK n \in Nat : n = Len(vc.held) /\ DOMAIN vc.held = 1 .. n
    BY <1>1
  <2>2. PICK p : p = [i \in DOMAIN vc.held |-> PartMsg(Header(vc.held[i], NoData, FALSE))]
    OBVIOUS
  <2>3. PICK T : T = {PartMsg(Header(b, NoData, FALSE)) : b \in Headers}
    OBVIOUS
  <2>4. p \in Seq(T) /\ Len(p) = n /\ \A i \in 1 .. n : Hop(e, Carried(p[i], TRUE), e)
    <3>1. p \in [1 .. n -> T]
      <4>1. \A i \in 1 .. n : vc.held[i] \in Headers
        BY <1>1, <2>1
      <4>2. \A i \in 1 .. n : PartMsg(Header(vc.held[i], NoData, FALSE)) \in T
        BY <2>3, <4>1
      <4> QED
        BY <2>1, <2>2, <4>2
    <3>2. \A i \in 1 .. n : p[i] = PartMsg(Header(vc.held[i], NoData, FALSE))
      BY <2>1, <2>2
    <3>3. p \in Seq(T) /\ Len(p) = n
      BY <3>1
    <3> QED
      BY <1>3, <3>2, <3>3
  <2>5. PICK m, r : m = ReplyMsg("ok") /\ r = <<m>>
    OBVIOUS
  <2>6. PICK U : U = HostMsgs \cup T \cup {m}
    OBVIOUS
  <2>7. toHost \in Seq(U) /\ p \in Seq(U) /\ m \in U
    BY <1>1, <2>4, <2>6, SeqMonotonic
  <2>8. r \in Seq(U) /\ Len(r) = 1 /\ r[1] = m
    BY <2>5, <2>7
  <2>9. Leads(toHost \o p, TRUE, v, e)
    BY <2>4, <2>7, ConcatLeads
  <2>10. toHost \o p \in Seq(U)
    BY <2>7, ConcatProperties
  <2>11. Hop(e, Carried(r[1], TRUE), e)
    BY <1>2, <2>5, <2>8
  <2>12. Leads((toHost \o p) \o r, TRUE, v, e)
    BY <2>8, <2>9, <2>10, <2>11, ConcatLeads
  <2>13. toHost' = (toHost \o p) \o r
    BY <1>5, <2>2, <2>5 DEF VCDisables
  <2> QED
    BY <2>12, <2>13
<1> QED
  BY <1>4, <1>5

\* As long as nothing has failed every step keeps the parts in order.
Orderly == trouble = 0 => InOrder

LEMMA InitOrderly ==
  ASSUME Init
  PROVE  InOrder
<1>a. PICK s : s = [frame |-> 0, part |-> 1]
  OBVIOUS
<1>1. s \in Spots /\ s.frame = 0 /\ s.part = 1
  BY <1>a DEF Spots
<1>b. /\ MmalInit /\ cb = [t \in Threads |-> NoCallback]
      /\ db = FALSE /\ buf = <<>> /\ offset = 0 /\ size = 0
  BY Zenon DEF Init
<1>2. Painted(s)
  <2>1. IsList(buf) /\ Len(buf) = 0
    BY <1>b DEF IsList
  <2> QED
    BY <1>1, <1>b, <2>1 DEF Painted
<1>3. Handed(s, s)
  BY <1>b DEF Handed, At, NoCallback
<1>4. /\ Leads(callbackQueue, FALSE, s, s) /\ Leads(bulks, FALSE, s, s)
      /\ Leads(toHost, TRUE, s, s)
  BY <1>1, <1>b, NothingLeads DEF MmalInit
<1>5. GoesOn(s)
  <2>1. DOMAIN toVC = {} /\ ~vc.disables /\ vc.frame = 0 /\ vc.part = 1
    BY <1>b DEF MmalInit
  <2> QED
    BY <1>1, <2>1 DEF GoesOn, NoDisable, Matches
<1>6. PartsAt(s, s, s, s, s)
  BY <1>2, <1>3, <1>4, <1>5, Zenon DEF PartsAt
<1> QED
  BY <1>1, <1>6 DEF InOrder

LEMMA OrderlyKeeps ==
  ASSUME ~Overtakes, Kept, Smooth, Orderly, [Next]_vars
  PROVE  Orderly'
<1>1. SUFFICES ASSUME trouble' = 0 PROVE InOrder'
  BY DEF Orderly
<1>2. trouble = 0 /\ Unrefused /\ Phase /\ Alone /\ InOrder
  BY <1>1, TroubleStays DEF Smooth, Orderly
<1>3. CASE Encoder
  <2>1. UNCHANGED <<picturevars, cb, callbackQueue, bulks>>
    BY <1>3 DEF Encoder, Encodes, rest, portvars
  <2>2. \A v, e \in Spots : Leads(toHost, TRUE, v, e) /\ GoesOn(e)
            => \E f \in Spots : Leads(toHost', TRUE, v, f) /\ GoesOn(f)'
    BY <1>2, <1>3, EncoderSteps
  <2> QED
    BY <1>2, <2>1, <2>2, ServedInOrder
<1>4. CASE ~Encoder
  <2>1. \A e \in Spots : GoesOn(e) => GoesOn(e)'
    BY <1>2, <1>4, VideoCoreSteps
  <2>2. CASE Server
    <3>1. UNCHANGED <<picturevars, cb, callbackQueue, bulks>>
      BY <2>2 DEF Server, VCReceives, VCDisables, rest, portvars
    <3>2. \A v, e \in Spots : Leads(toHost, TRUE, v, e) => Leads(toHost', TRUE, v, e)
      BY <2>2, RepliesLead DEF Server
    <3> QED
      BY <1>2, <2>1, <3>1, <3>2, ServedInOrder
  <2>3. CASE Vchiq
    <3>1. UNCHANGED <<picturevars, cb>> /\ trouble' = trouble
      BY <1>1, <1>2, <2>3 DEF Vchiq, rest
    <3> QED
      BY <1>2, <2>1, <2>3, <3>1, MessageInOrder, TransferInOrder DEF Vchiq
  <2>4. ASSUME UNCHANGED <<picturevars, callbackQueue, bulks, toHost>>,
               \A c \in Threads : At(c, "copy") \/ At(c, "copy")' => cb'[c] = cb[c]
        PROVE  InOrder'
    BY <1>2, <2>1, <2>4, NoPartMoves
  <2>5. ASSUME NEW c \in Threads, Callback(c) PROVE InOrder'
    <3>1. CASE CallbackBegins(c) /\ callbackQueue # <<>>
      BY <1>2, <2>1, <3>1, BeginsInOrder
    <3>2. CASE Copy(c)
      BY <1>2, <2>1, <3>2, CopiesInOrder
    <3>3. CASE ~Copy(c) /\ ~(CallbackBegins(c) /\ callbackQueue # <<>>)
      <4>1. UNCHANGED <<picturevars, callbackQueue, bulks, toHost>>
        BY <2>5, <3>3 DEF Callback, CallbackBegins, CallbackReleases, CallbackGets, CallbackPosts,
                          CallbackEnds, mmalvars, wirevars, portvars
      <4>2. ~At(c, "copy")
        BY <2>5, <3>3 DEF Callback, CallbackBegins, CallbackReleases, CallbackGets, CallbackPosts,
                          CallbackEnds, At, Threads
      <4>a. \/ \E w \in {"idle", "resend", "post", "done"} : Goes(c, w)
            \/ cb' = [cb EXCEPT ![c].at = "send", ![c].next = Head(pool)]
            \/ cb' = [cb EXCEPT ![c] = NoCallback]
        <5>1. CASE CallbackBegins(c)
          BY <3>3, <5>1 DEF CallbackBegins
        <5>2. CASE CallbackReleases(c) \/ CallbackPosts(c)
          BY <5>2 DEF CallbackReleases, CallbackPosts
        <5>3. CASE CallbackGets(c)
          BY <5>3 DEF CallbackGets
        <5>4. CASE CallbackEnds(c)
          BY <5>4 DEF CallbackEnds
        <5> QED
          BY <2>5, <3>3, <5>1, <5>2, <5>3, <5>4 DEF Callback
      <4>3. ~At(c, "copy")' /\ \A d \in Threads : d # c => cb'[d] = cb[d]
        BY <4>a DEF Kept, Typed, CallbackTyped, Goes, At, NoCallback
      <4> QED
        BY <2>4, <4>1, <4>2, <4>3
    <3> QED
      BY <3>1, <3>2, <3>3
  <2>6. CASE ActionWakes \/ CallbackSends
    <3>1. UNCHANGED <<picturevars, callbackQueue, bulks, toHost>>
      BY <2>6 DEF ActionWakes, CallbackSends, wirevars
    <3>2. /\ ~At("action", "copy") /\ ~At("action", "copy")'
          /\ cb'["worker"] = cb["worker"]
      BY <2>6 DEF ActionWakes, CallbackSends, Goes, At, Kept, Typed, CallbackTyped, Threads
    <3> QED
      BY <2>4, <3>1, <3>2 DEF Threads
  <2>7. CASE WorkerSteps \/ WorkerCalls \/ Stop \/ UNCHANGED vars
    <3>1. UNCHANGED <<picturevars, cb, callbackQueue, bulks, toHost>>
      <4>1. CASE WorkerReturns \/ WorkerSends \/ WorkerPort \/ WorkerLocks
        <5>1. UNCHANGED <<picturevars, cb, callbackQueue, bulks>>
          BY <4>1 DEF WorkerReturns, WorkerSends, WorkerPort, WorkerLocks, wirevars
        <5>2. UNCHANGED toHost
          BY <4>1 DEF WorkerReturns, WorkerSends, WorkerPort, WorkerLocks, wirevars
        <5> QED
          BY <5>1, <5>2
      <4>5. CASE WorkerPool
        BY <4>5 DEF WorkerPool, wirevars, portvars
      <4>2. CASE WorkerEnds \/ WorkerAwaits \/ WorkerDrained \/ WorkerCalls
        BY <4>2 DEF WorkerEnds, WorkerAwaits, WorkerDrained, WorkerCalls, SendWait, mmalvars,
                    wirevars, portvars
      <4>3. CASE WorkerChooses
        <5>1. UNCHANGED <<mmalvars, cb, picturevars>>
          BY <4>3, Zenon DEF WorkerChooses
        <5> QED
          BY <5>1 DEF mmalvars, wirevars, portvars
      <4>4. CASE Stop \/ UNCHANGED vars
        BY <4>4 DEF Stop, vars, mmalvars, wirevars, portvars
      <4> QED
        BY <2>7, <4>1, <4>2, <4>3, <4>4, <4>5 DEF WorkerSteps
    <3> QED
      BY <2>4, <3>1
  <2> QED
    BY <1>4, <2>2, <2>3, <2>5, <2>6, <2>7 DEF Next, Worker, Action, WorkerSteps, Threads
<1> QED
  BY <1>3, <1>4

LEMMA OrderWhole ==
  ASSUME Kept, Orderly
  PROVE  PictureWhole
<1>1. SUFFICES ASSUME ~db, trouble = 0
               PROVE  \A i \in 1 .. size : buf[i] = <<buf[1][1], i, i = size>>
  BY DEF PictureWhole
<1>2. PICK s : Painted(s)
  BY <1>1 DEF Orderly, InOrder, PartsAt
<1>3. offset = 0
  <2>1. offset \in Nat
    BY DEF Kept, Typed, WorkerTyped
  <2>2. ~(offset > 0)
    BY <1>1, <1>2 DEF Painted
  <2> QED
    BY <2>1, <2>2
<1> QED
  BY <1>2, <1>3 DEF Painted

\* Nothing fails, and VideoCore lets no short data overtake a transfer: what a
\* reader finds when db is free is one whole picture, its parts in order from
\* the first to the last.  The callbacks run in two threads, the parts come by
\* messages and by transfers, and the port is disabled in the middle of a
\* picture; the lock of the action thread and the order in which VideoCore
\* takes the call and the buffers keep the parts in order.
THEOREM PicturesAreWhole ==
  ASSUME ~Overtakes
  PROVE  Spec => []PictureWhole
<1>1. Init => Orderly
  BY InitOrderly DEF Orderly
<1>2. Kept /\ Smooth /\ Orderly /\ [Next]_vars => Orderly'
  BY OrderlyKeeps
<1>3. Kept /\ Orderly => PictureWhole
  BY OrderWhole
<1> QED
  BY <1>1, <1>2, <1>3, Invariant, SmoothAlways, PTL DEF Spec
=============================================================================
