--------------------------- MODULE OutputFileProofs ---------------------------
(* Proofs about OutputFile, for every size of the ring buffer, every frame  *)
(* size, every number of TAKE commands and any number of crashes.           *)
EXTENDS OutputFile, FiniteSetTheorems, WellFoundedInduction, TLAPS

Threads == Takers \cup {Worker}
Saving  == {"open", "writeLo", "writeHi", "unlink", "link", "scan", "trim"}
PC      == Saving \cup {"wait", "ended", "off"}
Buffer  == [alloc : Nat, room : Nat, at : Nat, lo : 0 .. MaxFrame,
            hi : 0 .. MaxFrame]
Names   == (0 .. MaxClock) \X (0 .. MaxFrame)

----------------------------------------------------------------------------
(* Types.  The counter needs no bound of its own: each picture is a frame   *)
(* that was published since the process started.                            *)

Typed ==
    /\ TypeOK
    /\ pc \in [Threads -> PC]
    /\ buf \in Buffer
    /\ name \in Names
    /\ IsFiniteSet(DOMAIN files)

Counted ==
    /\ held[Worker] <= latest
    /\ base + counter <= held[Worker]
    /\ pc[Worker] \in Saving => counter > 0
    /\ counter > 0 => name[2] + 1 = counter

\* The picture that is being saved is in the folder, under its name.
Opened ==
    pc[Worker] \in {"writeLo", "writeHi", "unlink", "link"} =>
        name \in DOMAIN files

Basic == Typed /\ Counted /\ Opened

----------------------------------------------------------------------------
(* Each name has an inode of its own, older than the frame that comes next. *)

Owned ==
    /\ \A a, b \in DOMAIN files : files[a] = files[b] => a = b
    /\ \A n \in DOMAIN files : files[n] \in 1 .. held[Worker]
    /\ link <= held[Worker]
    /\ \A i \in 0 .. MaxFrame : disk[i].no <= held[Worker]
    /\ disk[0] = NoFile
    /\ pc[Worker] = "open" =>
           /\ \A n \in DOMAIN files : files[n] < held[Worker]
           /\ link < held[Worker]
           /\ \A i \in 0 .. MaxFrame : disk[i].no < held[Worker]

\* The counter tells the pictures of this process apart.
Mine == \A n \in DOMAIN files :
            Taken(n) > base => /\ n[2] < counter
                               /\ pc[Worker] = "open" => n[2] < name[2]

----------------------------------------------------------------------------
(* As long as the clock names the pictures in their order, the order of the *)
(* names is that of the frames.                                             *)

Sorted == \A a, b \in DOMAIN files : Before(a, b) => Taken(a) < Taken(b)

Ordered ==
    timely =>
        /\ Sorted
        /\ counter > 0 => \A n \in DOMAIN files : n = name \/ Before(n, name)
        /\ pc[Worker] = "open" => \A n \in DOMAIN files : Before(n, name)
        /\ Writing => files[name] # link

----------------------------------------------------------------------------
(* The list of maintain_ringbuffer holds all but the RingSize last names.   *)

Rest == DOMAIN files \ victims

Listed ==
    /\ pc[Worker] = "trim" <=> victims # {}
    /\ victims # {} =>
           /\ Cardinality(Rest) >= RingSize
           /\ Cardinality(Rest \ spared) <= RingSize
           /\ \A v \in victims, m \in Rest \ spared : Before(v, m)

----------------------------------------------------------------------------
(* Without trouble the buffer is the worker's from the copy to the end of   *)
(* write: it holds the frame, and it does not move.                         *)

OwnBuffer ==
    /\ \A t \in Takers : pc[t] = "off"
    /\ pc[Worker] \in {"open", "writeLo", "writeHi"} =>
           buf.lo = held[Worker] /\ buf.hi = held[Worker]
    /\ Writing => ptr[Worker] = buf.at
    /\ pc[Worker] \in Saving \ {"open"} /\ name \in DOMAIN files =>
           Taken(name) = held[Worker]
    /\ pc[Worker] = "writeHi" => Picture(name).lo = held[Worker]

Clean == ~trouble => OwnBuffer

----------------------------------------------------------------------------
(* How far the folder is over its size: by the pictures taken since the     *)
(* last maintenance.                                                        *)

Kept == DOMAIN files \ spared

Over(k, extra) == Cardinality(Kept) <= RingSize + (k % (Exceed + 1)) + extra

Ring ==
    /\ pc[Worker] = "wait" /\ counter > 0 => Over(counter, 0)
    /\ pc[Worker] = "open" /\ counter > 1 => Over(counter - 1, 0)
    /\ pc[Worker] \in Saving \ {"open", "scan", "trim"} /\ counter > 1 =>
           Over(counter - 1, 1)

----------------------------------------------------------------------------
(* Lemmas about the operators of the model.                                 *)

LEMMA Bounds ==
  /\ MaxFrame \in Nat /\ MaxClock \in Nat /\ MaxTrouble \in 0 .. MaxFrame
  /\ RingSize \in Nat /\ Exceed \in Nat /\ Slack \in Nat
  /\ \A f \in 0 .. MaxFrame : Size[f] \in Nat
  /\ 0 \in 0 .. MaxFrame /\ 0 \in 0 .. MaxClock /\ Junk \in 0 .. Junk
  /\ 0 .. MaxFrame \subseteq 0 .. Junk
  /\ Worker \in Threads /\ Worker \notin Takers
BY RingIsNat, BoundsNat, SizeOK, NotATaker DEF Junk, Threads

LEMMA Gone ==
  ASSUME Typed, NEW t \in Threads, NEW l \in PC, Goto(t, l)
  PROVE  /\ pc' \in [Threads -> PC] /\ pc'[t] = l
         /\ \A u \in Threads \ {t} : pc'[u] = pc[u]
BY DEF Typed, Goto

\* The buffer after a frame was copied into it, and after realloc failed.
LEMMA Filled ==
  ASSUME Typed, NEW f \in 0 .. MaxFrame, Fill(f)
  PROVE  buf' \in Buffer /\ buf'.lo = f /\ buf'.hi = f
<1>1. buf \in Buffer /\ Size[f] + Slack \in Nat
  BY Bounds DEF Typed
<1>2. CASE TooSmall(f)
  <2>1. PICK moved \in {0, 1} :
            buf' = [alloc |-> Size[f] + Slack, room |-> Size[f] + Slack,
                    at |-> buf.at + moved, lo |-> f, hi |-> f]
    BY <1>2 DEF Fill
  <2>2. buf.at + moved \in Nat
    BY <1>1 DEF Buffer
  <2> QED
    BY <1>1, <2>1, <2>2 DEF Buffer
<1>3. CASE ~TooSmall(f)
  BY <1>1, <1>3 DEF Fill, Buffer
<1> QED
  BY <1>2, <1>3

LEMMA Refused ==
  ASSUME Typed, NEW f \in 0 .. MaxFrame, Refuse(f)
  PROVE  buf' \in Buffer
BY Bounds DEF Typed, Refuse, Buffer

\* What write reads is a frame, or junk.
LEMMA ReadType ==
  ASSUME Typed, NEW t
  PROVE  ReadLo(t) \in 0 .. Junk /\ ReadHi(t) \in 0 .. Junk
BY Bounds DEF Typed, ReadLo, ReadHi, Buffer

LEMMA FileType ==
  /\ NoFile \in Files
  /\ \A f \in 0 .. MaxFrame : Empty(f) \in Files
  /\ \A file \in Files, v \in 0 .. Junk :
         /\ [file EXCEPT !.lo = v] \in Files
         /\ [file EXCEPT !.hi = v] \in Files
BY Bounds DEF NoFile, Empty, Files

\* Names are totally ordered, and every set of names has a first one.
LEMMA TotalOrder ==
  ASSUME NEW a \in Nat \X Nat, NEW b \in Nat \X Nat
  PROVE  /\ Before(a, b) => ~Before(b, a)
         /\ a # b => Before(a, b) \/ Before(b, a)
         /\ ~Before(a, a)
<1>1. a = <<a[1], a[2]>> /\ b = <<b[1], b[2]>>
  OBVIOUS
<1>2. a[1] \in Nat /\ a[2] \in Nat /\ b[1] \in Nat /\ b[2] \in Nat
  OBVIOUS
<1>3. a # b => a[1] # b[1] \/ a[2] # b[2]
  BY <1>1
<1> QED
  BY <1>2, <1>3 DEF Before

LEMMA Transitive ==
  ASSUME NEW a \in Nat \X Nat, NEW b \in Nat \X Nat, NEW c \in Nat \X Nat,
         Before(a, b), Before(b, c)
  PROVE  Before(a, c)
<1>1. /\ a[1] \in Nat /\ a[2] \in Nat /\ b[1] \in Nat /\ b[2] \in Nat
      /\ c[1] \in Nat /\ c[2] \in Nat
  OBVIOUS
<1> QED
  BY <1>1 DEF Before

LEMMA FirstName ==
  ASSUME NEW S, S \subseteq Nat \X Nat, S # {}
  PROVE  \E n \in S : \A m \in S \ {n} : Before(n, m)
<1> DEFINE R == OpToRel(<, Nat)
           L == LexPairOrdering(R, R, Nat, Nat)
<1>1. IsWellFoundedOn(L, Nat \X Nat)
  BY NatLessThanWellFounded, WFLexPairOrdering
<1> HIDE DEF L
<1>2. PICK n \in S : \A m \in S : ~(<<m, n>> \in L)
  BY <1>1, WFMin
<1>3. ASSUME NEW m \in S \ {n}
      PROVE  Before(n, m)
  <2>1. m \in Nat \X Nat /\ n \in Nat \X Nat /\ m # n
    OBVIOUS
  <2>2. SUFFICES ASSUME Before(m, n) PROVE FALSE
    BY <2>1, TotalOrder
  <2>3. /\ m[1] \in Nat /\ m[2] \in Nat /\ n[1] \in Nat /\ n[2] \in Nat
    BY <2>1
  <2>4. m[1] < n[1] => <<m[1], n[1]>> \in R
    BY <2>3 DEF OpToRel
  <2>5. m[2] < n[2] => <<m[2], n[2]>> \in R
    BY <2>3 DEF OpToRel
  <2>6. \/ <<m[1], n[1]>> \in R
        \/ m[1] = n[1] /\ <<m[2], n[2]>> \in R
    BY <2>2, <2>4, <2>5 DEF Before
  <2> HIDE DEF R
  <2>7. <<m, n>> \in (Nat \X Nat) \X (Nat \X Nat)
    BY <2>1
  <2>8. <<m, n>> \in L
    BY <2>6, <2>7 DEF L, LexPairOrdering
  <2> QED
    BY <1>2, <2>8
<1> QED
  BY <1>3

LEMMA FirstOf ==
  ASSUME NEW S, S \subseteq Nat \X Nat, S # {}
  PROVE  First(S) \in S /\ \A m \in S \ {First(S)} : Before(First(S), m)
BY FirstName DEF First

LEMMA LaterSets ==
  ASSUME IsFiniteSet(DOMAIN files), NEW n \in DOMAIN files
  PROVE  /\ Later(n) \subseteq DOMAIN files
         /\ IsFiniteSet(Later(n)) /\ Cardinality(Later(n)) \in Nat
BY FS_Subset, FS_CardinalityType DEF Later

\* What the list leaves out: the RingSize names that come last, if there are
\* more of them, and each after all that are on the list.
LEMMA ExcessOldest ==
  ASSUME IsFiniteSet(DOMAIN files), DOMAIN files \subseteq Nat \X Nat
  PROVE  /\ Excess \subseteq DOMAIN files
         /\ \A v \in Excess, m \in DOMAIN files \ Excess : Before(v, m)
<1>1. ASSUME NEW v \in Excess, NEW m \in DOMAIN files \ Excess
      PROVE  Before(v, m)
  <2>1. v \in DOMAIN files /\ Cardinality(Later(v)) >= RingSize /\ v # m
    BY <1>1 DEF Excess
  <2>2. SUFFICES ASSUME Before(m, v) PROVE FALSE
    BY <1>1, <2>1, TotalOrder
  <2>3. Later(v) \subseteq Later(m)
    <3>1. SUFFICES ASSUME NEW k \in DOMAIN files, Before(v, k)
                   PROVE  Before(m, k)
      BY DEF Later
    <3> QED
      BY <1>1, <2>1, <2>2, <3>1, Transitive
  <2>4. Cardinality(Later(v)) <= Cardinality(Later(m))
    BY <1>1, <2>3, LaterSets, FS_Subset
  <2>5. Cardinality(Later(m)) >= RingSize
    BY <1>1, <2>1, <2>4, LaterSets, Bounds
  <2> QED
    BY <1>1, <2>5 DEF Excess
<1> QED
  BY <1>1 DEF Excess

LEMMA ExcessLeaves ==
  ASSUME IsFiniteSet(DOMAIN files), DOMAIN files \subseteq Nat \X Nat
  PROVE  Cardinality(DOMAIN files \ Excess) <= RingSize
<1> DEFINE K == DOMAIN files \ Excess
<1>1. K \subseteq DOMAIN files /\ K \subseteq Nat \X Nat /\ IsFiniteSet(K)
  BY FS_Subset
<1>2. CASE K = {}
  BY <1>2, FS_EmptySet, Bounds
<1>3. CASE K # {}
  <2>1. PICK k \in K : \A m \in K \ {k} : Before(k, m)
    BY <1>1, <1>3, FirstName
  <2>2. k \in DOMAIN files /\ ~(Cardinality(Later(k)) >= RingSize)
    BY <2>1 DEF Excess
  <2>3. K \ {k} \subseteq Later(k)
    BY <1>1, <2>1 DEF Later
  <2>4. IsFiniteSet(K \ {k}) /\ Cardinality(K \ {k}) = Cardinality(K) - 1
    BY <1>1, <2>1, FS_RemoveElement
  <2>5. Cardinality(K \ {k}) <= Cardinality(Later(k))
    BY <2>2, <2>3, LaterSets, FS_Subset
  <2>6. Cardinality(K) \in Nat /\ Cardinality(Later(k)) \in Nat
    BY <1>1, <2>2, LaterSets, FS_CardinalityType
  <2> HIDE DEF K
  <2>7. Cardinality(K) <= RingSize
    BY <2>2, <2>4, <2>5, <2>6, Bounds
  <2> QED
    BY <2>7 DEF K
<1> QED
  BY <1>2, <1>3

LEMMA LastName ==
  ASSUME NEW S, IsFiniteSet(DOMAIN files), DOMAIN files \subseteq Nat \X Nat,
         S \subseteq DOMAIN files, S # {}
  PROVE  \E n \in S : \A m \in S : ~Before(n, m)
<1> DEFINE T == {Cardinality(Later(n)) : n \in S}
<1>1. T \subseteq Nat /\ T # {}
  BY LaterSets
<1>2. PICK least \in T : \A i \in T : least <= i
  <2>1. PICK x \in T : \A i \in T : ~(<<i, x>> \in OpToRel(<, Nat))
    BY <1>1, NatLessThanWellFounded, WFMin
  <2> HIDE DEF T
  <2>2. x \in T /\ \A i \in T : ~(i < x)
    BY <1>1, <2>1 DEF OpToRel
  <2>3. x \in T /\ \A i \in T : x <= i
    BY <1>1, <2>2
  <2> QED
    BY <2>3
<1>3. PICK n \in S : least = Cardinality(Later(n))
  BY <1>2
<1>4. ASSUME NEW m \in S, Before(n, m)
      PROVE  FALSE
  <2>1. Later(m) \subseteq Later(n)
    <3>1. SUFFICES ASSUME NEW k \in DOMAIN files, Before(m, k)
                   PROVE  Before(n, k)
      BY DEF Later
    <3> QED
      BY <1>3, <1>4, <3>1, Transitive
  <2>2. m \in Later(n) /\ m \notin Later(m)
    BY <1>4, TotalOrder DEF Later
  <2>3. Cardinality(Later(m)) < Cardinality(Later(n))
    <3>1. Cardinality(Later(m)) <= Cardinality(Later(n))
      BY <1>3, <2>1, LaterSets, FS_Subset
    <3>2. Cardinality(Later(m)) # Cardinality(Later(n))
      BY <1>3, <2>1, <2>2, LaterSets, FS_Subset
    <3> QED
      BY <1>3, <3>1, <3>2, LaterSets
  <2>4. least <= Cardinality(Later(m))
    BY <1>2
  <2> QED
    BY <1>1, <1>3, <2>3, <2>4, LaterSets
<1> QED
  BY <1>3, <1>4

LEMMA ExcessEnough ==
  ASSUME IsFiniteSet(DOMAIN files), DOMAIN files \subseteq Nat \X Nat,
         Excess # {}
  PROVE  Cardinality(DOMAIN files \ Excess) >= RingSize
<1>1. PICK v \in Excess : \A m \in Excess : ~Before(v, m)
  BY LastName DEF Excess
<1>2. v \in DOMAIN files /\ Cardinality(Later(v)) >= RingSize
  BY DEF Excess
<1>3. Later(v) \subseteq DOMAIN files \ Excess /\ IsFiniteSet(DOMAIN files \ Excess)
  BY <1>1, FS_Subset DEF Later
<1>4. Cardinality(Later(v)) <= Cardinality(DOMAIN files \ Excess)
  BY <1>3, FS_Subset
<1> QED
  BY <1>2, <1>3, <1>4, LaterSets, FS_CardinalityType, Bounds

LEMMA NamesOfNat ==
  Names \subseteq Nat \X Nat
BY Bounds DEF Names

----------------------------------------------------------------------------
(* Basic is inductive.                                                      *)

LEMMA BasicInit == Init => Basic
<1> SUFFICES ASSUME Init PROVE Basic
  OBVIOUS
<1> USE Bounds DEF Init
<1>1. /\ latest = 0 /\ held = [r \in {Worker} |-> 0] /\ open = TRUE
  BY DEF Register!RegInit
<1>2. /\ DOMAIN files = {} /\ files \in [{} -> 0 .. MaxFrame]
      /\ IsFiniteSet({}) /\ disk \in [0 .. MaxFrame -> Files]
  BY FS_EmptySet, FileType
<1>3. buf \in Buffer /\ pc \in [Threads -> PC] /\ pc[Worker] = "wait"
  BY DEF Buffer, Threads, PC
<1>4. TypeOK
  BY <1>1, <1>2, <1>3, FileType DEF TypeOK, Buffer, Threads
<1>5. Typed
  BY <1>2, <1>3, <1>4 DEF Typed, Names
<1>6. Counted /\ Opened
  BY <1>1, <1>3 DEF Counted, Opened, Saving
<1> QED
  BY <1>5, <1>6 DEF Basic

\* A step of a TAKE command, as the rest of the plugin sees it.
Elsewhere == UNCHANGED <<regvars, base, clock, naming, folder>>

TakePC == {"off", "open", "writeLo", "writeHi"}

LEMMA TakerGone ==
  ASSUME Typed, NEW t \in Takers, NEW l \in TakePC, Goto(t, l)
  PROVE  /\ pc' \in [Threads -> PC] /\ pc'[Worker] = pc[Worker]
         /\ \A u \in Takers : pc'[u] \in TakePC
<1>1. t \in Threads /\ t # Worker /\ l \in PC
  BY Bounds DEF Threads, TakePC, PC, Saving
<1>2. /\ pc' \in [Threads -> PC] /\ pc'[t] = l
      /\ \A u \in Threads \ {t} : pc'[u] = pc[u]
  BY <1>1, Gone
<1> QED
  BY <1>1, <1>2, Bounds DEF Typed, TypeOK, Threads, TakePC

LEMMA TakeStep ==
  ASSUME Basic, NEW t \in Takers, Take(t)
  PROVE  /\ Elsewhere
         /\ buf' \in Buffer
         /\ pc' \in [Threads -> PC] /\ pc'[Worker] = pc[Worker]
         /\ \A u \in Takers : pc'[u] \in TakePC
         /\ ptr' \in [Threads -> Nat]
         /\ shot' \in [Takers -> Files]
<1> USE Bounds DEF Basic, Typed
<1>1. /\ InBuffer \in 0 .. MaxFrame /\ t \in Threads /\ t # Worker
      /\ buf.at \in Nat /\ buf \in Buffer
  BY DEF TypeOK, InBuffer, Threads, Buffer
<1>2. /\ shot \in [Takers -> Files] /\ ptr \in [Threads -> Nat]
      /\ \A u \in Takers : pc[u] \in {"off", "open", "writeLo", "writeHi"}
  BY DEF TypeOK, Threads, TakePC
<1>3. ReadLo(t) \in 0 .. Junk /\ ReadHi(t) \in 0 .. Junk
  BY ReadType
<1>4. CASE TakeCopy(t)
  <2>1. buf' \in Buffer
    BY <1>1, <1>4, Filled DEF TakeCopy
  <2> QED
    BY <1>1, <1>2, <1>4, <2>1, TakerGone, FileType DEF TakeCopy, Elsewhere, TakePC
<1>5. CASE TakeCopyFails(t)
  <2>1. buf' \in Buffer
    BY <1>1, <1>5, Refused DEF TakeCopyFails
  <2> QED
    BY <1>1, <1>2, <1>5, <2>1 DEF TakeCopyFails, Elsewhere, TakePC
<1>6. CASE TakeOpen(t)
  BY <1>1, <1>2, <1>6, TakerGone DEF TakeOpen, Elsewhere, TakePC
<1>7. CASE TakeWriteLo(t)
  <2>1. shot' \in [Takers -> Files]
    BY <1>2, <1>3, <1>7, FileType DEF TakeWriteLo
  <2> QED
    BY <1>1, <1>2, <1>7, <2>1, TakerGone DEF TakeWriteLo, Elsewhere, TakePC
<1>8. CASE TakeWriteHi(t)
  <2>1. shot' \in [Takers -> Files]
    BY <1>2, <1>3, <1>8, FileType DEF TakeWriteHi
  <2> QED
    BY <1>1, <1>2, <1>8, <2>1, TakerGone DEF TakeWriteHi, Elsewhere, TakePC
<1>9. CASE TakeFails(t)
  BY <1>1, <1>2, <1>9, TakerGone DEF TakeFails, Elsewhere, TakePC
<1> QED
  BY <1>4, <1>5, <1>6, <1>7, <1>8, <1>9 DEF Take

LEMMA BasicStep == Basic /\ [Next]_vars => Basic'
<1> SUFFICES ASSUME Basic, [Next]_vars PROVE Basic'
  OBVIOUS
<1> USE Bounds DEF Basic, Typed, regvars, naming, folder
<1>0. /\ Worker \in Threads /\ pc[Worker] \in PC \ {"off"}
      /\ \A t \in Takers : t \in Threads /\ t # Worker
      /\ buf.at \in Nat /\ held[Worker] \in 0 .. MaxFrame
      /\ latest \in 0 .. MaxFrame /\ base \in 0 .. MaxFrame
      /\ counter \in 0 .. MaxFrame /\ held \in [{Worker} -> 0 .. MaxFrame]
      /\ clock \in 0 .. MaxClock
      /\ {"wait", "ended"} \cup Saving \subseteq PC
      /\ pc[Worker] \in {"writeLo", "writeHi", "unlink", "link"} =>
             /\ name \in DOMAIN files /\ files[name] \in 0 .. MaxFrame
             /\ Picture(name) \in Files /\ pc[Worker] \in Saving
  BY DEF TypeOK, PC, Saving, Threads, Buffer, Opened, Picture
<1>1. CASE CamPublish /\ UNCHANGED trouble
  <2>1. latest' \in 0 .. MaxFrame /\ latest' = latest + 1
        /\ UNCHANGED <<held, open>>
    BY <1>0, <1>1 DEF CamPublish, Register!Publish
  <2>2. TypeOK'
    BY <1>1, <2>1 DEF CamPublish, TypeOK
  <2>3. Typed'
    BY <1>1, <2>2 DEF CamPublish
  <2>4. Counted' /\ Opened'
    BY <1>0, <1>1, <2>1 DEF CamPublish, Counted, Opened, TypeOK
  <2> QED
    BY <2>3, <2>4
<1>2. CASE Tick /\ UNCHANGED trouble
  <2>1. TypeOK'
    BY <1>2 DEF Tick, TypeOK
  <2>2. Typed' /\ Counted' /\ Opened'
    BY <1>2, <2>1 DEF Tick, Counted, Opened
  <2> QED
    BY <2>2
<1>3. CASE Grab /\ UNCHANGED trouble
  <2>1. /\ UNCHANGED <<latest, open, trouble>>
        /\ held' = [held EXCEPT ![Worker] = latest] /\ latest > held[Worker]
    BY <1>3 DEF Grab, Register!Read
  <2>2. buf' \in Buffer
    BY <1>3, Filled DEF Grab, TypeOK
  <2>3. pc' \in [Threads -> PC] /\ pc'[Worker] = "open"
        /\ \A t \in Takers : pc'[t] = pc[t]
    BY <1>0, <1>3, Gone DEF Grab, PC, Saving
  <2>4. held' \in [{Worker} -> 0 .. MaxFrame] /\ held'[Worker] = latest
    BY <1>0, <2>1
  <2>5. counter' \in 0 .. MaxFrame /\ counter' = counter + 1
        /\ base + counter' <= latest
    BY <1>0, <1>3, <2>1, <2>4 DEF Grab, Counted
  <2>6. TypeOK'
    <3>1. buf' \in [alloc : Nat, room : Nat, at : Nat, lo : Nat, hi : Nat]
      BY <2>2 DEF Buffer
    <3>2. timely' \in BOOLEAN
      BY <1>3 DEF Grab
    <3> QED
      BY <1>3, <2>1, <2>3, <2>4, <2>5, <3>1, <3>2 DEF Grab, TypeOK
  <2>7. name' \in Names /\ name'[2] + 1 = counter'
    BY <1>0, <1>3, <2>5 DEF Grab, Names
  <2>8. Typed'
    BY <1>3, <2>2, <2>3, <2>6, <2>7 DEF Grab
  <2>9. Counted' /\ Opened'
    BY <1>0, <1>3, <2>1, <2>3, <2>4, <2>5, <2>7 DEF Grab, Counted, Opened
  <2> QED
    BY <2>8, <2>9
<1>4. CASE GrabFails /\ UNCHANGED trouble
  <2>1. /\ UNCHANGED <<latest, open, trouble>>
        /\ held' = [held EXCEPT ![Worker] = latest] /\ latest > held[Worker]
    BY <1>4 DEF GrabFails, Register!Read
  <2>2. buf' \in Buffer
    BY <1>4, Refused DEF GrabFails, TypeOK
  <2>3. pc' \in [Threads -> PC] /\ pc'[Worker] = "ended"
        /\ \A t \in Takers : pc'[t] = pc[t]
    BY <1>0, <1>4, Gone DEF GrabFails, PC, Saving
  <2>4. held' \in [{Worker} -> 0 .. MaxFrame] /\ held'[Worker] = latest
    BY <2>1 DEF TypeOK
  <2>5. TypeOK'
    <3>1. buf' \in [alloc : Nat, room : Nat, at : Nat, lo : Nat, hi : Nat]
      BY <2>2 DEF Buffer
    <3> QED
      BY <1>4, <2>1, <2>3, <2>4, <3>1 DEF GrabFails, TypeOK
  <2>6. Typed'
    BY <1>4, <2>2, <2>3, <2>5 DEF GrabFails
  <2>7. Counted' /\ Opened'
    BY <1>0, <1>4, <2>1, <2>3, <2>4 DEF GrabFails, Counted, Opened, Saving
  <2> QED
    BY <2>6, <2>7
<1>5. CASE Open /\ UNCHANGED trouble
  <2>1. /\ pc' \in [Threads -> PC] /\ pc'[Worker] = "writeLo"
        /\ \A t \in Takers : pc'[t] = pc[t]
    BY <1>0, <1>5, Gone DEF Open, PC, Saving
  <2>2. PICK inode \in 0 .. MaxFrame :
            /\ files' = [n \in DOMAIN files \cup {name} |->
                             IF n = name THEN inode ELSE files[n]]
            /\ disk' = [disk EXCEPT ![inode] = Empty(held[Worker])]
    BY <1>0, <1>5 DEF Open, TypeOK
  <2>3. /\ DOMAIN files' = DOMAIN files \cup {name}
        /\ IsFiniteSet(DOMAIN files')
    BY <2>2, FS_AddElement
  <2>4. /\ DOMAIN files' \subseteq Names
        /\ files' \in [DOMAIN files' -> 0 .. MaxFrame]
        /\ disk' \in [0 .. MaxFrame -> Files]
        /\ victims' \subseteq DOMAIN files'
    <3>1. Empty(held[Worker]) \in Files
      BY <1>0, FileType
    <3>2. disk' \in [0 .. MaxFrame -> Files]
      BY <2>2, <3>1 DEF TypeOK
    <3>3. files' \in [DOMAIN files' -> 0 .. MaxFrame]
      BY <2>2 DEF TypeOK
    <3>4. victims' \subseteq DOMAIN files' /\ DOMAIN files' \subseteq Names
      BY <1>5, <2>3 DEF Open, TypeOK, Names
    <3> QED
      BY <3>2, <3>3, <3>4
  <2>5. ptr' \in [Threads -> Nat]
    BY <1>0, <1>5 DEF Open, TypeOK, Threads
  <2>6. TypeOK'
    BY <1>5, <2>1, <2>4, <2>5 DEF Open, TypeOK, Names, Threads
  <2>7. Typed'
    BY <1>5, <2>1, <2>3, <2>6 DEF Open
  <2>8. Counted' /\ Opened'
    BY <1>5, <2>1, <2>3 DEF Open, Counted, Opened, Saving
  <2> QED
    BY <2>7, <2>8
<1>6. CASE WriteLo /\ UNCHANGED trouble
  <2>1. /\ pc' \in [Threads -> PC] /\ pc'[Worker] = "writeHi"
        /\ \A t \in Takers : pc'[t] = pc[t]
    BY <1>0, <1>6, Gone DEF WriteLo, PC, Saving
  <2>2. [Picture(name) EXCEPT !.lo = ReadLo(Worker)] \in Files
    BY <1>0, <1>6, FileType, ReadType DEF WriteLo
  <2>3. disk' \in [0 .. MaxFrame -> Files] /\ files' = files
    BY <1>0, <1>6, <2>2 DEF WriteLo, TypeOK, Picture
  <2>4. TypeOK'
    BY <1>6, <2>1, <2>3 DEF WriteLo, TypeOK
  <2>5. Typed'
    BY <1>6, <2>1, <2>3, <2>4 DEF WriteLo
  <2>6. Counted' /\ Opened'
    BY <1>0, <1>6, <2>1, <2>3 DEF WriteLo, Counted, Opened, Saving
  <2> QED
    BY <2>5, <2>6
<1>7. CASE WriteHi /\ UNCHANGED trouble
  <2>1. /\ pc' \in [Threads -> PC] /\ pc'[Worker] = "unlink"
        /\ \A t \in Takers : pc'[t] = pc[t]
    BY <1>0, <1>7, Gone DEF WriteHi, PC, Saving
  <2>2. [Picture(name) EXCEPT !.hi = ReadHi(Worker)] \in Files
    BY <1>0, <1>7, FileType, ReadType DEF WriteHi
  <2>3. disk' \in [0 .. MaxFrame -> Files] /\ files' = files
    BY <1>0, <1>7, <2>2 DEF WriteHi, TypeOK, Picture
  <2>4. TypeOK'
    BY <1>7, <2>1, <2>3 DEF WriteHi, TypeOK
  <2>5. Typed'
    BY <1>7, <2>1, <2>3, <2>4 DEF WriteHi
  <2>6. Counted' /\ Opened'
    BY <1>0, <1>7, <2>1, <2>3 DEF WriteHi, Counted, Opened, Saving
  <2> QED
    BY <2>5, <2>6
<1>8. CASE WriteShort /\ UNCHANGED trouble
  <2>1. /\ pc' \in [Threads -> PC] /\ pc'[Worker] = "unlink"
        /\ \A t \in Takers : pc'[t] = pc[t]
    BY <1>0, <1>8, Gone DEF WriteShort, PC, Saving
  <2>2. TypeOK'
    BY <1>8, <2>1 DEF WriteShort, TypeOK
  <2>3. Typed' /\ Counted' /\ Opened'
    BY <1>0, <1>8, <2>1, <2>2 DEF WriteShort, Counted, Opened, Saving
  <2> QED
    BY <2>3
<1>9. CASE WriteFails /\ UNCHANGED trouble
  <2>1. /\ pc' \in [Threads -> PC] /\ pc'[Worker] = "ended"
        /\ \A t \in Takers : pc'[t] = pc[t]
    BY <1>0, <1>9, Gone DEF WriteFails, PC, Saving
  <2>2. TypeOK'
    BY <1>9, <2>1 DEF WriteFails, TypeOK
  <2>3. Typed' /\ Counted' /\ Opened'
    BY <1>0, <1>9, <2>1, <2>2 DEF WriteFails, Counted, Opened, Saving
  <2> QED
    BY <2>3
<1>10. CASE Unlink /\ UNCHANGED trouble
  <2>1. /\ pc' \in [Threads -> PC] /\ pc'[Worker] = "link"
        /\ \A t \in Takers : pc'[t] = pc[t]
    BY <1>0, <1>10, Gone DEF Unlink, PC, Saving
  <2>2. TypeOK'
    BY <1>10, <2>1 DEF Unlink, TypeOK
  <2>3. Typed' /\ Counted' /\ Opened'
    BY <1>0, <1>10, <2>1, <2>2 DEF Unlink, Counted, Opened, Saving
  <2> QED
    BY <2>3
<1>11. CASE Link /\ UNCHANGED trouble
  <2>1. /\ pc' \in [Threads -> PC] /\ pc'[Worker] \in {"scan", "wait"}
        /\ \A t \in Takers : pc'[t] = pc[t]
    BY <1>0, <1>11, Gone DEF Link, PC, Saving
  <2>2. TypeOK'
    BY <1>0, <1>11, <2>1 DEF Link, TypeOK
  <2>3. Typed' /\ Counted' /\ Opened'
    BY <1>0, <1>11, <2>1, <2>2 DEF Link, Counted, Opened, Saving
  <2> QED
    BY <2>3
<1>12. CASE Scan /\ UNCHANGED trouble
  <2>1. /\ pc' \in [Threads -> PC] /\ pc'[Worker] \in {"trim", "wait"}
        /\ \A t \in Takers : pc'[t] = pc[t]
    BY <1>0, <1>12, Gone DEF Scan, PC, Saving
  <2>2. victims' \subseteq DOMAIN files
    BY <1>12 DEF Scan, Excess
  <2>3. TypeOK'
    BY <1>12, <2>1, <2>2 DEF Scan, TypeOK
  <2>4. Typed' /\ Counted' /\ Opened'
    BY <1>0, <1>12, <2>1, <2>3 DEF Scan, Counted, Opened, Saving
  <2> QED
    BY <2>4
<1>16. CASE ScanFails /\ UNCHANGED trouble
  <2>1. /\ pc' \in [Threads -> PC] /\ pc'[Worker] = "wait"
        /\ \A t \in Takers : pc'[t] = pc[t]
    BY <1>0, <1>16, Gone DEF ScanFails, PC, Saving
  <2>2. TypeOK'
    BY <1>16, <2>1 DEF ScanFails, TypeOK
  <2>3. Typed' /\ Counted' /\ Opened'
    BY <1>0, <1>16, <2>1, <2>2 DEF ScanFails, Counted, Opened, Saving
  <2> QED
    BY <2>3
<1>17. CASE Trim /\ UNCHANGED trouble
  <2>1. /\ pc' \in [Threads -> PC] /\ pc'[Worker] \in {"trim", "wait"}
        /\ \A t \in Takers : pc'[t] = pc[t]
    BY <1>0, <1>17, Gone DEF Trim, PC, Saving
  <2>2. /\ DOMAIN files' = DOMAIN files \ {First(victims)}
        /\ files' \in [DOMAIN files' -> 0 .. MaxFrame]
        /\ victims' \subseteq DOMAIN files'
    BY <1>17 DEF Trim, TypeOK
  <2>3. IsFiniteSet(DOMAIN files')
    BY <2>2, FS_RemoveElement
  <2>4. TypeOK'
    BY <1>17, <2>1, <2>2 DEF Trim, TypeOK
  <2>5. Typed' /\ Counted' /\ Opened'
    BY <1>0, <1>17, <2>1, <2>3, <2>4 DEF Trim, Counted, Opened, Saving
  <2> QED
    BY <2>5
<1>18. CASE TrimFails /\ UNCHANGED trouble
  <2>1. /\ pc' \in [Threads -> PC] /\ pc'[Worker] \in {"trim", "wait"}
        /\ \A t \in Takers : pc'[t] = pc[t]
    BY <1>0, <1>18, Gone DEF TrimFails, PC, Saving
  <2>2. TypeOK'
    BY <1>18, <2>1 DEF TrimFails, TypeOK
  <2>3. Typed' /\ Counted' /\ Opened'
    BY <1>0, <1>18, <2>1, <2>2 DEF TrimFails, Counted, Opened, Saving
  <2> QED
    BY <2>3
<1>13. CASE Restart /\ UNCHANGED trouble
  <2>1. /\ pc' \in [Threads -> PC] /\ pc'[Worker] = "wait"
        /\ \A t \in Takers : pc'[t] = "off"
    BY <1>0, <1>13 DEF Restart, PC, Threads
  <2>2. /\ held' \in [{Worker} -> 0 .. MaxFrame] /\ held'[Worker] = latest
        /\ buf' \in Buffer /\ name' \in Names /\ ptr' \in [Threads -> Nat]
    BY <1>13 DEF Restart, TypeOK, Buffer, Names, Threads
  <2>3. TypeOK'
    BY <1>13, <2>1, <2>2 DEF Restart, TypeOK, Buffer, Threads
  <2>4. Typed'
    BY <1>13, <2>1, <2>2, <2>3 DEF Restart
  <2>5. Counted' /\ Opened'
    BY <1>0, <1>13, <2>1, <2>2 DEF Restart, Counted, Opened, Saving
  <2> QED
    BY <2>4, <2>5
<1>14. ASSUME NEW t \in Takers, Take(t), UNCHANGED trouble
       PROVE  Basic'
  <2>1. /\ Elsewhere /\ buf' \in Buffer
        /\ pc' \in [Threads -> PC] /\ pc'[Worker] = pc[Worker]
        /\ \A u \in Takers : pc'[u] \in TakePC
        /\ ptr' \in [Threads -> Nat]
        /\ shot' \in [Takers -> Files]
    BY <1>14, TakeStep
  <2>2. TypeOK'
    <3>1. buf' \in [alloc : Nat, room : Nat, at : Nat, lo : Nat, hi : Nat]
      BY <2>1 DEF Buffer
    <3> QED
      BY <1>14, <2>1, <3>1 DEF Elsewhere, TypeOK, TakePC, Threads
  <2>3. Typed' /\ Counted' /\ Opened'
    BY <2>1, <2>2 DEF Elsewhere, Counted, Opened
  <2> QED
    BY <2>3
<1>15. CASE UNCHANGED vars
  <2>1. TypeOK'
    BY <1>15 DEF TypeOK, vars
  <2>2. Typed' /\ Counted' /\ Opened'
    BY <1>15, <2>1 DEF Counted, Opened, vars
  <2> QED
    BY <2>2
<1> QED
  BY <1>1, <1>2, <1>3, <1>4, <1>5, <1>6, <1>7, <1>8, <1>9, <1>10, <1>11,
     <1>12, <1>13, <1>14, <1>15, <1>16, <1>17, <1>18 DEF Next, WorkerNext
----------------------------------------------------------------------------
(* The inodes, the counter and the order of the folder.                     *)

\* What the proofs need of the types.
LEMMA Numbers ==
  ASSUME Basic
  PROVE  /\ DOMAIN files \subseteq Nat \X Nat /\ name \in Nat \X Nat
         /\ clock \in Nat /\ counter \in Nat
         /\ held[Worker] \in 0 .. MaxFrame /\ held[Worker] \in Nat
         /\ latest \in Nat /\ base \in Nat /\ link \in Nat
         /\ held[Worker] <= latest /\ base + counter <= held[Worker]
         /\ files \in [DOMAIN files -> 0 .. MaxFrame]
         /\ disk \in [0 .. MaxFrame -> Files]
         /\ \A i \in 0 .. MaxFrame : disk[i].no \in Nat
         /\ \A n \in DOMAIN files : Taken(n) \in Nat
         /\ pc \in [Threads -> PC] /\ Worker \in Threads
         /\ held \in [{Worker} -> 0 .. MaxFrame]
<1>1. DOMAIN files \subseteq Names /\ name \in Names
  BY DEF Basic, Typed, TypeOK, Names
<1>2. /\ clock \in 0 .. MaxClock /\ counter \in 0 .. MaxFrame
      /\ held[Worker] \in 0 .. MaxFrame /\ latest \in 0 .. MaxFrame
      /\ base \in 0 .. MaxFrame /\ link \in 0 .. MaxFrame
      /\ files \in [DOMAIN files -> 0 .. MaxFrame]
      /\ disk \in [0 .. MaxFrame -> Files]
      /\ pc \in [Threads -> PC] /\ Worker \in Threads
      /\ held \in [{Worker} -> 0 .. MaxFrame]
  BY Bounds DEF Basic, Typed, TypeOK
<1>3. \A i \in 0 .. MaxFrame : disk[i].no \in 0 .. MaxFrame
  BY <1>2 DEF Files
<1>4. \A n \in DOMAIN files : Taken(n) \in 0 .. MaxFrame
  BY <1>2, <1>3 DEF Taken, Picture
<1>5. held[Worker] <= latest /\ base + counter <= held[Worker]
  BY DEF Basic, Counted
<1>6. DOMAIN files \subseteq Nat \X Nat /\ name \in Nat \X Nat
  BY <1>1, NamesOfNat
<1>7. /\ clock \in Nat /\ counter \in Nat /\ held[Worker] \in Nat
      /\ latest \in Nat /\ base \in Nat /\ link \in Nat
  BY <1>2, Bounds
<1>8. /\ \A i \in 0 .. MaxFrame : disk[i].no \in Nat
      /\ \A n \in DOMAIN files : Taken(n) \in Nat
  BY <1>3, <1>4, Bounds
<1> QED
  BY <1>2, <1>5, <1>6, <1>7, <1>8

\* A step that names no picture and creates none.
Quiet ==
    /\ DOMAIN files' \subseteq DOMAIN files
    /\ \A n \in DOMAIN files' : files'[n] = files[n]
    /\ \A i \in 0 .. MaxFrame : disk'[i].no = disk[i].no
    /\ disk'[0] = disk[0]
    /\ \/ link' \in {link, 0}
       \/ pc[Worker] = "link" /\ name \in DOMAIN files /\ link' = files[name]
    /\ held' = held
    /\ UNCHANGED <<base, naming>>
    /\ pc'[Worker] = "open" => pc[Worker] = "open" /\ link' = link
    /\ Writing' => Writing /\ link' = link

LEMMA StepKinds ==
  ASSUME Basic, Owned, [Next]_vars
  PROVE  Quiet \/ Grab \/ GrabFails \/ Open \/ Restart
<1> USE DEF regvars, naming, folder, Quiet, Writing
<1>0. /\ pc \in [Threads -> PC] /\ Worker \in Threads
      /\ files \in [DOMAIN files -> 0 .. MaxFrame]
      /\ disk \in [0 .. MaxFrame -> Files]
      /\ 0 \in 0 .. MaxFrame
  BY Numbers, Bounds
<1>1. CASE CamPublish \/ Tick
  BY <1>1 DEF CamPublish, Tick, Register!Publish
<1>2. ASSUME Writing
      PROVE  name \in DOMAIN files /\ files[name] \in 0 .. MaxFrame
             /\ files[name] # 0 /\ disk[files[name]] \in Files
  BY <1>0, <1>2, Numbers DEF Basic, Opened, Owned
<1>3. CASE WriteLo
  <2>1. /\ pc[Worker] = "writeLo" /\ pc'[Worker] = "writeHi"
        /\ UNCHANGED <<files, link, held, base, naming>>
        /\ disk' = [disk EXCEPT ![files[name]].lo = ReadLo(Worker)]
    BY <1>0, <1>3 DEF WriteLo, Goto
  <2>2. \A i \in 0 .. MaxFrame : disk'[i].no = disk[i].no
    BY <1>0, <1>2, <2>1 DEF Files
  <2>3. disk'[0] = disk[0]
    BY <1>0, <1>2, <2>1
  <2> QED
    BY <2>1, <2>2, <2>3
<1>4. CASE WriteHi
  <2>1. /\ pc[Worker] = "writeHi" /\ pc'[Worker] = "unlink"
        /\ UNCHANGED <<files, link, held, base, naming>>
        /\ disk' = [disk EXCEPT ![files[name]].hi = ReadHi(Worker)]
    BY <1>0, <1>4 DEF WriteHi, Goto
  <2>2. \A i \in 0 .. MaxFrame : disk'[i].no = disk[i].no
    BY <1>0, <1>2, <2>1 DEF Files
  <2>3. disk'[0] = disk[0]
    BY <1>0, <1>2, <2>1
  <2> QED
    BY <2>1, <2>2, <2>3
<1>5. CASE WriteShort \/ WriteFails
  <2>1. /\ pc'[Worker] \in {"unlink", "ended"}
        /\ UNCHANGED <<files, disk, link, held, base, naming>>
    BY <1>0, <1>5 DEF WriteShort, WriteFails, Goto
  <2> QED
    BY <2>1
<1>6. CASE Unlink
  <2>1. /\ pc'[Worker] = "link" /\ link' \in {link, 0}
        /\ UNCHANGED <<files, disk, held, base, naming>>
    BY <1>0, <1>6 DEF Unlink, Goto
  <2> QED
    BY <2>1
<1>7. CASE Link
  <2>1. /\ pc'[Worker] \in {"scan", "wait"}
        /\ link' = link \/ (pc[Worker] = "link" /\ link' = files[name])
        /\ pc[Worker] = "link"
        /\ UNCHANGED <<files, disk, held, base, naming>>
    BY <1>0, <1>7 DEF Link, Goto
  <2>2. name \in DOMAIN files
    BY <2>1 DEF Basic, Opened
  <2> QED
    BY <2>1, <2>2
<1>8. CASE Scan \/ ScanFails \/ TrimFails
  <2>1. /\ pc'[Worker] \in {"trim", "wait"}
        /\ UNCHANGED <<files, disk, link, held, base, naming>>
    BY <1>0, <1>8 DEF Scan, ScanFails, TrimFails, Goto
  <2> QED
    BY <2>1
<1>9. CASE Trim
  <2>1. /\ pc'[Worker] \in {"trim", "wait"}
        /\ UNCHANGED <<disk, link, held, base, naming>>
        /\ DOMAIN files' \subseteq DOMAIN files
        /\ \A n \in DOMAIN files' : files'[n] = files[n]
    BY <1>0, <1>9 DEF Trim, Goto
  <2> QED
    BY <2>1
<1>10. ASSUME NEW t \in Takers, Take(t)
       PROVE  Quiet
  BY <1>10, TakeStep DEF Elsewhere
<1>11. CASE UNCHANGED vars
  BY <1>11 DEF vars
<1> QED
  BY <1>1, <1>3, <1>4, <1>5, <1>6, <1>7, <1>8, <1>9, <1>10, <1>11
     DEF Next, WorkerNext

\* What Open does to the folder.
LEMMA Opens ==
  ASSUME Basic, Owned, Open
  PROVE  /\ pc[Worker] = "open" /\ pc'[Worker] = "writeLo"
         /\ UNCHANGED <<base, held, name, counter, timely, link>>
         /\ DOMAIN files' = DOMAIN files \cup {name}
         /\ \A n \in DOMAIN files \ {name} :
                files'[n] = files[n] /\ disk'[files[n]] = disk[files[n]]
         /\ files'[name] = IF name \in DOMAIN files THEN files[name]
                                                    ELSE held[Worker]
         /\ files'[name] \in 1 .. held[Worker]
         /\ \A n \in DOMAIN files \ {name} : files'[name] # files[n]
         /\ disk' = [disk EXCEPT ![files'[name]] = Empty(held[Worker])]
         /\ Picture(name)' = Empty(held[Worker])
         /\ held[Worker] > base
<1>0. /\ pc \in [Threads -> PC] /\ Worker \in Threads
      /\ files \in [DOMAIN files -> 0 .. MaxFrame]
      /\ disk \in [0 .. MaxFrame -> Files]
      /\ held[Worker] \in 0 .. MaxFrame /\ held[Worker] \in Nat
      /\ base \in Nat /\ counter \in Nat /\ base + counter <= held[Worker]
  BY Numbers
<1>1. PICK inode : /\ inode = (IF name \in DOMAIN files THEN files[name]
                                                        ELSE held[Worker])
                   /\ files' = [n \in DOMAIN files \cup {name} |->
                                    IF n = name THEN inode ELSE files[n]]
                   /\ disk' = [disk EXCEPT ![inode] = Empty(held[Worker])]
  BY DEF Open
<1>2. /\ pc[Worker] = "open" /\ pc'[Worker] = "writeLo" /\ counter > 0
      /\ UNCHANGED <<base, held, name, counter, timely, link>>
  BY <1>0 DEF Open, Goto, regvars, naming, Basic, Counted, Saving
<1>3. held[Worker] > 0 /\ held[Worker] > base
  BY <1>0, <1>2
<1>4. inode \in 1 .. held[Worker] /\ inode \in 0 .. MaxFrame
  BY <1>0, <1>1, <1>2, <1>3 DEF Owned
<1>5. \A n \in DOMAIN files \ {name} : inode # files[n]
  BY <1>0, <1>1, <1>2 DEF Owned
<1>6. \A n \in DOMAIN files \ {name} : disk'[files[n]] = disk[files[n]]
  BY <1>0, <1>1, <1>5
<1>7. disk'[inode] = Empty(held[Worker]) /\ files'[name] = inode
  BY <1>0, <1>1, <1>4
<1> QED
  BY <1>1, <1>2, <1>3, <1>4, <1>5, <1>6, <1>7 DEF Picture

LEMMA Grabs ==
  ASSUME Basic, Grab \/ GrabFails
  PROVE  /\ pc[Worker] = "wait" /\ pc'[Worker] \in {"open", "ended"}
         /\ held'[Worker] = latest /\ latest > held[Worker]
         /\ UNCHANGED <<base, folder>>
         /\ Grab => /\ name' = <<clock, counter>> /\ counter' = counter + 1
                    /\ timely' = (timely /\ InTime)
                    /\ pc'[Worker] = "open"
         /\ ~Grab => UNCHANGED naming /\ pc'[Worker] = "ended"
<1>1. /\ pc \in [Threads -> PC] /\ Worker \in Threads
      /\ held \in [{Worker} -> 0 .. MaxFrame]
  BY Numbers
<1> QED
  BY <1>1 DEF Grab, GrabFails, Goto, Register!Read

LEMMA OwnedInit == Init => Owned
BY Bounds DEF Init, Owned, NoFile, Threads, Register!RegInit

LEMMA OwnedStep == Basic /\ Owned /\ [Next]_vars => Owned'
<1> SUFFICES ASSUME Basic, Owned, [Next]_vars PROVE Owned'
  OBVIOUS
<1>0. /\ held[Worker] \in Nat /\ latest \in Nat /\ held[Worker] <= latest
      /\ files \in [DOMAIN files -> 0 .. MaxFrame] /\ link \in Nat
      /\ disk \in [0 .. MaxFrame -> Files]
      /\ \A i \in 0 .. MaxFrame : disk[i].no \in Nat
  BY Numbers
<1>1. CASE Quiet
  <2>1. link' <= held[Worker]
    BY <1>0, <1>1 DEF Owned, Quiet
  <2> QED
    BY <1>0, <1>1, <2>1 DEF Owned, Quiet
<1>2. CASE Grab \/ GrabFails
  <2>1. /\ held'[Worker] = latest /\ latest > held[Worker]
        /\ UNCHANGED <<files, disk, link>>
    BY <1>2, Grabs DEF folder
  <2> QED
    BY <1>0, <2>1 DEF Owned
<1>3. CASE Open
  <2>1. /\ pc'[Worker] = "writeLo" /\ UNCHANGED <<held, link>>
        /\ DOMAIN files' = DOMAIN files \cup {name}
        /\ \A n \in DOMAIN files \ {name} : files'[n] = files[n]
        /\ files'[name] \in 1 .. held[Worker]
        /\ \A n \in DOMAIN files \ {name} : files'[name] # files[n]
        /\ disk' = [disk EXCEPT ![files'[name]] = Empty(held[Worker])]
    BY <1>3, Opens
  <2>2. \A a, b \in DOMAIN files' : files'[a] = files'[b] => a = b
    BY <2>1 DEF Owned
  <2>3. disk'[0] = NoFile
    BY <1>0, <2>1, Bounds DEF Owned
  <2>4. \A i \in 0 .. MaxFrame : disk'[i].no <= held[Worker]
    BY <1>0, <2>1 DEF Owned, Empty
  <2> QED
    BY <2>1, <2>2, <2>3, <2>4 DEF Owned
<1>4. CASE Restart
  <2>1. /\ held'[Worker] = latest /\ pc'[Worker] = "wait"
        /\ UNCHANGED <<files, disk, link>>
    BY <1>0, <1>4, Numbers DEF Restart, Threads
  <2> QED
    BY <1>0, <2>1 DEF Owned
<1> QED
  BY <1>1, <1>2, <1>3, <1>4, StepKinds

LEMMA MineInit == Init => Mine
BY DEF Init, Mine

LEMMA MineStep == Basic /\ Owned /\ Mine /\ [Next]_vars => Mine'
<1> SUFFICES ASSUME Basic, Owned, Mine, [Next]_vars PROVE Mine'
  OBVIOUS
<1>0. /\ held[Worker] \in Nat /\ latest \in Nat /\ held[Worker] <= latest
      /\ files \in [DOMAIN files -> 0 .. MaxFrame] /\ counter \in Nat
      /\ DOMAIN files \subseteq Nat \X Nat /\ name \in Nat \X Nat
      /\ \A n \in DOMAIN files : Taken(n) \in Nat
      /\ counter > 0 => name[2] + 1 = counter
  BY Numbers DEF Basic, Counted
<1>1. CASE Quiet
  <2>1. /\ DOMAIN files' \subseteq DOMAIN files
        /\ \A n \in DOMAIN files' : Taken(n)' = Taken(n)
        /\ UNCHANGED <<base, counter, name>>
        /\ pc'[Worker] = "open" => pc[Worker] = "open"
    BY <1>0, <1>1 DEF Quiet, Taken, Picture, naming
  <2> QED
    BY <2>1 DEF Mine
<1>2. CASE Grab \/ GrabFails
  <2>1. /\ UNCHANGED <<files, disk, base>>
        /\ \/ counter' = counter + 1 /\ name' = <<clock, counter>>
           \/ UNCHANGED counter /\ pc'[Worker] = "ended"
    BY <1>2, Grabs DEF folder, naming
  <2>2. \A n \in DOMAIN files : n[2] \in Nat /\ Taken(n)' = Taken(n)
    BY <1>0, <2>1 DEF Taken, Picture
  <2> QED
    BY <1>0, <2>1, <2>2 DEF Mine
<1>3. CASE Open
  <2>1. /\ pc'[Worker] = "writeLo" /\ UNCHANGED <<base, counter, name>>
        /\ pc[Worker] = "open"
        /\ DOMAIN files' = DOMAIN files \cup {name}
        /\ \A n \in DOMAIN files \ {name} : Taken(n)' = Taken(n)
    BY <1>3, Opens DEF Taken, Picture
  <2>2. name[2] < counter
    BY <1>0, <2>1 DEF Basic, Counted, Saving
  <2> QED
    BY <2>1, <2>2 DEF Mine
<1>4. CASE Restart
  <2>1. base' = latest /\ UNCHANGED <<files, disk>>
    BY <1>4 DEF Restart
  <2>2. \A n \in DOMAIN files' : Taken(n)' <= base'
    BY <1>0, <2>1 DEF Owned, Taken, Picture
  <2>3. \A n \in DOMAIN files' : Taken(n)' \in Nat /\ base' \in Nat
    BY <1>0, <2>1 DEF Taken, Picture
  <2> QED
    BY <2>2, <2>3 DEF Mine
<1> QED
  BY <1>1, <1>2, <1>3, <1>4, StepKinds

LEMMA OrderedInit == Init => Ordered
BY Bounds DEF Init, Ordered, Sorted, Writing, Threads

LEMMA OrderedStep ==
  Basic /\ Basic' /\ Owned /\ Ordered /\ [Next]_vars => Ordered'
<1> SUFFICES ASSUME Basic, Basic', Owned, Ordered, [Next]_vars, timely'
             PROVE  Ordered'
  BY DEF Ordered
<1>0. /\ DOMAIN files \subseteq Nat \X Nat /\ name \in Nat \X Nat
      /\ clock \in Nat /\ counter \in Nat
      /\ held[Worker] \in Nat /\ latest \in Nat /\ link \in Nat
      /\ files \in [DOMAIN files -> 0 .. MaxFrame]
      /\ \A n \in DOMAIN files : Taken(n) \in Nat
      /\ counter > 0 => name[2] + 1 = counter
  BY Numbers DEF Basic, Counted
<1>1. CASE Quiet
  <2>1. /\ DOMAIN files' \subseteq DOMAIN files /\ timely
        /\ \A n \in DOMAIN files' : Taken(n)' = Taken(n) /\ files'[n] = files[n]
        /\ UNCHANGED <<counter, name>>
        /\ pc'[Worker] = "open" => pc[Worker] = "open"
        /\ Writing' => Writing /\ link' = link
    BY <1>0, <1>1 DEF Quiet, Taken, Picture, naming
  <2>2. Writing' => name \in DOMAIN files'
    BY <2>1 DEF Basic, Opened, Writing
  <2>3. Sorted'
    BY <2>1 DEF Ordered, Sorted, Before
  <2>4. counter' > 0 => \A n \in DOMAIN files' : n = name' \/ Before(n, name)'
    BY <2>1 DEF Ordered, Before
  <2>5. pc'[Worker] = "open" => \A n \in DOMAIN files' : Before(n, name)'
    BY <2>1 DEF Ordered, Before
  <2>6. Writing' => files'[name'] # link'
    BY <2>1, <2>2 DEF Ordered
  <2> QED
    BY <2>3, <2>4, <2>5, <2>6 DEF Ordered, Before
<1>2. CASE Grab
  <2>1. /\ UNCHANGED <<files, disk, link>> /\ timely /\ InTime
        /\ name' = <<clock, counter>> /\ counter' = counter + 1
        /\ pc'[Worker] = "open"
    BY <1>2, Grabs DEF folder
  <2>2. Sorted'
    BY <2>1 DEF Ordered, Sorted, Taken, Picture, Before
  <2>3. ASSUME NEW n \in DOMAIN files
        PROVE  Before(n, name')
    <3>1. n \in Nat \X Nat /\ n[1] \in Nat /\ n[2] \in Nat
          /\ name[1] \in Nat /\ name[2] \in Nat /\ name' \in Nat \X Nat
      BY <1>0, <2>1
    <3>2. CASE counter = 0
      BY <1>0, <2>1, <3>1, <3>2 DEF InTime, Before
    <3>3. CASE counter # 0
      <4>1. counter > 0 /\ name[1] <= clock /\ name[2] + 1 = counter
        BY <1>0, <2>1, <3>3 DEF InTime
      <4>2. Before(name, name')
        BY <1>0, <2>1, <3>1, <4>1 DEF Before
      <4>3. n = name \/ Before(n, name)
        BY <2>1, <4>1 DEF Ordered
      <4> QED
        BY <1>0, <3>1, <4>2, <4>3, Transitive
    <3> QED
      BY <3>2, <3>3
  <2> QED
    BY <2>1, <2>2, <2>3 DEF Ordered, Before, Writing
<1>3. CASE GrabFails /\ ~Grab
  <2>1. /\ UNCHANGED <<files, disk, link, timely, counter, name>>
        /\ pc'[Worker] = "ended"
    BY <1>3, Grabs DEF folder, naming
  <2> QED
    BY <2>1 DEF Ordered, Sorted, Taken, Picture, Before, Writing
<1>4. CASE Open
  <2>1. /\ UNCHANGED <<name, counter, timely, link>>
        /\ pc[Worker] = "open" /\ pc'[Worker] = "writeLo"
        /\ DOMAIN files' = DOMAIN files \cup {name}
        /\ \A n \in DOMAIN files \ {name} : Taken(n)' = Taken(n)
        /\ files'[name] = IF name \in DOMAIN files THEN files[name]
                                                   ELSE held[Worker]
    BY <1>4, Opens DEF Taken, Picture
  <2>8. Taken(name)' = held[Worker]
    BY <1>4, Opens DEF Taken, Empty
  <2>2. \A n \in DOMAIN files : Before(n, name)
    BY <2>1 DEF Ordered
  <2>3. name \notin DOMAIN files
    BY <1>0, <2>2, TotalOrder
  <2>4. \A n \in DOMAIN files : Taken(n) < held[Worker]
    BY <1>0, <2>1 DEF Owned, Taken, Picture
  <2>5. ASSUME NEW a \in DOMAIN files', NEW b \in DOMAIN files', Before(a, b)
        PROVE  Taken(a)' < Taken(b)'
    <3>1. CASE a # name /\ b # name
      BY <2>1, <2>5, <3>1 DEF Ordered, Sorted
    <3>2. CASE a # name /\ b = name
      BY <2>1, <2>4, <2>8, <3>2
    <3>3. CASE a = name
      <4>1. b = name \/ Before(b, name)
        BY <2>1, <2>2
      <4> QED
        BY <1>0, <2>1, <2>5, <3>3, <4>1, TotalOrder
    <3> QED
      BY <3>1, <3>2, <3>3
  <2>6. Sorted'
    BY <2>5 DEF Sorted, Before
  <2>7. files'[name] # link
    BY <1>0, <2>1, <2>3 DEF Owned
  <2> QED
    BY <2>1, <2>2, <2>6, <2>7 DEF Ordered, Before
<1>5. CASE Restart
  <2>1. /\ UNCHANGED <<files, disk, timely>> /\ counter' = 0
        /\ pc'[Worker] = "wait"
    BY <1>5, Numbers DEF Restart, Threads
  <2> QED
    BY <2>1 DEF Ordered, Sorted, Taken, Picture, Before, Writing
<1> QED
  BY <1>1, <1>2, <1>3, <1>4, <1>5, StepKinds

----------------------------------------------------------------------------
(* The list of names to be removed, and what a step does to the pictures    *)
(* that were taken before.                                                  *)

LEMMA ListedInit == Init => Listed
BY DEF Init, Listed, Threads

LEMMA ListedStep == Basic /\ Listed /\ [Next]_vars => Listed'
<1> SUFFICES ASSUME Basic, Listed, [Next]_vars PROVE Listed'
  OBVIOUS
<1>0. /\ pc \in [Threads -> PC] /\ Worker \in Threads
      /\ DOMAIN files \subseteq Nat \X Nat /\ IsFiniteSet(DOMAIN files)
      /\ victims \subseteq DOMAIN files /\ RingSize \in Nat
      /\ IsFiniteSet(Rest) /\ Cardinality(Rest) \in Nat
  <2>1. DOMAIN files \subseteq Nat \X Nat /\ IsFiniteSet(DOMAIN files)
        /\ victims \subseteq DOMAIN files /\ RingSize \in Nat
        /\ pc \in [Threads -> PC] /\ Worker \in Threads
    BY Numbers, Bounds DEF Basic, Typed, TypeOK
  <2>2. IsFiniteSet(Rest)
    BY <2>1, FS_Subset DEF Rest
  <2> QED
    BY <2>1, <2>2, FS_CardinalityType
<1>1. ASSUME pc[Worker] # "trim", pc'[Worker] # "trim", victims' = victims
      PROVE  Listed'
  BY <1>1 DEF Listed
<1>2. ASSUME UNCHANGED <<files, victims, spared>>, pc'[Worker] = pc[Worker]
      PROVE  Listed'
  BY <1>2 DEF Listed, Rest, Before
<1>3. CASE CamPublish \/ Tick \/ UNCHANGED vars
  BY <1>2, <1>3 DEF CamPublish, Tick, vars, folder
<1>4. CASE \/ Grab \/ GrabFails \/ Open \/ WriteLo \/ WriteHi \/ WriteShort
           \/ WriteFails \/ Unlink \/ Link \/ ScanFails
  <2>1. pc[Worker] # "trim" /\ pc'[Worker] # "trim" /\ victims' = victims
    BY <1>0, <1>4 DEF Grab, GrabFails, Open, WriteLo, WriteHi, WriteShort,
                      WriteFails, Unlink, Link, ScanFails, Goto, folder
  <2> QED
    BY <1>1, <2>1
<1>5. CASE Scan
  <2>1. /\ victims' = Excess /\ spared' = {} /\ files' = files
        /\ pc'[Worker] = IF Excess = {} THEN "wait" ELSE "trim"
    BY <1>0, <1>5 DEF Scan, Goto
  <2>2. Rest' = DOMAIN files \ Excess /\ (Rest \ spared)' = DOMAIN files \ Excess
    BY <2>1 DEF Rest
  <2>3. /\ Cardinality(DOMAIN files \ Excess) <= RingSize
        /\ Excess # {} => Cardinality(DOMAIN files \ Excess) >= RingSize
        /\ \A v \in Excess, m \in DOMAIN files \ Excess : Before(v, m)
    BY <1>0, ExcessLeaves, ExcessEnough, ExcessOldest
  <2> QED
    BY <2>1, <2>2, <2>3 DEF Listed, Before
<1>6. CASE Trim
  <2>1. /\ victims' = victims \ {First(victims)} /\ UNCHANGED spared
        /\ DOMAIN files' = DOMAIN files \ {First(victims)}
        /\ pc[Worker] = "trim"
        /\ pc'[Worker] = IF victims' = {} THEN "wait" ELSE "trim"
    BY <1>0, <1>6 DEF Trim, Goto
  <2>2. victims # {} /\ First(victims) \in victims
    BY <1>0, <2>1, FirstOf DEF Listed
  <2>3. Rest' = Rest
    BY <1>0, <2>1, <2>2 DEF Rest
  <2> QED
    BY <2>1, <2>2, <2>3 DEF Listed, Before
<1>7. CASE TrimFails
  <2>1. /\ victims' = victims \ {First(victims)} /\ UNCHANGED files
        /\ spared' = spared \cup {First(victims)}
        /\ pc[Worker] = "trim"
        /\ pc'[Worker] = IF victims' = {} THEN "wait" ELSE "trim"
    BY <1>0, <1>7 DEF TrimFails, Goto
  <2>2. victims # {} /\ First(victims) \in victims
    BY <1>0, <2>1, FirstOf DEF Listed
  <2>3. (Rest \ spared)' = Rest \ spared
    BY <1>0, <2>1, <2>2 DEF Rest
  <2>4. Rest \subseteq Rest' /\ IsFiniteSet(Rest')
    BY <1>0, <2>1, FS_Subset DEF Rest
  <2>5. Cardinality(Rest) <= Cardinality(Rest') /\ Cardinality(Rest') \in Nat
    BY <2>4, FS_Subset, FS_CardinalityType
  <2>6. Cardinality(Rest') >= RingSize
    BY <1>0, <2>2, <2>5 DEF Listed
  <2> QED
    BY <2>1, <2>2, <2>3, <2>6 DEF Listed, Before
<1>8. CASE Restart
  <2>1. victims' = {} /\ pc'[Worker] = "wait"
    BY <1>0, <1>8 DEF Restart, Threads
  <2> QED
    BY <2>1 DEF Listed
<1>9. ASSUME NEW t \in Takers, Take(t)
      PROVE  Listed'
  BY <1>2, <1>9, TakeStep DEF Elsewhere, folder
<1> QED
  BY <1>3, <1>4, <1>5, <1>6, <1>7, <1>8, <1>9 DEF Next, WorkerNext

Goes ==
    /\ DOMAIN files \ DOMAIN files' # {} =>
           Cardinality(DOMAIN files') >= RingSize
    /\ \A n \in DOMAIN files \ DOMAIN files' :
           timely => \A m \in DOMAIN files' \ spared : Taken(n) < Taken(m)'
    /\ \A n \in DOMAIN files \cap DOMAIN files' :
           Taken(n)' # Taken(n) => Taken(n) <= base /\ ~timely

LEMMA GoesStep ==
  Basic /\ Owned /\ Mine /\ Ordered /\ Listed /\ [Next]_vars => Goes
<1> SUFFICES ASSUME Basic, Owned, Mine, Ordered, Listed, [Next]_vars PROVE Goes
  OBVIOUS
<1>0. /\ DOMAIN files \subseteq Nat \X Nat /\ name \in Nat \X Nat
      /\ files \in [DOMAIN files -> 0 .. MaxFrame] /\ RingSize \in Nat
      /\ IsFiniteSet(DOMAIN files) /\ victims \subseteq DOMAIN files
      /\ base \in Nat /\ \A n \in DOMAIN files : Taken(n) \in Nat
  BY Numbers, Bounds DEF Basic, Typed, TypeOK
<1>1. ASSUME DOMAIN files' = DOMAIN files,
             \A n \in DOMAIN files : Taken(n)' = Taken(n)
      PROVE  Goes
  BY <1>1 DEF Goes
<1>2. CASE Trim
  <2>1. /\ pc[Worker] = "trim" /\ disk' = disk
        /\ files' = [n \in DOMAIN files \ {First(victims)} |-> files[n]]
    BY <1>2 DEF Trim
  <2>2. /\ victims # {} /\ First(victims) \in victims
        /\ \A m \in victims \ {First(victims)} : Before(First(victims), m)
    BY <1>0, <2>1, FirstOf DEF Listed
  <2>3. \A m \in DOMAIN files' : Taken(m)' = Taken(m)
    BY <2>1 DEF Taken, Picture
  <2>4. Cardinality(DOMAIN files') >= RingSize
    <3>1. Rest \subseteq DOMAIN files' /\ IsFiniteSet(DOMAIN files')
      BY <1>0, <2>1, <2>2, FS_Subset DEF Rest
    <3>2. Cardinality(Rest) <= Cardinality(DOMAIN files') /\ IsFiniteSet(Rest)
      BY <3>1, FS_Subset
    <3> QED
      BY <1>0, <2>2, <3>1, <3>2, FS_CardinalityType DEF Listed
  <2>5. ASSUME timely, NEW m \in DOMAIN files' \ spared
        PROVE  Taken(First(victims)) < Taken(m)'
    <3>1. m \in DOMAIN files /\ m # First(victims)
      BY <2>1
    <3>2. Before(First(victims), m)
      <4>1. CASE m \in victims
        BY <2>2, <3>1, <4>1
      <4>2. CASE m \notin victims
        BY <2>2, <2>5, <3>1, <4>2 DEF Listed, Rest
      <4> QED
        BY <4>1, <4>2
    <3>3. Taken(First(victims)) < Taken(m)
      BY <1>0, <2>2, <2>5, <3>1, <3>2 DEF Ordered, Sorted
    <3> QED
      BY <2>3, <3>3
  <2> QED
    BY <2>1, <2>3, <2>4, <2>5 DEF Goes
<1>3. CASE Quiet /\ DOMAIN files' = DOMAIN files
  BY <1>0, <1>1, <1>3 DEF Quiet, Taken, Picture
<1>4. CASE Grab \/ GrabFails
  BY <1>1, <1>4, Grabs DEF folder, Taken, Picture
<1>5. CASE Restart
  BY <1>1, <1>5 DEF Restart, Taken, Picture
<1>6. CASE Open
  <2>1. /\ DOMAIN files' = DOMAIN files \cup {name} /\ pc[Worker] = "open"
        /\ \A n \in DOMAIN files \ {name} : Taken(n)' = Taken(n)
    BY <1>6, Opens DEF Taken, Picture
  <2>2. ASSUME name \in DOMAIN files
        PROVE  Taken(name) <= base /\ ~timely
    <3>1. ~timely
      BY <1>0, <2>1, <2>2, TotalOrder DEF Ordered
    <3>2. ~(Taken(name) > base)
      <4>1. name[2] \in Nat
        BY <1>0
      <4> QED
        BY <2>1, <2>2, <4>1 DEF Mine
    <3> QED
      BY <1>0, <2>2, <3>1, <3>2
  <2> QED
    BY <2>1, <2>2 DEF Goes
<1>7. Trim \/ UNCHANGED <<DOMAIN files>> \/ Open \/ Restart
  <2>1. ASSUME NEW t \in Takers, Take(t)
        PROVE  UNCHANGED files
    BY <2>1, TakeStep DEF Elsewhere, folder
  <2> QED
    BY <2>1 DEF Next, WorkerNext, CamPublish, Tick, Grab, GrabFails, WriteLo,
                WriteHi, WriteShort, WriteFails, Unlink, Link, Scan, ScanFails,
                TrimFails, vars, folder
<1> QED
  BY <1>2, <1>3, <1>4, <1>5, <1>6, <1>7, StepKinds

----------------------------------------------------------------------------
(* Pictures are whole.                                                      *)

Sound == Clean /\ PicturesWhole

LEMMA SoundInit == Init => Sound
BY Bounds DEF Init, Sound, Clean, OwnBuffer, PicturesWhole, Whole, NoFile,
              Writing, Saving, Threads

LEMMA SoundStep ==
  Basic /\ Owned /\ Ordered /\ Ordered' /\ Sound /\ [Next]_vars => Sound'
<1> USE DEF regvars, naming, folder
<1> SUFFICES ASSUME Basic, Owned, Ordered, Ordered', Sound, Next, ~trouble
             PROVE  Sound'
  BY DEF Sound, Clean, OwnBuffer, PicturesWhole, Writing, Taken, Picture, Whole,
         Next, vars
<1>0. /\ OwnBuffer /\ ~trouble'
      /\ \A n \in DOMAIN files :
             Taken(n) > base /\ ~(n = name /\ Writing) => Whole(Picture(n))
      /\ timely => Whole(disk[link])
  BY DEF Sound, Clean, PicturesWhole, Next, Taken
<1> SUFFICES /\ OwnBuffer'
             /\ \A n \in DOMAIN files' :
                    Taken(n)' > base' /\ ~(n = name' /\ Writing')
                        => Whole(Picture(n)')
             /\ timely' => Whole((disk[link])')
  BY <1>0 DEF Sound, Clean, PicturesWhole, Whole, Taken
<1>a. /\ held[Worker] \in Nat /\ base \in Nat /\ latest \in Nat
      /\ pc[Worker] \in Saving => held[Worker] > base
      /\ \A n \in DOMAIN files : Taken(n) <= held[Worker] /\ Taken(n) \in Nat
      /\ held[Worker] <= latest
  <2>1. \A n \in DOMAIN files : Taken(n) <= held[Worker]
    BY Numbers DEF Owned, Taken, Picture
  <2> QED
    BY <2>1, Numbers DEF Basic, Counted
<1>b. /\ pc \in [Threads -> PC] /\ Worker \in Threads
      /\ \A t \in Takers : t \in Threads /\ t # Worker
      /\ ptr \in [Threads -> Nat]
      /\ held \in [{Worker} -> 0 .. MaxFrame]
      /\ files \in [DOMAIN files -> 0 .. MaxFrame]
      /\ disk \in [0 .. MaxFrame -> Files] /\ link \in 0 .. MaxFrame
      /\ latest \in 0 .. MaxFrame
  BY Numbers, Bounds DEF Basic, Typed, TypeOK, Threads
<1>c. ASSUME UNCHANGED <<disk, link>>, timely' => timely
      PROVE  timely' => Whole((disk[link])')
  BY <1>0, <1>c DEF Whole
<1> USE DEF OwnBuffer
<1>1. CASE CamPublish \/ Tick
  BY <1>0, <1>1 DEF CamPublish, Tick, Register!Publish, Writing, Whole, Taken,
                    Picture
<1>2. CASE Grab
  <2>1. /\ held'[Worker] = latest /\ buf'.lo = latest /\ buf'.hi = latest
        /\ pc'[Worker] = "open" /\ \A t \in Takers : pc'[t] = pc[t]
        /\ pc[Worker] = "wait"
        /\ UNCHANGED <<files, disk, base, link>> /\ (timely' => timely)
    BY <1>b, <1>2, Filled DEF Grab, Goto, Register!Read, Basic
  <2>2. timely' => Whole((disk[link])')
    BY <1>c, <2>1
  <2>3. OwnBuffer'
    BY <1>0, <2>1 DEF Writing
  <2> QED
    BY <1>0, <2>1, <2>2, <2>3 DEF Writing, Whole, Taken, Picture
<1>3. CASE GrabFails
  <2>1. /\ pc'[Worker] = "ended" /\ \A t \in Takers : pc'[t] = pc[t]
        /\ pc[Worker] = "wait"
        /\ UNCHANGED <<files, disk, base, link, timely>>
    BY <1>b, <1>3 DEF GrabFails, Goto
  <2> QED
    BY <1>0, <1>c, <2>1 DEF Writing, Whole, Saving, Taken, Picture
<1>4. CASE Open
  <2>1. /\ pc'[Worker] = "writeLo" /\ \A t \in Takers : pc'[t] = pc[t]
        /\ pc[Worker] = "open" /\ ptr'[Worker] = buf.at
        /\ UNCHANGED <<base, link, buf, held, name, timely>>
    BY <1>b, <1>4 DEF Open, Goto
  <2>2. /\ DOMAIN files' = DOMAIN files \cup {name}
        /\ \A n \in DOMAIN files \ {name} :
               Picture(n)' = Picture(n) /\ Taken(n)' = Taken(n)
        /\ disk' = [disk EXCEPT ![files'[name]] = Empty(held[Worker])]
        /\ files'[name] \in 1 .. held[Worker]
    BY <1>4, Opens DEF Picture, Taken
  <2>3. Taken(name)' = held[Worker]
    BY <1>4, Opens DEF Taken, Empty
  <2>4. timely' => Whole((disk[link])')
    <3>1. SUFFICES ASSUME timely PROVE Whole(disk'[link])
      BY <2>1 DEF Whole
    <3>2. files'[name] # link
      BY <2>1, <3>1 DEF Ordered, Writing
    <3>3. disk'[link] = disk[link]
      BY <1>b, <2>1, <2>2, <3>2
    <3> QED
      BY <1>0, <3>1, <3>3 DEF Whole
  <2> QED
    BY <1>0, <2>1, <2>2, <2>3, <2>4 DEF Writing, Whole
<1>d. ASSUME Writing
      PROVE  /\ name \in DOMAIN files /\ files[name] \in 0 .. MaxFrame
             /\ Picture(name) \in Files /\ Taken(name) = held[Worker]
             /\ timely => files[name] # link
             /\ \A n \in DOMAIN files \ {name} : files[n] # files[name]
  <2>1. name \in DOMAIN files
    BY <1>d DEF Basic, Opened, Writing
  <2> QED
    BY <1>0, <1>b, <1>d, <2>1
       DEF Writing, Saving, Ordered, Owned, Picture
<1>5. CASE WriteLo
  <2>1. /\ pc'[Worker] = "writeHi" /\ \A t \in Takers : pc'[t] = pc[t]
        /\ Writing /\ pc[Worker] = "writeLo"
        /\ UNCHANGED <<base, link, buf, held, name, ptr, files, timely>>
        /\ disk' = [disk EXCEPT ![files[name]].lo = ReadLo(Worker)]
    BY <1>b, <1>5 DEF WriteLo, Goto, Writing
  <2>2. ReadLo(Worker) = held[Worker]
    BY <1>0, <2>1 DEF ReadLo, Writing
  <2>3. /\ Picture(name)' = [Picture(name) EXCEPT !.lo = held[Worker]]
        /\ \A n \in DOMAIN files \ {name} :
               Picture(n)' = Picture(n) /\ Taken(n)' = Taken(n)
        /\ timely => (disk[link])' = disk[link]
    BY <1>b, <1>d, <2>1, <2>2 DEF Picture, Taken
  <2>4. Taken(name)' = held[Worker] /\ (Picture(name)').lo = held[Worker]
    BY <1>d, <2>1, <2>3 DEF Taken, Files
  <2>5. timely' => Whole((disk[link])')
    BY <1>0, <2>1, <2>3 DEF Whole
  <2>6. OwnBuffer'
    BY <1>0, <2>1, <2>4 DEF Writing
  <2> QED
    BY <1>0, <2>1, <2>3, <2>4, <2>5, <2>6 DEF Writing, Whole
<1>6. CASE WriteHi
  <2>1. /\ pc'[Worker] = "unlink" /\ \A t \in Takers : pc'[t] = pc[t]
        /\ Writing /\ pc[Worker] = "writeHi"
        /\ UNCHANGED <<base, link, buf, held, name, ptr, files, timely>>
        /\ disk' = [disk EXCEPT ![files[name]].hi = ReadHi(Worker)]
    BY <1>b, <1>6 DEF WriteHi, Goto, Writing
  <2>2. ReadHi(Worker) = held[Worker] /\ Picture(name).lo = held[Worker]
    BY <1>0, <2>1 DEF ReadHi, Writing
  <2>3. /\ Picture(name)' = [Picture(name) EXCEPT !.hi = held[Worker]]
        /\ \A n \in DOMAIN files \ {name} :
               Picture(n)' = Picture(n) /\ Taken(n)' = Taken(n)
        /\ timely => (disk[link])' = disk[link]
    BY <1>b, <1>d, <2>1, <2>2 DEF Picture, Taken
  <2>4. Taken(name)' = held[Worker] /\ Whole(Picture(name)')
    BY <1>d, <2>1, <2>2, <2>3 DEF Taken, Files, Whole
  <2>5. timely' => Whole((disk[link])')
    BY <1>0, <2>1, <2>3 DEF Whole
  <2>6. OwnBuffer'
    BY <1>0, <2>1, <2>4 DEF Writing
  <2>7. ASSUME NEW n \in DOMAIN files', Taken(n)' > base'
        PROVE  Whole(Picture(n)')
    <3>1. CASE n = name
      BY <2>1, <2>4, <3>1 DEF Whole, Picture
    <3>2. CASE n # name
      <4>1. n \in DOMAIN files \ {name} /\ base' = base
        BY <2>1, <3>2
      <4>2. Picture(n)' = Picture(n) /\ Taken(n)' = Taken(n)
        BY <2>3, <4>1
      <4>3. Whole(Picture(n))
        BY <1>0, <2>7, <4>1, <4>2
      <4> QED
        BY <4>2, <4>3 DEF Whole
    <3> QED
      BY <3>1, <3>2
  <2> QED
    BY <2>5, <2>6, <2>7
<1>7. CASE Unlink
  <2>1. /\ pc'[Worker] = "link" /\ \A t \in Takers : pc'[t] = pc[t]
        /\ pc[Worker] = "unlink" /\ link' = 0
        /\ UNCHANGED <<base, files, disk, held, name, timely>>
    BY <1>b, <1>7 DEF Unlink, Goto
  <2>2. Whole((disk[link])')
    BY <2>1 DEF Owned, Whole, NoFile
  <2> QED
    BY <1>0, <2>1, <2>2 DEF Writing, Whole, Saving, Taken, Picture
<1>8. CASE Link
  <2>1. /\ pc'[Worker] \in {"scan", "wait"} /\ \A t \in Takers : pc'[t] = pc[t]
        /\ pc[Worker] = "link" /\ name \in DOMAIN files
        /\ link' = files[name]
        /\ UNCHANGED <<base, files, disk, held, name, timely>>
    BY <1>b, <1>8 DEF Link, Goto, Basic, Opened
  <2>2. Taken(name) = held[Worker] /\ held[Worker] > base /\ ~Writing
    BY <1>0, <1>a, <2>1 DEF Saving, Writing
  <2>3. Whole((disk[link])')
    BY <1>0, <2>1, <2>2 DEF Whole, Picture
  <2> QED
    BY <1>0, <2>1, <2>2, <2>3 DEF Writing, Whole, Saving, Taken, Picture
<1>9. CASE Scan \/ Trim
  <2>1. /\ pc'[Worker] \in {"trim", "wait"} /\ \A t \in Takers : pc'[t] = pc[t]
        /\ pc[Worker] \in {"scan", "trim"}
        /\ UNCHANGED <<base, link, held, name, disk, timely>>
        /\ DOMAIN files' \subseteq DOMAIN files
        /\ \A n \in DOMAIN files' : files'[n] = files[n]
    BY <1>b, <1>9 DEF Scan, Trim, Goto
  <2> QED
    BY <1>0, <1>c, <2>1 DEF Writing, Whole, Saving, Taken, Picture
<1>10. CASE Restart
  <2>1. /\ pc'[Worker] = "wait" /\ \A t \in Takers : pc'[t] = "off"
        /\ base' = latest /\ UNCHANGED <<files, disk, link, timely>>
    BY <1>b, <1>10 DEF Restart, Threads
  <2>2. \A n \in DOMAIN files' : ~(Taken(n)' > base')
    BY <1>a, <2>1 DEF Taken, Picture
  <2> QED
    BY <1>0, <1>c, <2>1, <2>2 DEF Writing, Saving
<1> QED
  BY <1>1, <1>2, <1>3, <1>4, <1>5, <1>6, <1>7, <1>8, <1>9, <1>10
     DEF Next, WorkerNext, WriteShort, WriteFails, ScanFails, TrimFails
----------------------------------------------------------------------------
(* The folder keeps its bound.                                              *)

LEMMA ModUnique ==
  ASSUME NEW n \in Nat \ {0}, NEW q \in Nat, NEW r \in 0 .. n - 1
  PROVE  (n * q + r) % n = r
OBVIOUS

\* Until the next maintenance is due, the remainder counts the pictures.
LEMMA NextRemainder ==
  ASSUME NEW n \in Nat \ {0}, NEW x \in Nat, (x + 1) % n # 0
  PROVE  (x + 1) % n = (x % n) + 1
<1>1. x = n * (x \div n) + (x % n) /\ x % n \in 0 .. n - 1 /\ x \div n \in Nat
  OBVIOUS
<1>2. PICK q \in Nat, r \in 0 .. n - 1 : x = n * q + r /\ r = x % n
  BY <1>1
<1>3. CASE r + 1 = n
  <2>1. x + 1 = n * (q + 1) + 0 /\ q + 1 \in Nat /\ 0 \in 0 .. n - 1
    BY <1>2, <1>3
  <2>2. (n * (q + 1) + 0) % n = 0
    BY <2>1, ModUnique
  <2> QED
    BY <2>1, <2>2
<1>4. CASE r + 1 # n
  <2>1. x + 1 = n * q + (r + 1) /\ r + 1 \in 0 .. n - 1
    BY <1>2, <1>4
  <2>2. (n * q + (r + 1)) % n = r + 1
    BY <2>1, ModUnique
  <2> QED
    BY <1>2, <2>1, <2>2
<1> QED
  BY <1>3, <1>4

LEMMA Remainder ==
  ASSUME NEW k \in Nat
  PROVE  k % (Exceed + 1) \in 0 .. Exceed
BY Bounds

LEMMA OnlyWaiting ==
  ASSUME pc'[Worker] = "wait",
         Cardinality(Kept') <= RingSize + (counter' % (Exceed + 1)) + 0
  PROVE  Ring'
BY DEF Ring, Over, Saving

LEMMA RingInit == Init => Ring
BY DEF Init, Ring, Saving

LEMMA RingStep == Basic /\ Basic' /\ Listed /\ Ring /\ [Next]_vars => Ring'
<1> USE DEF naming, folder
<1> SUFFICES ASSUME Basic, Basic', Listed, Ring, [Next]_vars PROVE Ring'
  OBVIOUS
<1>0. /\ IsFiniteSet(DOMAIN files) /\ IsFiniteSet(DOMAIN files')
      /\ DOMAIN files \subseteq Nat \X Nat /\ victims \subseteq DOMAIN files
      /\ RingSize \in Nat /\ Exceed \in Nat /\ counter \in Nat
      /\ pc \in [Threads -> PC] /\ Worker \in Threads
  BY Bounds, Numbers DEF Basic, Typed, TypeOK
<1>a. /\ IsFiniteSet(Kept) /\ Cardinality(Kept) \in Nat
      /\ IsFiniteSet(Kept') /\ Cardinality(Kept') \in Nat
  <2>1. IsFiniteSet(Kept) /\ IsFiniteSet(Kept')
    BY <1>0, FS_Subset DEF Kept
  <2> QED
    BY <2>1, FS_CardinalityType
<1>1. ASSUME UNCHANGED <<counter, files, spared>>, pc'[Worker] = pc[Worker]
      PROVE  Ring'
  BY <1>1 DEF Ring, Over, Kept
<1>2. CASE Grab
  <2>1. /\ pc[Worker] = "wait" /\ pc'[Worker] = "open"
        /\ counter' = counter + 1 /\ Kept' = Kept
    BY <1>0, <1>2 DEF Grab, Goto, Kept
  <2>2. counter' > 1 => Over(counter' - 1, 0) /\ counter' - 1 = counter
    BY <1>0, <2>1 DEF Ring
  <2> QED
    BY <2>1, <2>2 DEF Ring, Over
<1>3. CASE Open
  <2>1. /\ pc[Worker] = "open" /\ pc'[Worker] = "writeLo"
        /\ counter' = counter /\ Kept' \subseteq Kept \cup {name}
    BY <1>0, <1>3 DEF Open, Goto, Kept
  <2>2. Cardinality(Kept') <= Cardinality(Kept) + 1
    <3>1. IsFiniteSet(Kept \cup {name})
          /\ Cardinality(Kept \cup {name}) <= Cardinality(Kept) + 1
      <4>1. /\ IsFiniteSet(Kept \cup {name})
            /\ Cardinality(Kept \cup {name}) \in
                   {Cardinality(Kept), Cardinality(Kept) + 1}
        BY <1>a, FS_AddElement
      <4> QED
        BY <1>a, <4>1
    <3>2. Cardinality(Kept') <= Cardinality(Kept \cup {name})
      BY <2>1, <3>1, FS_Subset
    <3> QED
      BY <1>a, <3>1, <3>2, FS_CardinalityType
  <2>3. ASSUME counter > 1
        PROVE  Over(counter - 1, 1)'
    <3>1. PICK k \in Nat : k = (counter - 1) % (Exceed + 1)
      BY <1>0, <2>3, Remainder
    <3>2. Cardinality(Kept) <= RingSize + k + 0
      BY <2>1, <2>3, <3>1 DEF Ring, Over
    <3>3. Cardinality(Kept') <= RingSize + k + 1
      BY <1>0, <1>a, <2>2, <3>2
    <3> QED
      BY <2>1, <3>1, <3>3 DEF Over
  <2> QED
    BY <2>1, <2>3 DEF Ring, Over
<1>4. CASE WriteLo \/ WriteHi \/ WriteShort \/ Unlink
  <2>1. /\ pc[Worker] \in {"writeLo", "writeHi", "unlink"}
        /\ pc'[Worker] \in {"writeHi", "unlink", "link"}
        /\ counter' = counter /\ Kept' = Kept
    BY <1>0, <1>4 DEF WriteLo, WriteHi, WriteShort, Unlink, Goto, Kept
  <2> QED
    BY <2>1 DEF Ring, Over, Saving
<1>5. CASE GrabFails \/ WriteFails
  <2>1. pc'[Worker] = "ended"
    BY <1>0, <1>5 DEF GrabFails, WriteFails, Goto
  <2> QED
    BY <2>1 DEF Ring, Saving
<1>6. CASE Link
  <2>1. /\ pc[Worker] = "link" /\ counter' = counter /\ Kept' = Kept
        /\ pc'[Worker] = IF MaintainNow THEN "scan" ELSE "wait"
    BY <1>0, <1>6 DEF Link, Goto, Kept
  <2>2. CASE MaintainNow
    BY <2>1, <2>2 DEF Ring
  <2>3. CASE ~MaintainNow
    <3>1. counter > 1 /\ counter % (Exceed + 1) # 0
      BY <1>0, <2>1, <2>3 DEF MaintainNow, Basic, Counted, Saving
    <3>2. PICK x \in Nat : counter = x + 1 /\ x = counter - 1
      BY <1>0, <3>1
    <3>a. Exceed + 1 \in Nat \ {0} /\ (x + 1) % (Exceed + 1) # 0
      BY <1>0, <3>1, <3>2
    <3>b. (x + 1) % (Exceed + 1) = (x % (Exceed + 1)) + 1
      BY <3>a, NextRemainder
    <3>3. counter % (Exceed + 1) = (x % (Exceed + 1)) + 1
      BY <3>2, <3>b
    <3>4. PICK k \in Nat : k = x % (Exceed + 1)
      BY <1>0, Remainder
    <3>5. Cardinality(Kept) <= RingSize + k + 1
      BY <2>1, <3>1, <3>2, <3>4 DEF Ring, Over, Saving
    <3>6. Cardinality(Kept) <= RingSize + (k + 1) + 0
      BY <1>0, <1>a, <3>5
    <3>7. Cardinality(Kept')
              <= RingSize + (counter' % (Exceed + 1)) + 0
      BY <2>1, <3>3, <3>4, <3>6
    <3>8. pc'[Worker] = "wait"
      BY <2>1, <2>3
    <3> QED
      BY <3>7, <3>8, OnlyWaiting
  <2> QED
    BY <2>2, <2>3
<1>7. ASSUME pc'[Worker] = "trim" \/ Cardinality(Kept') <= RingSize,
             pc'[Worker] \in {"trim", "wait"}, counter' = counter
      PROVE  Ring'
  <2>1. CASE pc'[Worker] = "trim"
    BY <2>1 DEF Ring
  <2>2. CASE pc'[Worker] # "trim"
    <3>1. PICK k \in Nat : k = counter % (Exceed + 1)
      BY <1>0, Remainder
    <3>2. Cardinality(Kept') <= RingSize + k + 0 /\ pc'[Worker] = "wait"
      BY <1>0, <1>a, <1>7, <2>2, <3>1
    <3>3. Cardinality(Kept') <= RingSize + (counter' % (Exceed + 1)) + 0
      BY <1>7, <3>1, <3>2
    <3> QED
      BY <3>2, <3>3, OnlyWaiting
  <2> QED
    BY <2>1, <2>2
<1>8. CASE Scan
  <2>1. /\ counter' = counter /\ Kept' = DOMAIN files
        /\ pc'[Worker] = IF Excess = {} THEN "wait" ELSE "trim"
    BY <1>0, <1>8 DEF Scan, Goto, Kept
  <2>2. Excess = {} => Cardinality(DOMAIN files) <= RingSize
    BY <1>0, ExcessLeaves
  <2> QED
    BY <1>7, <2>1, <2>2
<1>9. CASE ScanFails
  <2>1. counter' = counter /\ Kept' = {} /\ pc'[Worker] = "wait"
    BY <1>0, <1>9 DEF ScanFails, Goto, Kept
  <2>2. Cardinality(Kept') <= RingSize
    BY <1>0, <2>1, FS_EmptySet
  <2> QED
    BY <1>7, <2>1, <2>2
<1>10. CASE Trim \/ TrimFails
  <2>1. /\ pc[Worker] = "trim" /\ counter' = counter
        /\ victims' = victims \ {First(victims)}
        /\ pc'[Worker] = IF victims' = {} THEN "wait" ELSE "trim"
        /\ \/ DOMAIN files' = DOMAIN files \ {First(victims)} /\ spared' = spared
           \/ files' = files /\ spared' = spared \cup {First(victims)}
    BY <1>0, <1>10 DEF Trim, TrimFails, Goto
  <2>2. victims # {} /\ First(victims) \in victims
    BY <1>0, <2>1, FirstOf DEF Listed
  <2>3. victims' = {} => Kept' \subseteq Rest \ spared
    BY <2>1, <2>2 DEF Kept, Rest
  <2>4. IsFiniteSet(Rest \ spared) /\ Cardinality(Rest \ spared) <= RingSize
    <3>1. IsFiniteSet(Rest \ spared)
      BY <1>0, FS_Subset DEF Rest
    <3> QED
      BY <2>2, <3>1 DEF Listed
  <2>5. victims' = {} => Cardinality(Kept') <= RingSize
    <3>1. victims' = {} => Cardinality(Kept') <= Cardinality(Rest \ spared)
      BY <2>3, <2>4, FS_Subset
    <3> QED
      BY <1>0, <1>a, <2>4, <3>1, FS_CardinalityType
  <2> QED
    BY <1>7, <2>1, <2>5
<1>11. CASE Restart
  <2>1. pc'[Worker] = "wait" /\ counter' = 0
    BY <1>0, <1>11 DEF Restart, Threads
  <2> QED
    BY <2>1 DEF Ring
<1>12. ASSUME NEW t \in Takers, Take(t)
       PROVE  Ring'
  BY <1>1, <1>12, TakeStep DEF Elsewhere
<1> QED
  BY <1>1, <1>2, <1>3, <1>4, <1>5, <1>6, <1>8, <1>9, <1>10, <1>11, <1>12
     DEF Next, WorkerNext, CamPublish, Tick, vars

----------------------------------------------------------------------------
(* The theorems.                                                            *)

\* The parts of the inductive invariant hold in every state.
THEOREM InvariantAlways ==
  Spec => [](Basic /\ Owned /\ Mine /\ Ordered /\ Listed /\ Sound /\ Ring)
<1> DEFINE Inv == Basic /\ Owned /\ Mine /\ Ordered /\ Listed /\ Sound /\ Ring
<1>1. Init => Inv
  BY BasicInit, OwnedInit, MineInit, OrderedInit, ListedInit, SoundInit,
     RingInit
<1>2. Inv /\ [Next]_vars => Inv'
  BY BasicStep, OwnedStep, MineStep, OrderedStep, ListedStep, SoundStep,
     RingStep
<1> QED
  BY <1>1, <1>2, PTL DEF Spec

\* Every variable keeps its type, whatever fails; in particular the counter
\* never passes the number of frames.
THEOREM TypeCorrect == Spec => []TypeOK
<1>1. Basic => TypeOK
  BY DEF Basic, Typed
<1> QED
  BY <1>1, InvariantAlways, PTL

\* Without TAKE commands and a full disk, each closed picture of this process
\* is one frame, with memory that runs out, a buffer that moves and a process
\* that dies anywhere; and the fixed name never names anything else, as long
\* as no name has come again.
THEOREM PicturesAreWhole == Spec => []PicturesWhole
<1>1. Sound => PicturesWhole
  BY DEF Sound
<1> QED
  BY <1>1, InvariantAlways, PTL

\* Between two pictures the folder holds at most RingSize + Exceed of them,
\* those apart that scandir or unlink has failed on in the last maintenance.
THEOREM FolderBounded == Spec => []RingBounded
<1>1. Basic /\ Ring => RingBounded
  <2> SUFFICES ASSUME Basic, Ring, pc[Worker] = "wait", counter > 0
               PROVE  Cardinality(DOMAIN files \ spared) <= RingSize + Exceed
    BY DEF RingBounded
  <2>1. PICK k \in 0 .. Exceed : k = counter % (Exceed + 1)
    BY Numbers, Remainder
  <2>2. Cardinality(Kept) <= RingSize + k + 0
    BY <2>1 DEF Ring, Over
  <2>3. Cardinality(Kept) \in Nat
    BY FS_Subset, FS_CardinalityType DEF Basic, Typed, Kept
  <2> QED
    BY <2>1, <2>2, <2>3, Bounds DEF Kept
<1> QED
  BY <1>1, InvariantAlways, PTL

\* However the clock runs and wherever the process dies, maintenance leaves
\* RingSize pictures, and no process replaces a picture of its own; while the
\* clock names the pictures in their order it removes the ones taken first.
THEOREM OldestPicturesGo == Spec => OldestGoes
<1>1. Basic /\ Owned /\ Mine /\ Ordered /\ Listed /\ [Next]_vars => [Goes]_vars
  BY GoesStep
<1> QED
  BY <1>1, InvariantAlways, PTL DEF Spec, OldestGoes, Goes
=============================================================================
