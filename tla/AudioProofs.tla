---------------------------- MODULE AudioProofs ----------------------------
(***************************************************************************)
(* Both audio paths implement AudioPipe, for any operators and listeners,  *)
(* any chunks, any thresholds and any length of the queues.                *)
(***************************************************************************)
EXTENDS AudioMC, Integers, SequenceTheorems, TLAPS

----------------------------------------------------------------------------
(* Sequences that lose a run of their elements. *)

\* The parts of a concatenation.
LEMMA Parts ==
  ASSUME NEW S, NEW a \in Seq(S), NEW b \in Seq(S)
  PROVE  /\ a \o b \in Seq(S) /\ Len(a \o b) = Len(a) + Len(b)
         /\ SubSeq(a \o b, 1, Len(a)) = a
         /\ SubSeq(a \o b, Len(a) + 1, Len(a) + Len(b)) = b
<1> DEFINE s == a \o b
<1>1. PICK m \in Nat, n \in Nat : m = Len(a) /\ n = Len(b)
  OBVIOUS
<1>2. /\ s \in Seq(S) /\ Len(s) = m + n
      /\ \A i \in 1 .. m : s[i] = a[i]
      /\ \A i \in 1 .. n : s[m + i] = b[i]
      /\ \A i \in 1 .. m + n : s[i] \in S
  <2>1. /\ s \in Seq(S) /\ Len(s) = m + n
        /\ \A i \in 1 .. m + n : s[i] = IF i <= m THEN a[i] ELSE b[i - m]
    BY <1>1, ConcatProperties
  <2>2. \A i \in 1 .. n : m + i \in 1 .. m + n /\ ~(m + i <= m) /\ (m + i) - m = i
    OBVIOUS
  <2>3. \A i \in 1 .. m : i \in 1 .. m + n /\ i <= m
    OBVIOUS
  <2>4. \A i \in 1 .. m + n : s[i] \in S
    BY <2>1, ElementOfSeq
  <2> HIDE DEF s
  <2> QED BY <2>1, <2>2, <2>3, <2>4
<1> HIDE DEF s
<1>3. SubSeq(s, 1, m) = a
  <2>1. \A i \in 1 .. m : s[i] \in S
    BY <1>2
  <2>2. /\ SubSeq(s, 1, m) \in Seq(S) /\ Len(SubSeq(s, 1, m)) = m
        /\ \A i \in 1 .. m : SubSeq(s, 1, m)[i] = s[i]
    BY <2>1, SubSeqProperties
  <2> QED BY <1>1, <1>2, <2>2, SeqEqual
<1>4. SubSeq(s, m + 1, m + n) = b
  <2>1. \A i \in m + 1 .. m + n : s[i] \in S
    BY <1>2
  <2>2. /\ SubSeq(s, m + 1, m + n) \in Seq(S) /\ Len(SubSeq(s, m + 1, m + n)) = n
        /\ \A i \in 1 .. n : SubSeq(s, m + 1, m + n)[i] = s[m + i]
    <3>1. PICK k \in Int, h \in Int : k = m + 1 /\ h = m + n
      OBVIOUS
    <3>2. /\ SubSeq(s, k, h) \in Seq(S) /\ Len(SubSeq(s, k, h)) = (IF k <= h THEN h - k + 1 ELSE 0)
          /\ \A i \in 1 .. h - k + 1 : SubSeq(s, k, h)[i] = s[k + i - 1]
      BY <2>1, <3>1, SubSeqProperties
    <3>3. /\ h - k + 1 = n /\ (IF k <= h THEN h - k + 1 ELSE 0) = n
          /\ \A i \in 1 .. n : k + i - 1 = m + i
      BY <3>1
    <3> QED BY <3>1, <3>2, <3>3
  <2> DEFINE t == SubSeq(s, m + 1, m + n)
  <2> HIDE DEF t
  <2>3. t \in Seq(S) /\ Len(t) = n /\ \A i \in 1 .. n : t[i] = b[i]
    BY <1>2, <2>2 DEF t
  <2>4. t = b
    BY <1>1, <2>3, SeqEqual
  <2> QED BY <2>4 DEF t
<1> QED BY <1>1, <1>2, <1>3, <1>4 DEF s

\* A sequence t that is s without a run of its elements, as AudioPipe's Without
\* says it.
CutFrom(s, t) ==
  \E i, j \in DOMAIN s : t = SubSeq(s, 1, i - 1) \o SubSeq(s, j + 1, Len(s))

LEMMA Cut ==
  ASSUME NEW S, NEW a \in Seq(S), NEW b \in Seq(S), NEW c \in Seq(S), b # <<>>
  PROVE  CutFrom((a \o b) \o c, a \o c)
<1> DEFINE s == (a \o b) \o c
<1>1. PICK m \in Nat, n \in Nat, k \in Nat : m = Len(a) /\ n = Len(b) /\ k = Len(c) /\ n > 0
  BY EmptySeq
<1>2. a \o b \in Seq(S) /\ Len(a \o b) = m + n /\ b \o c \in Seq(S) /\ Len(b \o c) = n + k
  BY <1>1, Parts
<1>3. s \in Seq(S) /\ Len(s) = m + n + k /\ SubSeq(s, m + n + 1, m + n + k) = c
  <2>1. PICK d \in Seq(S) : d = a \o b /\ Len(d) = m + n
    BY <1>2
  <2>2. /\ d \o c \in Seq(S) /\ Len(d \o c) = Len(d) + Len(c)
        /\ SubSeq(d \o c, Len(d) + 1, Len(d) + Len(c)) = c
    BY Parts
  <2> QED BY <1>1, <2>1, <2>2
<1>4. s = a \o (b \o c)
  BY ConcatAssociative
<1>5. SubSeq(s, 1, m) = a
  BY <1>1, <1>2, <1>4, Parts
<1> HIDE DEF s
<1>6. DOMAIN s = 1 .. m + n + k
  BY <1>3
<1>7. m + 1 \in 1 .. m + n + k /\ m + n \in 1 .. m + n + k /\ (m + 1) - 1 = m
  BY <1>1
<1>8. a \o c = SubSeq(s, 1, (m + 1) - 1) \o SubSeq(s, m + n + 1, Len(s))
  BY <1>3, <1>5, <1>7
<1>9. CutFrom(s, a \o c)
  BY <1>6, <1>7, <1>8 DEF CutFrom
<1> QED BY <1>9 DEF s

\* A sequence and its first element.
LEMMA First ==
  ASSUME NEW S, NEW x \in S, NEW q \in Seq(S)
  PROVE  /\ <<x>> \in Seq(S) /\ <<x>> # <<>> /\ <<x>> \o q # <<>>
         /\ Head(<<x>> \o q) = x /\ Tail(<<x>> \o q) = q
<1> DEFINE s == <<x>> \o q
<1>1. /\ <<x>> \in Seq(S) /\ Len(<<x>>) = 1 /\ <<x>>[1] = x
  OBVIOUS
<1>2. /\ s \in Seq(S) /\ Len(s) = 1 + Len(q) /\ Len(q) \in Nat
      /\ \A i \in 1 .. 1 + Len(q) : s[i] = IF i <= 1 THEN <<x>>[i] ELSE q[i - 1]
  BY <1>1, ConcatProperties
<1> HIDE DEF s
<1>3. s # <<>> /\ s[1] = x /\ \A i \in 1 .. Len(q) : s[i + 1] = q[i]
  BY <1>1, <1>2
<1>4. Head(s) = x
  BY <1>2, <1>3
<1>5. Tail(s) = q
  <2>1. /\ Tail(s) \in Seq(S) /\ Len(Tail(s)) = Len(s) - 1
        /\ \A i \in 1 .. Len(Tail(s)) : Tail(s)[i] = s[i + 1]
    BY <1>2, <1>3, HeadTailProperties
  <2> QED BY <1>2, <1>3, <2>1, SeqEqual
<1> QED BY <1>1, <1>3, <1>4, <1>5 DEF s

LEMMA HeadFirst ==
  ASSUME NEW S, NEW q \in Seq(S), q # <<>>
  PROVE  Head(q) \in S /\ Tail(q) \in Seq(S) /\ q = <<Head(q)>> \o Tail(q)
<1> DEFINE s == <<Head(q)>> \o Tail(q)
<1>1. /\ Head(q) \in S /\ Tail(q) \in Seq(S) /\ Len(Tail(q)) = Len(q) - 1
      /\ \A i \in 1 .. Len(Tail(q)) : Tail(q)[i] = q[i + 1]
      /\ Len(q) \in Nat \ {0} /\ Head(q) = q[1]
  BY HeadTailProperties, EmptySeq
<1>2. /\ s \in Seq(S) /\ Len(s) = 1 + Len(Tail(q))
      /\ \A i \in 1 .. 1 + Len(Tail(q)) : s[i] = IF i <= 1 THEN Head(q) ELSE Tail(q)[i - 1]
  <2>1. <<Head(q)>> \in Seq(S) /\ Len(<<Head(q)>>) = 1 /\ <<Head(q)>>[1] = Head(q)
    BY <1>1
  <2> QED BY <1>1, <2>1, ConcatProperties
<1> HIDE DEF s
<1>3. Len(s) = Len(q) /\ \A i \in 1 .. Len(s) : s[i] = q[i]
  BY <1>1, <1>2
<1> QED BY <1>1, <1>2, <1>3, SeqEqual DEF s

\* An element added at the end.
LEMMA LastAdded ==
  ASSUME NEW S, NEW a \in Seq(S), NEW b \in Seq(S), NEW x \in S
  PROVE  a \o Append(b, x) = Append(a \o b, x)
<1>1. Append(b, x) = b \o <<x>> /\ a \o b \in Seq(S) /\ <<x>> \in Seq(S)
  BY AppendIsConcat, ConcatProperties
<1>2. Append(a \o b, x) = (a \o b) \o <<x>>
  BY <1>1, AppendIsConcat
<1> QED BY <1>1, <1>2, ConcatAssociative

----------------------------------------------------------------------------
(* The operator's voice. *)

\* A chunk is in the pump's hand exactly while it writes, and the null sink and
\* a device that is gone hold none.
TxInv ==
  /\ TxTypeOK
  /\ pc = "write" <=> hand # NoChunk
  /\ pc = "write" => fed < MaxChunks
  /\ sink \in {"null", "gone"} => device = <<>>

LEMMA NoChunkIsNone == NoChunk \notin Chunk
BY DEF NoChunk, Chunk

\* The target stays between its floor and its ceiling.
LEMMA TargetKept ==
  ASSUME target \in Floor .. Ceil, fresh \in BOOLEAN, quiet \in BOOLEAN, Retarget
  PROVE  target' \in Floor .. Ceil /\ fresh' \in BOOLEAN /\ quiet' \in BOOLEAN
<1>1. /\ Floor \in Nat /\ Ceil \in Nat /\ Floor <= Ceil /\ Grow \in Nat /\ Decay \in Nat
  BY TxAssumption
<1>2. CASE fresh
  <2>1. target' = Least(target + Grow, Ceil) /\ fresh' = FALSE /\ quiet' = TRUE
    BY <1>2, Zenon DEF Retarget
  <2>2. Least(target + Grow, Ceil) \in Floor .. Ceil
    BY <1>1 DEF Least
  <2> QED BY <2>1, <2>2
<1>3. CASE ~fresh
  <2>1. /\ fresh' = fresh /\ quiet' = quiet
        /\ \/ target' = target
           \/ target' = IF target > Floor + Decay THEN target - Decay ELSE Floor
    BY <1>3, Zenon DEF Retarget
  <2> QED BY <1>1, <2>1
<1> QED BY <1>2, <1>3

LEMMA TxInvKept ==
  ASSUME TxInv, TxNext PROVE TxInv'
<1>0. /\ holder \in Operators \cup {None}
      /\ queue \in Seq(Chunk) /\ Len(queue) <= MaxQueue
      /\ pc \in {"sleep", "feed", "write"} /\ fed \in 0 .. MaxChunks
      /\ hand \in Chunk \cup {NoChunk} /\ target \in Floor .. Ceil
      /\ prerolled \in BOOLEAN /\ fresh \in BOOLEAN /\ quiet \in BOOLEAN
      /\ sink \in {"null", "prepared", "running", "dry", "gone"}
      /\ device \in Seq(Chunk) /\ Len(device) <= Buffer
      /\ heard \in Chunk \cup {NoChunk}
      /\ MaxChunks \in Nat /\ Buffer \in Nat /\ MaxQueue \in Nat
      /\ pc = "write" <=> hand # NoChunk
      /\ pc = "write" => fed < MaxChunks
      /\ sink \in {"null", "gone"} => device = <<>>
  <2>1. MaxChunks \in Nat /\ Buffer \in Nat /\ MaxQueue \in Nat
    BY TxAssumption
  <2> QED BY <2>1 DEF TxInv, TxTypeOK
<1>a. ASSUME NEW o \in Operators, Claim(o) PROVE TxInv'
  BY <1>0, <1>a DEF Claim, pumpVars, deviceVars, TxInv, TxTypeOK
<1>1. CASE Release
  <2>1. queue' = <<>> /\ <<>> \in Seq(Chunk) /\ Len(<<>>) <= MaxQueue
    BY <1>0, <1>1 DEF Release
  <2> QED BY <1>0, <1>1, <2>1 DEF Release, pumpVars, deviceVars, TxInv, TxTypeOK
<1>2. ASSUME NEW keyed \in BOOLEAN, NEW x \in Chunk, Accept(keyed, x)
      PROVE  TxInv'
  <2>1. \/ queue' = Append(queue, x)
        \/ Len(queue) >= Capacity /\ queue' = Append(Tail(queue), x)
    BY <1>2 DEF Accept
  <2>2. queue' \in Seq(Chunk) /\ Len(queue') <= MaxQueue
    <3>1. Len(queue) >= Capacity => Tail(queue) \in Seq(Chunk)
      BY <1>0, TxAssumption
    <3> QED BY <1>0, <1>2, <2>1, <3>1 DEF Accept, Said
  <2> QED BY <1>0, <1>2, <2>2 DEF Accept, Said, pumpVars, deviceVars, TxInv, TxTypeOK
<1>3. CASE PumpBegins
  <2>1. target' \in Floor .. Ceil /\ fresh' \in BOOLEAN /\ quiet' \in BOOLEAN
    BY <1>0, <1>3, TargetKept DEF PumpBegins
  <2>2. /\ pc = "sleep" /\ pc' \in {"sleep", "feed"} /\ prerolled' \in BOOLEAN /\ fed' = 0
        /\ UNCHANGED <<hand, holder, queue, sink, device, heard>>
    <3>1. /\ pc = "sleep" /\ fed' = 0 /\ UNCHANGED <<hand, hostVars, deviceVars>>
          /\ \/ prerolled' = (prerolled /\ ~fresh) /\ pc' = "feed"
             \/ prerolled' = (Len(queue) >= Need) /\ pc' \in {"sleep", "feed"}
      BY <1>3, Zenon DEF PumpBegins
    <3>2. prerolled' \in BOOLEAN
      <4>1. (prerolled /\ ~fresh) \in BOOLEAN /\ (Len(queue) >= Need) \in BOOLEAN
        OBVIOUS
      <4> QED BY <3>1, <4>1, Zenon
    <3> QED BY <1>0, <3>1, <3>2 DEF hostVars, deviceVars
  <2> QED BY <1>0, <2>1, <2>2 DEF TxInv, TxTypeOK
<1>4. CASE PumpPops
  <2>1. Head(queue) \in Chunk /\ Tail(queue) \in Seq(Chunk) /\ Len(Tail(queue)) <= MaxQueue
    BY <1>0, <1>4, HeadTailProperties DEF PumpPops
  <2> QED BY <1>0, <1>4, <2>1, NoChunkIsNone DEF PumpPops, deviceVars, TxInv, TxTypeOK
<1>5. CASE PumpEnds
  BY <1>0, <1>5 DEF PumpEnds, hostVars, deviceVars, TxInv, TxTypeOK
<1>6. CASE WriteNull \/ WriteFails
  BY <1>0, <1>6 DEF WriteNull, WriteFails, Written, hostVars, deviceVars, TxInv, TxTypeOK
<1>7. CASE WriteDevice
  <2>1. hand \in Chunk /\ fed < MaxChunks
    BY <1>0, <1>7 DEF WriteDevice, TxInv
  <2>2. device' \in Seq(Chunk) /\ Len(device') <= Buffer
    BY <1>0, <1>7, <2>1 DEF WriteDevice
  <2>3. sink' \in {"prepared", "running"}
    BY <1>7 DEF WriteDevice
  <2> QED BY <1>0, <1>7, <2>1, <2>2, <2>3 DEF WriteDevice, Written, hostVars, TxInv, TxTypeOK
<1>8. CASE WriteRecovers
  BY <1>0, <1>8 DEF WriteRecovers, hostVars, TxInv, TxTypeOK
<1>9. CASE Plays
  <2>1. Head(device) \in Chunk /\ Tail(device) \in Seq(Chunk) /\ Len(Tail(device)) <= Buffer
    BY <1>0, <1>9, HeadTailProperties DEF Plays
  <2> QED BY <1>0, <1>9, <2>1 DEF Plays, hostVars, pumpVars, TxInv, TxTypeOK
<1>10. CASE RunsDry
  BY <1>0, <1>10 DEF RunsDry, hostVars, pumpVars, TxInv, TxTypeOK
<1>11. CASE Unplugged
  <2>1. device' = <<>> /\ <<>> \in Seq(Chunk) /\ Len(<<>>) <= Buffer
    BY <1>0, <1>11 DEF Unplugged
  <2> QED BY <1>0, <1>11, <2>1 DEF Unplugged, hostVars, pumpVars, TxInv, TxTypeOK
<1> QED
  BY <1>a, <1>1, <1>2, <1>3, <1>4, <1>5, <1>6, <1>7, <1>8, <1>9, <1>10, <1>11
  DEF TxNext, Speaks, Pump

\* What is on its way to the air loses the run in its middle.
LEMMA TxLoses ==
  ASSUME NEW a \in Seq(Chunk), NEW b \in Seq(Chunk), NEW c \in Seq(Chunk), b # <<>>,
         Transit = (a \o b) \o c
  PROVE  a \o c \in TxPipe!Kept
<1>1. CutFrom(Transit, a \o c)
  BY Cut
<1>2. PICK i \in DOMAIN Transit, j \in DOMAIN Transit :
        a \o c = SubSeq(Transit, 1, i - 1) \o SubSeq(Transit, j + 1, Len(Transit))
  BY <1>1, Zenon DEF CutFrom
<1>3. a \o c = TxPipe!Without(i, j)
  BY <1>2, Zenon DEF TxPipe!Without
<1> QED BY <1>3, SMT DEF TxPipe!Kept

\* Every step of the transmit path is one of the pipe's, or none.
LEMMA TxStep ==
  ASSUME TxInv, TxNext PROVE TxPipe!Next \/ UNCHANGED <<Transit, heard>>
<1> DEFINE D == device
<1> DEFINE H == InHand
<1> DEFINE Q == queue
<1>0. /\ D \in Seq(Chunk) /\ H \in Seq(Chunk) /\ Q \in Seq(Chunk) /\ <<>> \in Seq(Chunk)
      /\ Transit = (D \o H) \o Q /\ D \o H \in Seq(Chunk) /\ Transit \in Seq(Chunk)
  <2>1. D \in Seq(Chunk) /\ H \in Seq(Chunk) /\ Q \in Seq(Chunk)
    BY DEF TxInv, TxTypeOK, InHand
  <2> QED BY <2>1, ConcatProperties DEF Transit
<1>a. Transit \in TxPipe!Kept
  BY DEF TxPipe!Kept
<1>1. CASE \/ \E o \in Operators : Claim(o)
           \/ PumpBegins \/ PumpEnds \/ WriteRecovers \/ RunsDry
  <2>1. UNCHANGED <<device, hand, queue, heard>>
    BY <1>1 DEF Claim, PumpBegins, PumpEnds, WriteRecovers, RunsDry, pumpVars, deviceVars, hostVars
  <2> QED BY <2>1 DEF Transit, InHand
<1>2. CASE Release
  <2>1. queue' = <<>> /\ UNCHANGED <<device, hand, heard>>
    BY <1>2 DEF Release, pumpVars, deviceVars
  <2>2. Transit' = (D \o H) \o <<>>
    BY <2>1 DEF Transit, InHand
  <2>3. CASE Q = <<>>
    BY <1>0, <2>1, <2>2, <2>3
  <2>4. CASE Q # <<>>
    <3>1. Transit = ((D \o H) \o Q) \o <<>>
      BY <1>0, ConcatEmptySeq
    <3>2. Transit' \in TxPipe!Kept
      BY <1>0, <2>2, <2>4, <3>1, TxLoses
    <3> QED BY <2>1, <3>2 DEF TxPipe!Next, TxPipe!Lose
  <2> QED BY <2>3, <2>4
<1>3. ASSUME NEW keyed \in BOOLEAN, NEW x \in Chunk, Accept(keyed, x)
      PROVE  TxPipe!Next
  <2>1. x \in Chunk
    BY <1>3
  <2>2. /\ \/ queue' = Append(Q, x)
           \/ Len(Q) >= Capacity /\ queue' = Append(Tail(Q), x)
        /\ UNCHANGED <<device, hand, heard>>
    BY <1>3 DEF Accept, Said, pumpVars, deviceVars
  <2>3. \E k \in TxPipe!Kept : Transit' = Append(k, x)
    <3>1. CASE queue' = Append(Q, x)
      <4>1. Transit' = (D \o H) \o Append(Q, x)
        BY <2>2, <3>1 DEF Transit, InHand
      <4>2. Transit' = Append((D \o H) \o Q, x)
        BY <1>0, <2>1, <4>1, LastAdded
      <4> QED BY <1>0, <1>a, <4>2
    <3>2. CASE Len(Q) >= Capacity /\ queue' = Append(Tail(Q), x)
      <4>1. Q # <<>>
        BY <1>0, <3>2, TxAssumption
      <4>2. PICK h \in Chunk, T \in Seq(Chunk) : T = Tail(Q) /\ Q = <<h>> \o T
        BY <1>0, <4>1, HeadFirst
      <4>3. <<h>> \in Seq(Chunk) /\ <<h>> # <<>>
        BY First
      <4>4. Transit = ((D \o H) \o <<h>>) \o T
        <5>1. PICK d \in Seq(Chunk), e \in Seq(Chunk) : d = D \o H /\ e = <<h>>
          BY <1>0, <4>3
        <5>2. Transit = d \o (e \o T)
          BY <1>0, <4>2, <5>1
        <5>3. (d \o e) \o T = d \o (e \o T)
          BY ConcatAssociative
        <5> QED BY <5>1, <5>2, <5>3
      <4>5. (D \o H) \o T \in TxPipe!Kept
        BY <1>0, <4>3, <4>4, TxLoses
      <4>6. Transit' = (D \o H) \o Append(T, x)
        BY <2>2, <3>2, <4>2 DEF Transit, InHand
      <4>7. Transit' = Append((D \o H) \o T, x)
        BY <1>0, <2>1, <4>6, LastAdded
      <4> QED BY <4>5, <4>7
    <3> QED BY <2>2, <3>1, <3>2
  <2> QED BY <2>1, <2>2, <2>3 DEF TxPipe!Next, TxPipe!Put
<1>4. CASE PumpPops
  <2>1. /\ Q # <<>> /\ H = <<>> /\ hand' = Head(Q) /\ queue' = Tail(Q)
        /\ UNCHANGED <<device, heard>>
    BY <1>4 DEF PumpPops, deviceVars, InHand, TxInv
  <2>2. PICK h \in Chunk, T \in Seq(Chunk) : h = Head(Q) /\ T = Tail(Q) /\ Q = <<h>> \o T
    BY <1>0, <2>1, HeadFirst
  <2>3. InHand' = <<h>> /\ <<h>> \in Seq(Chunk)
    BY <2>1, <2>2, NoChunkIsNone DEF InHand
  <2>4. Transit' = (D \o <<h>>) \o T
    BY <2>1, <2>2, <2>3 DEF Transit
  <2>5. Transit = D \o (<<h>> \o T)
    <3>1. D \o H = D
      BY <1>0, <2>1, ConcatEmptySeq
    <3> QED BY <1>0, <2>2, <3>1
  <2>6. Transit' = Transit
    BY <1>0, <2>3, <2>4, <2>5, ConcatAssociative
  <2> QED BY <2>1, <2>6
<1>5. CASE WriteNull
  <2>1. /\ D = <<>> /\ H = <<hand>> /\ hand \in Chunk /\ heard' = hand /\ InHand' = <<>>
        /\ UNCHANGED <<device, queue>>
    BY <1>5 DEF WriteNull, Written, hostVars, InHand, TxInv, TxTypeOK
  <2>2. Transit = <<hand>> \o Q
    BY <1>0, <2>1, ConcatEmptySeq
  <2>3. Transit' = Q
    BY <1>0, <2>1, ConcatEmptySeq DEF Transit
  <2> QED BY <1>0, <2>1, <2>2, <2>3, First DEF TxPipe!Next, TxPipe!Hear
<1>6. CASE WriteDevice
  <2>1. /\ H = <<hand>> /\ hand \in Chunk /\ InHand' = <<>> /\ device' = Append(D, hand)
        /\ UNCHANGED <<heard, queue>>
    BY <1>6 DEF WriteDevice, Written, hostVars, InHand, TxInv, TxTypeOK
  <2>2. device' = D \o H
    BY <1>0, <2>1, AppendIsConcat
  <2>3. Transit' = (D \o H) \o Q
    BY <1>0, <2>1, <2>2, ConcatEmptySeq DEF Transit
  <2> QED BY <1>0, <2>1, <2>3
<1>7. CASE WriteFails
  <2>1. /\ D = <<>> /\ H = <<hand>> /\ hand \in Chunk /\ InHand' = <<>>
        /\ UNCHANGED <<device, queue, heard>>
    BY <1>7 DEF WriteFails, hostVars, deviceVars, InHand, TxInv, TxTypeOK
  <2>2. H # <<>> /\ Transit = (<<>> \o H) \o Q
    BY <1>0, <2>1
  <2>3. Transit' = <<>> \o Q
    BY <1>0, <2>1, ConcatEmptySeq DEF Transit
  <2>4. Transit' \in TxPipe!Kept
    BY <1>0, <2>2, <2>3, TxLoses
  <2> QED BY <2>1, <2>4 DEF TxPipe!Next, TxPipe!Lose
<1>8. CASE Plays
  <2>1. /\ D # <<>> /\ heard' = Head(D) /\ device' = Tail(D) /\ UNCHANGED <<hand, queue>>
    BY <1>8 DEF Plays, pumpVars, hostVars
  <2>2. Head(D) \in Chunk /\ Tail(D) \in Seq(Chunk) /\ D = <<Head(D)>> \o Tail(D)
        /\ <<Head(D)>> \in Seq(Chunk)
    BY <1>0, <2>1, HeadFirst, First
  <2> DEFINE T == Tail(D) \o H
  <2>3. D \o H = <<Head(D)>> \o T /\ T \in Seq(Chunk)
    BY <1>0, <2>2, ConcatAssociative, ConcatProperties
  <2>4. Transit = <<Head(D)>> \o (T \o Q) /\ T \o Q \in Seq(Chunk)
    <3>1. Transit = (<<Head(D)>> \o T) \o Q
      BY <1>0, <2>3
    <3>2. <<Head(D)>> \in Seq(Chunk) /\ T \in Seq(Chunk) /\ Q \in Seq(Chunk)
      BY <1>0, <2>2, <2>3
    <3> HIDE DEF T
    <3>3. (<<Head(D)>> \o T) \o Q = <<Head(D)>> \o (T \o Q) /\ T \o Q \in Seq(Chunk)
      BY <3>2, ConcatAssociative, ConcatProperties
    <3> QED BY <3>1, <3>3
  <2>5. Transit' = T \o Q
    BY <2>1 DEF Transit, InHand
  <2> HIDE DEF T
  <2>6. Transit # <<>> /\ heard' = Head(Transit) /\ Transit' = Tail(Transit)
    BY <2>1, <2>2, <2>4, <2>5, First
  <2> QED BY <2>6 DEF TxPipe!Next, TxPipe!Hear
<1>9. CASE Unplugged
  <2>1. device' = <<>> /\ UNCHANGED <<hand, queue, heard>>
    BY <1>9 DEF Unplugged, pumpVars, hostVars
  <2>2. CASE D = <<>>
    BY <2>1, <2>2 DEF Transit, InHand
  <2>3. CASE D # <<>>
    <3>1. H \o Q \in Seq(Chunk)
      BY <1>0, ConcatProperties
    <3>2. Transit = (<<>> \o D) \o (H \o Q)
      <4>1. <<>> \o D = D
        BY <1>0, ConcatEmptySeq
      <4>2. (D \o H) \o Q = D \o (H \o Q)
        <5>1. D \in Seq(Chunk) /\ H \in Seq(Chunk) /\ Q \in Seq(Chunk)
          BY <1>0
        <5> HIDE DEF D, H, Q
        <5> QED BY <5>1, ConcatAssociative
      <4> QED BY <1>0, <4>1, <4>2
    <3>3. Transit' = <<>> \o (H \o Q)
      <4>1. Transit' = (<<>> \o H) \o Q
        BY <2>1 DEF Transit, InHand
      <4> QED BY <1>0, <4>1, ConcatAssociative
    <3>4. Transit' \in TxPipe!Kept
      BY <1>0, <2>3, <3>1, <3>2, <3>3, TxLoses
    <3> QED BY <2>1, <3>4 DEF TxPipe!Next, TxPipe!Lose
  <2> QED BY <2>2, <2>3
<1> QED
  BY <1>1, <1>2, <1>3, <1>4, <1>5, <1>6, <1>7, <1>8, <1>9 DEF TxNext, Speaks, Pump

----------------------------------------------------------------------------
(* The band to the listeners. *)

Among(c, s) == \E i \in DOMAIN s : s[i] = c
Once(s) == \A i, j \in DOMAIN s : s[i] = s[j] => i = j

\* Lengths by name, for the arithmetic.
IsTail(S, q, t, n) ==
  /\ t = Tail(q) /\ Len(t) = n /\ Len(q) = n + 1 /\ Len(t) = Len(q) - 1
  /\ DOMAIN t = 1 .. n /\ DOMAIN q = 1 .. n + 1
  /\ Head(q) = q[1] /\ q[1] \in S
  /\ \A i \in 1 .. n : t[i] = q[i + 1] /\ i + 1 \in 1 .. n + 1

LEMMA TailIs ==
  ASSUME NEW S, NEW q \in Seq(S), q # <<>>
  PROVE  \E n \in Nat, t \in Seq(S) : IsTail(S, q, t, n)
<1>1. PICK k \in Nat \ {0} : Len(q) = k
  BY EmptySeq
<1>2. PICK n \in Nat : k = n + 1 /\ k - 1 = n
  <2>1. k - 1 \in Nat /\ k = (k - 1) + 1
    OBVIOUS
  <2> QED BY <2>1
<1>3. PICK t \in Seq(S) : t = Tail(q) /\ Len(t) = k - 1 /\ \A i \in 1 .. Len(t) : t[i] = q[i + 1]
  BY <1>1, HeadTailProperties
<1>4. Len(t) = n /\ \A i \in 1 .. n : i + 1 \in 1 .. n + 1
  BY <1>2, <1>3
<1>5. Head(q) = q[1] /\ q[1] \in S
  BY HeadTailProperties
<1>6. Len(t) = Len(q) - 1
  BY <1>1, <1>3
<1>7. Len(q) = n + 1 /\ DOMAIN t = 1 .. n /\ DOMAIN q = 1 .. n + 1
  BY <1>1, <1>2, <1>4
<1>8. \A i \in 1 .. n : t[i] = q[i + 1]
  BY <1>3, <1>4
<1> QED BY <1>3, <1>4, <1>5, <1>6, <1>7, <1>8 DEF IsTail

IsAppend(q, x, t, n) ==
  /\ t = Append(q, x) /\ Len(t) = n + 1 /\ Len(q) = n
  /\ DOMAIN t = 1 .. n + 1 /\ DOMAIN q = 1 .. n
  /\ t[n + 1] = x /\ n + 1 \in 1 .. n + 1
  /\ \A i \in 1 .. n : t[i] = q[i] /\ i \in 1 .. n + 1
  /\ \A i \in 1 .. n + 1 : i \in 1 .. n \/ i = n + 1

LEMMA AppendIs ==
  ASSUME NEW S, NEW q \in Seq(S), NEW x \in S
  PROVE  \E n \in Nat, t \in Seq(S) : IsAppend(q, x, t, n)
<1>1. PICK n \in Nat : Len(q) = n
  OBVIOUS
<1>2. PICK t \in Seq(S) :
        /\ t = Append(q, x) /\ Len(t) = Len(q) + 1 /\ t[Len(q) + 1] = x
        /\ \A i \in 1 .. Len(q) : t[i] = q[i]
  <2>1. /\ Append(q, x) \in Seq(S) /\ Len(Append(q, x)) = Len(q) + 1
        /\ Append(q, x)[Len(q) + 1] = x
        /\ \A i \in 1 .. Len(q) : Append(q, x)[i] = q[i]
    OBVIOUS
  <2> QED BY <2>1
<1>3. n + 1 \in 1 .. n + 1 /\ \A i \in 1 .. n : i \in 1 .. n + 1
  OBVIOUS
<1>4. \A i \in 1 .. n + 1 : i \in 1 .. n \/ i = n + 1
  OBVIOUS
<1>5. Len(t) = n + 1 /\ DOMAIN t = 1 .. n + 1 /\ DOMAIN q = 1 .. n
  BY <1>1, <1>2
<1> QED BY <1>1, <1>2, <1>3, <1>4, <1>5 DEF IsAppend

LEMMA OnceTail ==
  ASSUME NEW S, NEW q \in Seq(S), q # <<>>, Once(q)
  PROVE  /\ Head(q) \in S /\ Tail(q) \in Seq(S) /\ Once(Tail(q))
         /\ \A c : Among(c, q) <=> (c = Head(q) \/ Among(c, Tail(q)))
         /\ ~Among(Head(q), Tail(q))
<1>1. PICK n \in Nat, t \in Seq(S) :
        /\ t = Tail(q) /\ DOMAIN t = 1 .. n /\ DOMAIN q = 1 .. n + 1
        /\ Head(q) = q[1] /\ q[1] \in S
        /\ \A i \in 1 .. n : t[i] = q[i + 1] /\ i + 1 \in 1 .. n + 1
  <2>1. PICK n \in Nat, t \in Seq(S) : IsTail(S, q, t, n)
    BY TailIs
  <2> QED BY <2>1 DEF IsTail
<1>2. 1 \in 1 .. n + 1 /\ \A i, j \in 1 .. n : i + 1 # 1 /\ (i + 1 = j + 1 => i = j)
  OBVIOUS
<1>3. Once(t)
  <2> SUFFICES ASSUME NEW i \in 1 .. n, NEW j \in 1 .. n, t[i] = t[j] PROVE i = j
    BY <1>1 DEF Once
  <2>1. q[i + 1] = q[j + 1]
    BY <1>1
  <2>2. i + 1 = j + 1
    BY <1>1, <2>1 DEF Once
  <2> QED BY <1>2, <2>2
<1>4. ASSUME NEW c PROVE Among(c, q) <=> (c = q[1] \/ Among(c, t))
  <2>1. ASSUME NEW i \in 1 .. n + 1, q[i] = c, c # q[1] PROVE Among(c, t)
    <3>1. i - 1 \in 1 .. n /\ (i - 1) + 1 = i
      <4>1. i # 1
        BY <2>1
      <4> QED BY <4>1
    <3>2. t[i - 1] = c
      BY <1>1, <2>1, <3>1
    <3> QED BY <1>1, <3>1, <3>2 DEF Among
  <2>2. ASSUME NEW i \in 1 .. n, t[i] = c PROVE Among(c, q)
    BY <1>1, <2>2 DEF Among
  <2>3. Among(q[1], q)
    BY <1>1, <1>2 DEF Among
  <2>4. Among(c, t) => Among(c, q)
    BY <1>1, <2>2 DEF Among
  <2>5. Among(c, q) /\ c # q[1] => Among(c, t)
    BY <1>1, <2>1 DEF Among
  <2> QED BY <2>3, <2>4, <2>5
<1>5. ~Among(q[1], t)
  BY <1>1, <1>2 DEF Among, Once
<1> QED BY <1>1, <1>3, <1>4, <1>5

LEMMA OnceAppend ==
  ASSUME NEW S, NEW q \in Seq(S), Once(q), NEW x \in S, ~Among(x, q)
  PROVE  /\ Append(q, x) \in Seq(S) /\ Once(Append(q, x))
         /\ \A c : Among(c, Append(q, x)) <=> (Among(c, q) \/ c = x)
<1>1. PICK n \in Nat, t \in Seq(S) :
        /\ t = Append(q, x) /\ DOMAIN t = 1 .. n + 1 /\ DOMAIN q = 1 .. n
        /\ t[n + 1] = x /\ n + 1 \in 1 .. n + 1
        /\ \A i \in 1 .. n : t[i] = q[i] /\ i \in 1 .. n + 1
        /\ \A i \in 1 .. n + 1 : i \in 1 .. n \/ i = n + 1
  <2>1. PICK n \in Nat, t \in Seq(S) : IsAppend(q, x, t, n)
    BY AppendIs
  <2> QED BY <2>1 DEF IsAppend
<1>2. Once(t)
  BY <1>1 DEF Once, Among
<1>3. \A c : Among(c, t) <=> (Among(c, q) \/ c = x)
  BY <1>1 DEF Among
<1> QED BY <1>1, <1>2, <1>3

LEMMA OnceRemoved ==
  ASSUME NEW S, NEW q \in Seq(S), Once(q), NEW k \in DOMAIN q
  PROVE  LET t == SubSeq(q, 1, k - 1) \o SubSeq(q, k + 1, Len(q)) IN
         t \in Seq(S) /\ Once(t) /\ \A c : Among(c, t) => Among(c, q) /\ c # q[k]
<1> DEFINE r == SubSeq(q, 1, k - 1) \o SubSeq(q, k + 1, Len(q))
<1>1. PICK n \in Nat, m \in Nat :
        Len(q) = n /\ DOMAIN q = 1 .. n /\ k = m + 1 /\ k - 1 = m /\ k \in 1 .. n /\ k \in Nat
  <2>1. PICK n \in Nat : Len(q) = n /\ DOMAIN q = 1 .. n
    OBVIOUS
  <2>2. k \in 1 .. n /\ k - 1 \in Nat /\ k = (k - 1) + 1
    BY <2>1
  <2> QED BY <2>1, <2>2
<1>2. PICK h \in Nat : n = k + h /\ n - k = h
  <2>1. n - k \in Nat /\ n = k + (n - k)
    BY <1>1
  <2> QED BY <2>1
<1>3. \A i \in 1 .. n : q[i] \in S
  BY <1>1, ElementOfSeq
<1>4. PICK a \in Seq(S) : a = SubSeq(q, 1, k - 1) /\ Len(a) = m /\ \A i \in 1 .. m : a[i] = q[i]
  <2>1. \A i \in 1 .. m : q[i] \in S
    BY <1>1, <1>3
  <2>2. /\ SubSeq(q, 1, m) \in Seq(S) /\ Len(SubSeq(q, 1, m)) = (IF 1 <= m THEN m - 1 + 1 ELSE 0)
        /\ \A i \in 1 .. m - 1 + 1 : SubSeq(q, 1, m)[i] = q[1 + i - 1]
    BY <2>1, SubSeqProperties
  <2>3. /\ m - 1 + 1 = m /\ (IF 1 <= m THEN m - 1 + 1 ELSE 0) = m
        /\ \A i \in 1 .. m : 1 + i - 1 = i
    OBVIOUS
  <2> QED BY <1>1, <2>2, <2>3
<1>5. PICK b \in Seq(S) :
        b = SubSeq(q, k + 1, Len(q)) /\ Len(b) = h /\ \A i \in 1 .. h : b[i] = q[k + i]
  <2>1. PICK g \in Int, e \in Int : g = k + 1 /\ e = n
    BY <1>1
  <2>2. \A i \in g .. e : q[i] \in S
    BY <1>1, <1>3, <2>1
  <2>3. /\ SubSeq(q, g, e) \in Seq(S) /\ Len(SubSeq(q, g, e)) = (IF g <= e THEN e - g + 1 ELSE 0)
        /\ \A i \in 1 .. e - g + 1 : SubSeq(q, g, e)[i] = q[g + i - 1]
    BY <2>2, SubSeqProperties
  <2>4. e - g + 1 = h /\ (IF g <= e THEN e - g + 1 ELSE 0) = h
    BY <1>1, <1>2, <2>1
  <2>5. \A i \in 1 .. h : g + i - 1 = k + i
    BY <1>1, <2>1
  <2>6. PICK d \in Seq(S) :
          /\ d = SubSeq(q, g, e) /\ Len(d) = h
          /\ \A i \in 1 .. e - g + 1 : d[i] = q[g + i - 1]
    BY <2>3, <2>4
  <2>7. \A i \in 1 .. h : d[i] = q[k + i]
    BY <2>4, <2>5, <2>6
  <2> QED BY <1>1, <2>1, <2>6, <2>7
<1>6. PICK t \in Seq(S) :
        /\ t = r /\ Len(t) = m + h
        /\ \A i \in 1 .. m + h : t[i] = IF i <= m THEN a[i] ELSE b[i - m]
  <2>1. PICK t : t = a \o b
    OBVIOUS
  <2>2. /\ t \in Seq(S) /\ Len(t) = Len(a) + Len(b)
        /\ \A i \in 1 .. Len(a) + Len(b) : t[i] = IF i <= Len(a) THEN a[i] ELSE b[i - Len(a)]
    BY <2>1, ConcatProperties
  <2>3. /\ Len(t) = m + h
        /\ \A i \in 1 .. m + h : t[i] = IF i <= m THEN a[i] ELSE b[i - m]
    BY <1>4, <1>5, <2>2
  <2> QED BY <1>4, <1>5, <2>1, <2>2, <2>3
<1> HIDE DEF r
<1>7. DOMAIN t = 1 .. m + h
  BY <1>6
<1> DEFINE at(i) == IF i <= m THEN i ELSE i + 1
<1>8. ASSUME NEW i \in 1 .. m + h
      PROVE  at(i) \in 1 .. n /\ at(i) # k /\ t[i] = q[at(i)]
  <2>1. CASE i <= m
    <3>1. i \in 1 .. m /\ i \in 1 .. n /\ i # k
      BY <1>1, <1>2, <2>1
    <3> QED BY <1>4, <1>6, <2>1, <3>1
  <2>2. CASE ~(i <= m)
    <3>1. i - m \in 1 .. h /\ k + (i - m) = i + 1 /\ i + 1 \in 1 .. n /\ i + 1 # k
      BY <1>1, <1>2, <2>2
    <3>2. t[i] = b[i - m] /\ b[i - m] = q[k + (i - m)]
      BY <1>5, <1>6, <2>2, <3>1
    <3> QED BY <2>2, <3>1, <3>2
  <2> QED BY <2>1, <2>2
<1>9. \A i, j \in 1 .. m + h : at(i) = at(j) => i = j
  OBVIOUS
<1> HIDE DEF at
<1>10. Once(t)
  BY <1>1, <1>7, <1>8, <1>9 DEF Once
<1>11. \A c : Among(c, t) => Among(c, q) /\ c # q[k]
  BY <1>1, <1>7, <1>8 DEF Once, Among
<1> QED BY <1>6, <1>10, <1>11 DEF r

\* The chunks of the queue, without their ages.
Frames == [what : Chunks, age : Nat]
Whats(q) == [i \in DOMAIN q |-> q[i].what]

LEMMA WhatsOf ==
  ASSUME NEW q \in Seq(Frames)
  PROVE  Whats(q) \in Seq(Chunks) /\ Len(Whats(q)) = Len(q)
<1>1. PICK n \in Nat : n = Len(q) /\ DOMAIN q = 1 .. n
  OBVIOUS
<1>2. \A i \in 1 .. n : q[i].what \in Chunks
  <2>1. \A i \in 1 .. n : q[i] \in Frames
    BY <1>1, ElementOfSeq
  <2> QED BY <2>1 DEF Frames
<1>3. Whats(q) \in [1 .. n -> Chunks]
  BY <1>1, <1>2 DEF Whats
<1> QED BY <1>1, <1>3

LEMMA WhatsAppend ==
  ASSUME NEW q \in Seq(Frames), NEW x \in Frames
  PROVE  Append(q, x) \in Seq(Frames) /\ Whats(Append(q, x)) = Append(Whats(q), x.what)
<1>1. PICK n \in Nat, t \in Seq(Frames) :
        /\ t = Append(q, x) /\ Len(t) = n + 1 /\ Len(q) = n
        /\ DOMAIN t = 1 .. n + 1 /\ DOMAIN q = 1 .. n /\ t[n + 1] = x
        /\ \A i \in 1 .. n : t[i] = q[i] /\ i \in 1 .. n + 1
        /\ \A i \in 1 .. n + 1 : i \in 1 .. n \/ i = n + 1
  <2>1. PICK n \in Nat, t \in Seq(Frames) : IsAppend(q, x, t, n)
    BY AppendIs
  <2> QED BY <2>1 DEF IsAppend
<1>2. PICK w \in Seq(Chunks), v \in Seq(Chunks) :
        w = Whats(q) /\ v = Whats(t) /\ Len(w) = n /\ Len(v) = n + 1
  BY <1>1, WhatsOf
<1>3. /\ \A i \in 1 .. n : w[i] = q[i].what
      /\ \A i \in 1 .. n + 1 : v[i] = t[i].what
  BY <1>1, <1>2 DEF Whats
<1>4. PICK y \in Chunks : y = x.what
  BY DEF Frames
<1>5. PICK z \in Seq(Chunks) :
        /\ z = Append(w, y) /\ Len(z) = n + 1 /\ z[n + 1] = y
        /\ \A i \in 1 .. n : z[i] = w[i]
  <2>1. PICK k \in Nat, z \in Seq(Chunks) :
          /\ z = Append(w, y) /\ Len(z) = k + 1 /\ Len(w) = k /\ z[k + 1] = y
          /\ \A i \in 1 .. k : z[i] = w[i] /\ i \in 1 .. k + 1
    <3>1. PICK k \in Nat, z \in Seq(Chunks) : IsAppend(w, y, z, k)
      BY AppendIs
    <3> QED BY <3>1 DEF IsAppend
  <2>2. k = n
    BY <1>2, <2>1
  <2> QED BY <2>1, <2>2
<1>6. \A i \in 1 .. n + 1 : v[i] = z[i]
  BY <1>1, <1>3, <1>4, <1>5
<1>7. v = z
  BY <1>2, <1>5, <1>6, SeqEqual
<1> QED BY <1>1, <1>2, <1>4, <1>5, <1>7

LEMMA WhatsTail ==
  ASSUME NEW q \in Seq(Frames), q # <<>>
  PROVE  /\ Head(q) \in Frames /\ Tail(q) \in Seq(Frames) /\ Len(Tail(q)) = Len(q) - 1
         /\ Whats(q) = <<Head(q).what>> \o Whats(Tail(q))
<1>1. PICK n \in Nat, t \in Seq(Frames) :
        /\ t = Tail(q) /\ Len(t) = n /\ Len(q) = n + 1 /\ Len(t) = Len(q) - 1
        /\ DOMAIN t = 1 .. n /\ DOMAIN q = 1 .. n + 1
        /\ Head(q) = q[1] /\ q[1] \in Frames
        /\ \A i \in 1 .. n : t[i] = q[i + 1] /\ i + 1 \in 1 .. n + 1
  <2>1. PICK n \in Nat, t \in Seq(Frames) : IsTail(Frames, q, t, n)
    BY TailIs
  <2> QED BY <2>1 DEF IsTail
<1>2. PICK w \in Seq(Chunks), v \in Seq(Chunks) :
        w = Whats(q) /\ v = Whats(t) /\ Len(w) = n + 1 /\ Len(v) = n
  BY <1>1, WhatsOf
<1>3. /\ \A i \in 1 .. n + 1 : w[i] = q[i].what
      /\ \A i \in 1 .. n : v[i] = q[i + 1].what
  BY <1>1, <1>2 DEF Whats
<1>4. PICK y \in Chunks : y = Head(q).what
  BY <1>1 DEF Frames
<1>5. 1 \in 1 .. n + 1
  OBVIOUS
<1>6. w # <<>> /\ Head(w) = y
  BY <1>1, <1>2, <1>3, <1>4, <1>5
<1>7. Tail(w) = v
  <2>1. PICK k \in Nat, u \in Seq(Chunks) :
          /\ u = Tail(w) /\ Len(u) = k /\ Len(w) = k + 1
          /\ \A i \in 1 .. k : u[i] = w[i + 1] /\ i + 1 \in 1 .. k + 1
    <3>1. PICK k \in Nat, u \in Seq(Chunks) : IsTail(Chunks, w, u, k)
      BY <1>6, TailIs
    <3> QED BY <3>1 DEF IsTail
  <2>2. k = n
    <3>1. PICK z \in Nat : z = n + 1 /\ z = k + 1
      BY <1>2, <2>1
    <3> QED BY <3>1
  <2>3. \A i \in 1 .. n : u[i] = v[i]
    BY <1>3, <2>1, <2>2
  <2>4. u = v
    BY <1>2, <2>1, <2>2, <2>3, SeqEqual
  <2> QED BY <2>1, <2>4
<1>8. w = <<y>> \o v
  BY <1>6, <1>7, HeadFirst
<1> QED BY <1>1, <1>2, <1>4, <1>8

LEMMA AgedFrame ==
  ASSUME NEW f \in Frames
  PROVE  /\ [f EXCEPT !.age = @ + 1] \in Frames
         /\ [f EXCEPT !.age = @ + 1].what = f.what /\ [f EXCEPT !.age = @ + 1].age = f.age + 1
BY DEF Frames

LEMMA WhatsAged ==
  ASSUME NEW q \in Seq(Frames)
  PROVE  /\ Aged(q) \in Seq(Frames) /\ Len(Aged(q)) = Len(q) /\ Whats(Aged(q)) = Whats(q)
         /\ \A i \in DOMAIN q : Aged(q)[i].age = q[i].age + 1
<1>1. PICK n \in Nat : n = Len(q) /\ DOMAIN q = 1 .. n
  OBVIOUS
<1>2. \A i \in 1 .. n : q[i] \in Frames
  BY <1>1, ElementOfSeq
<1>3. PICK t : t = Aged(q)
  OBVIOUS
<1>4. /\ DOMAIN t = 1 .. n /\ t \in [1 .. n -> Frames]
      /\ \A i \in 1 .. n : t[i].what = q[i].what /\ t[i].age = q[i].age + 1
  BY <1>1, <1>2, <1>3, AgedFrame DEF Aged
<1>5. t \in Seq(Frames) /\ Len(t) = n
  BY <1>4
<1>6. Whats(t) = Whats(q)
  BY <1>1, <1>4 DEF Whats
<1> QED BY <1>1, <1>3, <1>4, <1>5, <1>6

\* What Push does to the queue: the ages follow from the places.
LEMMA Pushed ==
  ASSUME NEW q \in Seq(Frames), Len(q) <= Max, \A i \in DOMAIN q : q[i].age = Len(q) - i,
         NEW x \in Chunks, NEW r, r = Push(q, [what |-> x, age |-> 0])
  PROVE  /\ r \in Seq(Frames) /\ Len(r) <= Max /\ \A i \in DOMAIN r : r[i].age = Len(r) - i
         /\ \/ Whats(r) = Append(Whats(q), x)
            \/ q # <<>> /\ Whats(r) = Append(Whats(Tail(q)), x)
<1> DEFINE f == [what |-> x, age |-> 0]
<1>1. f \in Frames /\ f.what = x /\ f.age = 0
  BY DEF Frames
<1> HIDE DEF f
<1>2. PICK n \in Nat, a \in Seq(Frames) :
        /\ n = Len(q) /\ DOMAIN q = 1 .. n /\ a = Aged(q) /\ Len(a) = n /\ Whats(a) = Whats(q)
        /\ \A i \in 1 .. n : a[i].age = n - i + 1
  <2>1. \A i \in DOMAIN q : Aged(q)[i].age = (Len(q) - i) + 1
    BY WhatsAged
  <2> QED BY <2>1, WhatsAged
<1>3. Max \in Nat \ {0} /\ n <= Max /\ DOMAIN a = 1 .. n
  BY <1>2, RxAssumption
<1>4. CASE n < Max
  <2>1. r = Append(a, f)
    BY <1>2, <1>4 DEF Push, f
  <2>2. /\ r \in Seq(Frames) /\ Len(r) = n + 1 /\ DOMAIN r = 1 .. n + 1 /\ r[n + 1] = f
        /\ \A i \in 1 .. n : r[i] = a[i]
    <3>1. PICK k \in Nat, t \in Seq(Frames) :
            /\ t = Append(a, f) /\ Len(t) = k + 1 /\ Len(a) = k
            /\ DOMAIN t = 1 .. k + 1 /\ t[k + 1] = f
            /\ \A i \in 1 .. k : t[i] = a[i] /\ i \in 1 .. k + 1
      <4>1. PICK k \in Nat, t \in Seq(Frames) : IsAppend(a, f, t, k)
        BY <1>1, AppendIs
      <4> QED BY <4>1 DEF IsAppend
    <3>2. k = n
      BY <1>2, <3>1
    <3> QED BY <2>1, <3>1, <3>2
  <2>3. \A i \in 1 .. n + 1 :
          (i \in 1 .. n /\ n - i + 1 = n + 1 - i) \/ (i = n + 1 /\ 0 = n + 1 - i)
    OBVIOUS
  <2>4. \A i \in 1 .. n + 1 : r[i].age = n + 1 - i
    BY <1>1, <1>2, <2>2, <2>3
  <2>5. Whats(r) = Append(Whats(q), x)
    BY <1>1, <1>2, <2>1, WhatsAppend
  <2> QED BY <1>3, <1>4, <2>2, <2>4, <2>5
<1>5. CASE ~(n < Max)
  <2>1. a # <<>> /\ q # <<>> /\ n = Max
    BY <1>2, <1>3, <1>5
  <2>2. PICK m \in Nat, t \in Seq(Frames) :
          /\ t = Tail(a) /\ Len(t) = m /\ n = m + 1
          /\ \A i \in 1 .. m : t[i] = a[i + 1]
    <3>1. PICK k \in Nat, t \in Seq(Frames) :
            /\ t = Tail(a) /\ Len(t) = k /\ Len(a) = k + 1
            /\ \A i \in 1 .. k : t[i] = a[i + 1] /\ i + 1 \in 1 .. k + 1
      <4>1. PICK k \in Nat, t \in Seq(Frames) : IsTail(Frames, a, t, k)
        BY <2>1, TailIs
      <4> QED BY <4>1 DEF IsTail
    <3>2. n = k + 1
      BY <1>2, <3>1
    <3> QED BY <3>1, <3>2
  <2>3. r = Append(t, f)
    BY <1>2, <1>5, <2>2 DEF Push, f
  <2>4. /\ r \in Seq(Frames) /\ Len(r) = n /\ DOMAIN r = 1 .. n /\ r[n] = f
        /\ \A i \in 1 .. m : r[i] = t[i]
    <3>1. PICK k \in Nat, z \in Seq(Frames) :
            /\ z = Append(t, f) /\ Len(z) = k + 1 /\ Len(t) = k
            /\ DOMAIN z = 1 .. k + 1 /\ z[k + 1] = f
            /\ \A i \in 1 .. k : z[i] = t[i] /\ i \in 1 .. k + 1
      <4>1. PICK k \in Nat, z \in Seq(Frames) : IsAppend(t, f, z, k)
        BY <1>1, AppendIs
      <4> QED BY <4>1 DEF IsAppend
    <3>2. k = m /\ k + 1 = n
      BY <2>2, <3>1
    <3> QED BY <2>3, <3>1, <3>2
  <2>5. ASSUME NEW i \in 1 .. n PROVE r[i].age = n - i
    <3>1. CASE i = n
      <4>1. n - n = 0
        OBVIOUS
      <4> QED BY <1>1, <2>4, <3>1, <4>1
    <3>2. CASE i # n
      <4>1. i \in 1 .. m /\ i + 1 \in 1 .. n /\ n - (i + 1) + 1 = n - i
        BY <2>2, <3>2
      <4>2. r[i] = a[i + 1] /\ a[i + 1].age = n - (i + 1) + 1
        BY <1>2, <2>2, <2>4, <4>1
      <4> QED BY <4>1, <4>2
    <3> QED BY <3>1, <3>2
  <2>7. Whats(t) = Whats(Tail(q))
    <3>1. PICK u \in Seq(Chunks), v \in Seq(Chunks), b \in Chunks, c \in Chunks :
            /\ u = Whats(Tail(a)) /\ v = Whats(Tail(q))
            /\ Whats(a) = <<b>> \o u /\ Whats(q) = <<c>> \o v
      <4>1. /\ Head(a) \in Frames /\ Head(q) \in Frames
            /\ Tail(a) \in Seq(Frames) /\ Tail(q) \in Seq(Frames)
            /\ Whats(a) = <<Head(a).what>> \o Whats(Tail(a))
            /\ Whats(q) = <<Head(q).what>> \o Whats(Tail(q))
        BY <2>1, WhatsTail
      <4>2. Head(a).what \in Chunks /\ Head(q).what \in Chunks
        BY <4>1 DEF Frames
      <4> QED BY <4>1, <4>2, WhatsOf
    <3>2. Tail(<<b>> \o u) = u /\ Tail(<<c>> \o v) = v
      BY First
    <3>3. <<b>> \o u = <<c>> \o v
      BY <1>2, <3>1
    <3> QED BY <2>2, <3>1, <3>2, <3>3
  <2>8. Whats(r) = Append(Whats(Tail(q)), x)
    BY <1>1, <2>2, <2>3, <2>7, WhatsAppend
  <2> QED BY <1>3, <2>1, <2>4, <2>5, <2>8
<1> QED BY <1>4, <1>5

\* A chunk is as old as the ones behind it are many.
StreamInv ==
  /\ source \in {"live", "ended"}
  /\ rxQueue \in Seq(Frames) /\ Len(rxQueue) <= Max
  /\ \A i \in DOMAIN rxQueue : rxQueue[i].age = Len(rxQueue) - i

\* The sender holds a chunk between the pop and the end of its round, and has
\* no client twice in its copy.
SenderInv ==
  /\ rxPc \in {"pop", "copy", "send"}
  /\ rxPc = "pop" => rxHand = NoFrame
  /\ rxPc # "pop" => rxHand.what \in Chunks
  /\ rxPc # "send" => targets = <<>>
  /\ targets \in Seq(Clients) /\ Once(targets)

\* No client is in clients_ twice, and those in it and those copied from it
\* have had their config frame.
ClientInv ==
  /\ clients \in Seq(Clients) /\ Once(clients)
  /\ conn \in [Clients -> {"new", "ready", "greeted", "open", "deaf", "gone"}]
  /\ stalled \subseteq Clients
  /\ got \in [Clients -> Chunks \cup {Nothing, Config}]
  /\ \A c \in Clients : Among(c, clients) => conn[c] \in {"open", "deaf"}
  /\ \A c \in Clients : Among(c, targets) => conn[c] \in {"open", "deaf", "gone"}
  /\ \A c \in Clients : got[c] = Nothing <=> conn[c] \in {"new", "ready"}

RxInv == StreamInv /\ SenderInv /\ ClientInv

LEMMA StreamKept ==
  ASSUME StreamInv, RxNext PROVE StreamInv'
<1>1. CASE Produce
  <2>1. PICK x \in Chunks : rxQueue' = Push(rxQueue, [what |-> x, age |-> 0])
    BY <1>1 DEF Produce
  <2>2. source' = source
    BY <1>1 DEF Produce
  <2> QED BY <2>1, <2>2, Pushed DEF StreamInv
<1>2. CASE Pops
  <2>1. PICK n \in Nat, t \in Seq(Frames) : IsTail(Frames, rxQueue, t, n)
    BY <1>2, TailIs DEF StreamInv, Pops
  <2>2. rxQueue' = t /\ source' = source /\ Max \in Nat
    BY <1>2, <2>1, RxAssumption DEF Pops, IsTail
  <2>3. n <= Max
    BY <2>1, <2>2 DEF StreamInv, IsTail
  <2>4. ASSUME NEW i \in 1 .. n PROVE t[i].age = n - i
    <3>1. rxQueue[i + 1].age = (n + 1) - (i + 1) /\ t[i] = rxQueue[i + 1]
      BY <2>1 DEF StreamInv, IsTail
    <3> QED BY <3>1
  <2>5. Len(t) = n /\ DOMAIN t = 1 .. n
    BY <2>1 DEF IsTail
  <2> QED BY <2>2, <2>3, <2>4, <2>5 DEF StreamInv
<1>3. CASE \/ Copies \/ SendDone
           \/ \E c \in Clients : SendsTo(c) \/ Skips(c) \/ WriteTimesOut(c)
  <2>1. UNCHANGED streamVars
    BY <1>3 DEF Copies, SendDone, SendsTo, Skips, WriteTimesOut
  <2> QED BY <2>1 DEF streamVars, StreamInv
<1>4. CASE CaptureEnds
  BY <1>4 DEF CaptureEnds, StreamInv
<1>5. ASSUME NEW c \in Clients, Client(c) PROVE StreamInv'
  <2>1. UNCHANGED streamVars
    BY <1>5 DEF Client, Opens, Greets, Joins, Stalls, Recovers, Closes, Leaves
  <2> QED BY <2>1 DEF streamVars, StreamInv
<1> QED BY <1>1, <1>2, <1>3, <1>4, <1>5 DEF RxNext, Sender

LEMMA SenderKept ==
  ASSUME RxInv, RxNext PROVE SenderInv'
<1> USE DEF RxInv
<1>1. CASE Produce \/ CaptureEnds \/ \E c \in Clients : Client(c)
  <2>1. UNCHANGED senderVars
    BY <1>1 DEF Produce, CaptureEnds, Client, Opens, Greets, Joins, Stalls, Recovers, Closes, Leaves
  <2> QED BY <2>1 DEF senderVars, SenderInv
<1>2. CASE Pops
  <2>1. /\ rxQueue # <<>> /\ rxHand' = Head(rxQueue) /\ rxPc' = "copy"
        /\ targets' = targets /\ targets = <<>>
    BY <1>2 DEF Pops, SenderInv
  <2>2. Head(rxQueue) \in Frames
    BY <2>1, WhatsTail DEF StreamInv
  <2>3. rxHand'.what \in Chunks
    BY <2>1, <2>2 DEF Frames
  <2> QED BY <2>1, <2>3 DEF SenderInv
<1>3. CASE Copies
  BY <1>3 DEF Copies, SenderInv, ClientInv
<1>4. ASSUME NEW c \in Clients, SendsTo(c) \/ Skips(c) \/ WriteTimesOut(c) PROVE SenderInv'
  <2>1. /\ rxPc = "send" /\ targets # <<>> /\ targets' = Tail(targets)
        /\ rxPc' = rxPc /\ rxHand' = rxHand
    BY <1>4 DEF SendsTo, Skips, WriteTimesOut, Served
  <2>2. Tail(targets) \in Seq(Clients) /\ Once(Tail(targets))
    BY <2>1, OnceTail DEF SenderInv
  <2> QED BY <2>1, <2>2 DEF SenderInv
<1>5. CASE SendDone
  BY <1>5 DEF SendDone, SenderInv
<1> QED BY <1>1, <1>2, <1>3, <1>4, <1>5 DEF RxNext, Sender

LEMMA ClientKept ==
  ASSUME RxInv, RxNext PROVE ClientInv'
<1> USE DEF RxInv
<1>1. CASE Produce \/ CaptureEnds \/ Pops \/ SendDone
  <2>1. UNCHANGED <<clientVars, targets>>
    BY <1>1, Zenon DEF Produce, CaptureEnds, Pops, SendDone, senderVars
  <2> QED BY <2>1 DEF clientVars, ClientInv
<1>2. CASE Copies
  <2>1. targets' = clients /\ UNCHANGED <<clients, conn, stalled, got>>
    BY <1>2 DEF Copies, clientVars
  <2> QED BY <2>1 DEF ClientInv
<1>3. ASSUME NEW c \in Clients, SendsTo(c) \/ Skips(c) \/ WriteTimesOut(c) PROVE ClientInv'
  <2>1. /\ rxPc = "send" /\ targets # <<>> /\ c = Head(targets) /\ targets' = Tail(targets)
        /\ clients' = clients /\ stalled' = stalled
        /\ \/ conn' = conn /\ got' = got
           \/ conn' = conn /\ got' = [got EXCEPT ![c] = rxHand.what]
           \/ conn[c] = "open" /\ conn' = [conn EXCEPT ![c] = "deaf"] /\ got' = got
    BY <1>3 DEF SendsTo, Skips, WriteTimesOut, Served, clientVars
  <2>2. Among(c, targets) /\ \A d : Among(d, Tail(targets)) => Among(d, targets)
    BY <2>1, OnceTail DEF SenderInv
  <2>3. rxHand.what \in Chunks /\ rxHand.what # Nothing
    BY <2>1, RxAssumption DEF SenderInv
  <2>4. conn[c] \in {"open", "deaf", "gone"}
    BY <2>2 DEF ClientInv
  <2> QED BY <2>1, <2>2, <2>3, <2>4 DEF ClientInv
<1>4. ASSUME NEW c \in Clients, Opens(c) \/ Closes(c) PROVE ClientInv'
  <2>1. /\ UNCHANGED <<clients, stalled, got, targets>>
        /\ \/ conn[c] = "new" /\ conn' = [conn EXCEPT ![c] = "ready"]
           \/ conn[c] = "open" /\ conn' = [conn EXCEPT ![c] = "deaf"]
    BY <1>4 DEF Opens, Closes, senderVars
  <2> QED BY <2>1 DEF ClientInv
<1>5. ASSUME NEW c \in Clients, Greets(c) PROVE ClientInv'
  <2>1. /\ UNCHANGED <<clients, stalled, targets>>
        /\ conn[c] = "ready" /\ conn' = [conn EXCEPT ![c] = "greeted"]
        /\ got' = [got EXCEPT ![c] = Config] /\ Config # Nothing
    BY <1>5, RxAssumption DEF Greets, senderVars
  <2> QED BY <2>1 DEF ClientInv
<1>6. ASSUME NEW c \in Clients, Joins(c) PROVE ClientInv'
  <2>1. /\ UNCHANGED <<stalled, got, targets>>
        /\ conn[c] = "greeted" /\ conn' = [conn EXCEPT ![c] = "open"]
        /\ clients' = Append(clients, c)
    BY <1>6 DEF Joins, senderVars
  <2>2. ~Among(c, clients)
    BY <2>1 DEF ClientInv
  <2>3. /\ clients' \in Seq(Clients) /\ Once(clients')
        /\ \A d : Among(d, clients') <=> (Among(d, clients) \/ d = c)
    BY <2>1, <2>2, OnceAppend DEF ClientInv
  <2> QED BY <2>1, <2>3 DEF ClientInv
<1>7. ASSUME NEW c \in Clients, Stalls(c) \/ Recovers(c) PROVE ClientInv'
  BY <1>7 DEF Stalls, Recovers, senderVars, ClientInv
<1>8. ASSUME NEW c \in Clients, Leaves(c) PROVE ClientInv'
  <2>1. /\ UNCHANGED <<stalled, got, targets>>
        /\ conn[c] = "deaf" /\ conn' = [conn EXCEPT ![c] = "gone"]
    BY <1>8 DEF Leaves, senderVars
  <2>2. PICK i \in DOMAIN clients :
          /\ clients[i] = c
          /\ clients' = SubSeq(clients, 1, i - 1) \o SubSeq(clients, i + 1, Len(clients))
    BY <1>8 DEF Leaves
  <2>3. /\ clients' \in Seq(Clients) /\ Once(clients')
        /\ \A d : Among(d, clients') => Among(d, clients) /\ d # c
    BY <2>2, OnceRemoved DEF ClientInv
  <2> QED BY <2>1, <2>3 DEF ClientInv
<1> QED
  BY <1>1, <1>2, <1>3, <1>4, <1>5, <1>6, <1>7, <1>8 DEF RxNext, Sender, Client

LEMMA RxInvKept ==
  ASSUME RxInv, RxNext PROVE RxInv'
BY StreamKept, SenderKept, ClientKept DEF RxInv

\* The chunk in the sender's hand is on its way to a client until its turn.
SendingIn(p, h, ts, c) ==
  IF p = "pop" \/ (p = "send" /\ ~Among(c, ts)) THEN <<>> ELSE <<h.what>>

LEMMA SendingIs ==
  ASSUME RxInv, RxInv', NEW c \in Clients
  PROVE  /\ Sending(c) = SendingIn(rxPc, rxHand, targets, c)
         /\ Sending(c)' = SendingIn(rxPc', rxHand', targets', c)
         /\ Sending(c) \in Seq(Chunks)
<1>1. NoFrame.what \notin Chunks
  BY RxAssumption DEF NoFrame
<1>2. Sending(c) = SendingIn(rxPc, rxHand, targets, c)
  BY <1>1 DEF Sending, SendingIn, RxInv, SenderInv, Among
<1>3. Sending(c)' = SendingIn(rxPc', rxHand', targets', c)
  BY <1>1 DEF Sending, SendingIn, RxInv, SenderInv, Among
<1>4. Sending(c) \in Seq(Chunks)
  BY <1>1 DEF Sending, RxInv, SenderInv
<1> QED BY <1>2, <1>3, <1>4

LEMMA TransitIs ==
  ASSUME NEW c \in Clients
  PROVE  /\ InTransit(c) = Sending(c) \o Whats(rxQueue)
         /\ InTransit(c)' = Sending(c)' \o Whats(rxQueue')
BY DEF InTransit, Whats

LEMMA RxLoses ==
  ASSUME NEW c \in Clients, NEW a \in Seq(Chunks), NEW b \in Seq(Chunks), NEW d \in Seq(Chunks),
         b # <<>>, InTransit(c) = (a \o b) \o d
  PROVE  a \o d \in RxPipe(c)!Kept
<1>1. CutFrom(InTransit(c), a \o d)
  BY Cut
<1>2. PICK i \in DOMAIN InTransit(c), j \in DOMAIN InTransit(c) :
        a \o d = SubSeq(InTransit(c), 1, i - 1) \o SubSeq(InTransit(c), j + 1, Len(InTransit(c)))
  BY <1>1, Zenon DEF CutFrom
<1>3. a \o d = RxPipe(c)!Without(i, j)
  BY <1>2, Zenon DEF RxPipe!Without
<1> QED BY <1>3, SMT DEF RxPipe!Kept

\* Every step of the receive path is, for each client, one of its pipe's or
\* none.
LEMMA RxStep ==
  ASSUME RxInv, RxInv', RxNext, NEW c \in Clients
  PROVE  RxPipe(c)!Next \/ UNCHANGED <<InTransit(c), Heard(c)>>
<1> DEFINE W == Whats(rxQueue)
<1>0. /\ W \in Seq(Chunks) /\ Sending(c) \in Seq(Chunks) /\ <<>> \in Seq(Chunks)
      /\ InTransit(c) = Sending(c) \o W /\ InTransit(c) \in Seq(Chunks)
      /\ InTransit(c)' = Sending(c)' \o Whats(rxQueue')
  <2>1. W \in Seq(Chunks)
    BY WhatsOf DEF RxInv, StreamInv
  <2>2. Sending(c) \in Seq(Chunks) /\ <<>> \in Seq(Chunks)
    BY SendingIs
  <2>3. Sending(c) \o W \in Seq(Chunks)
    BY <2>1, <2>2, ConcatProperties
  <2> QED BY <2>1, <2>2, <2>3, TransitIs
<1>a. InTransit(c) \in RxPipe(c)!Kept
  BY DEF RxPipe!Kept
<1>1. CASE Produce
  <2>1. PICK x \in Chunks : rxQueue' = Push(rxQueue, [what |-> x, age |-> 0])
    BY <1>1 DEF Produce
  <2>2. Sending(c)' = Sending(c) /\ Heard(c)' = Heard(c)
    BY <1>1 DEF Produce, senderVars, clientVars, Sending, Heard
  <2>3. \/ Whats(rxQueue') = Append(W, x)
        \/ rxQueue # <<>> /\ Whats(rxQueue') = Append(Whats(Tail(rxQueue)), x)
    BY <2>1, Pushed DEF RxInv, StreamInv
  <2>4. \E k \in RxPipe(c)!Kept : InTransit(c)' = Append(k, x)
    <3>1. CASE Whats(rxQueue') = Append(W, x)
      <4>1. InTransit(c)' = Append(InTransit(c), x)
        BY <1>0, <2>2, <3>1, LastAdded
      <4> QED BY <1>a, <4>1
    <3>2. CASE rxQueue # <<>> /\ Whats(rxQueue') = Append(Whats(Tail(rxQueue)), x)
      <4>1. PICK y \in Chunks, v \in Seq(Chunks) : v = Whats(Tail(rxQueue)) /\ W = <<y>> \o v
        <5>1. /\ Head(rxQueue) \in Frames /\ Tail(rxQueue) \in Seq(Frames)
              /\ W = <<Head(rxQueue).what>> \o Whats(Tail(rxQueue))
          BY <3>2, WhatsTail DEF RxInv, StreamInv
        <5>2. Head(rxQueue).what \in Chunks /\ Whats(Tail(rxQueue)) \in Seq(Chunks)
          BY <5>1, WhatsOf DEF Frames
        <5> QED BY <5>1, <5>2
      <4>2. PICK u \in Seq(Chunks), e \in Seq(Chunks) : u = Sending(c) /\ e = <<y>> /\ e # <<>>
        BY <1>0, First
      <4>3. InTransit(c) = (u \o e) \o v
        <5>1. (u \o e) \o v = u \o (e \o v)
          BY ConcatAssociative
        <5> QED BY <1>0, <4>1, <4>2, <5>1
      <4>4. u \o v \in RxPipe(c)!Kept
        BY <4>2, <4>3, RxLoses
      <4>5. InTransit(c)' = u \o Append(v, x)
        BY <1>0, <2>2, <3>2, <4>1, <4>2
      <4>6. u \o Append(v, x) = Append(u \o v, x)
        BY LastAdded
      <4> QED BY <4>4, <4>5, <4>6
    <3> QED BY <2>3, <3>1, <3>2
  <2> QED BY <2>2, <2>4 DEF RxPipe!Next, RxPipe!Put
<1>2. CASE CaptureEnds \/ SendDone
  <2>1. rxQueue' = rxQueue /\ got' = got
    BY <1>2 DEF CaptureEnds, SendDone, senderVars, streamVars, clientVars
  <2>2. Sending(c)' = Sending(c)
    <3>1. CASE CaptureEnds
      BY <3>1 DEF CaptureEnds, senderVars, Sending
    <3>2. CASE SendDone
      <4>1. rxPc = "send" /\ targets = <<>> /\ rxPc' = "pop" /\ ~Among(c, <<>>)
        BY <3>2 DEF SendDone, Among
      <4> QED BY <4>1, SendingIs DEF SendingIn
    <3> QED BY <1>2, <3>1, <3>2
  <2> QED BY <1>0, <2>1, <2>2 DEF Heard
<1>3. CASE Pops
  <2>1. /\ rxPc = "pop" /\ rxPc' = "copy" /\ rxQueue # <<>> /\ got' = got
        /\ rxHand' = Head(rxQueue) /\ rxQueue' = Tail(rxQueue)
    BY <1>3 DEF Pops, clientVars
  <2>2. Sending(c) = <<>> /\ Sending(c)' = <<Head(rxQueue).what>>
    BY <2>1, SendingIs DEF SendingIn
  <2>3. W = <<Head(rxQueue).what>> \o Whats(Tail(rxQueue))
    BY <2>1, WhatsTail DEF RxInv, StreamInv
  <2>4. InTransit(c) = W
    BY <1>0, <2>2, ConcatEmptySeq
  <2> QED BY <1>0, <2>1, <2>2, <2>3, <2>4 DEF Heard
<1>4. CASE Copies
  <2>1. /\ rxPc = "copy" /\ rxPc' = "send" /\ rxHand' = rxHand /\ rxQueue' = rxQueue /\ got' = got
    BY <1>4 DEF Copies, streamVars, clientVars
  <2>2. CASE Sending(c)' = Sending(c)
    BY <1>0, <2>1, <2>2 DEF Heard
  <2>3. CASE Sending(c)' # Sending(c)
    <3>1. Sending(c) = <<rxHand.what>> /\ Sending(c)' = <<>>
      BY <2>1, <2>3, SendingIs DEF SendingIn
    <3>2. InTransit(c) = (<<>> \o Sending(c)) \o W /\ InTransit(c)' = <<>> \o W /\ Sending(c) # <<>>
      <4>1. <<>> \o Sending(c) = Sending(c)
        BY <1>0, ConcatEmptySeq
      <4> QED BY <1>0, <2>1, <3>1, <4>1
    <3>3. InTransit(c)' \in RxPipe(c)!Kept
      BY <1>0, <3>2, RxLoses
    <3> QED BY <2>1, <3>3 DEF RxPipe!Next, RxPipe!Lose, Heard
  <2> QED BY <2>2, <2>3
<1>5. ASSUME NEW d \in Clients, SendsTo(d) \/ Skips(d) \/ WriteTimesOut(d)
      PROVE  RxPipe(c)!Next \/ UNCHANGED <<InTransit(c), Heard(c)>>
  <2>1. /\ rxPc = "send" /\ targets # <<>> /\ d = Head(targets) /\ targets' = Tail(targets)
        /\ rxPc' = rxPc /\ rxHand' = rxHand /\ rxQueue' = rxQueue
        /\ got' = got \/ got' = [got EXCEPT ![d] = rxHand.what]
    BY <1>5 DEF SendsTo, Skips, WriteTimesOut, Served, streamVars, clientVars
  <2>2. /\ \A e : Among(e, targets) <=> (e = d \/ Among(e, targets'))
        /\ ~Among(d, targets')
    BY <2>1, OnceTail DEF RxInv, SenderInv
  <2>3. CASE c # d
    <3>1. Sending(c)' = Sending(c)
      BY <2>1, <2>2, <2>3, SendingIs DEF SendingIn
    <3>2. got'[c] = got[c]
      BY <2>1, <2>3 DEF RxInv, ClientInv
    <3> QED BY <1>0, <2>1, <3>1, <3>2 DEF Heard
  <2>4. CASE c = d
    <3>1. /\ Sending(c) = <<rxHand.what>> /\ Sending(c)' = <<>> /\ rxHand.what \in Chunks
      <4>1. rxHand.what \in Chunks
        BY <2>1 DEF RxInv, SenderInv
      <4> QED BY <2>1, <2>2, <2>4, <4>1, SendingIs DEF SendingIn
    <3>2. InTransit(c) = <<rxHand.what>> \o W /\ InTransit(c)' = <<>> \o W
      BY <1>0, <2>1, <3>1
    <3>3. InTransit(c)' = W
      BY <1>0, <3>2, ConcatEmptySeq
    <3>4. CASE got' = got
      <4>1. InTransit(c) = (<<>> \o Sending(c)) \o W /\ Sending(c) # <<>>
        <5>1. <<>> \o Sending(c) = Sending(c)
          BY <1>0, ConcatEmptySeq
        <5> QED BY <1>0, <3>1, <5>1
      <4>2. InTransit(c)' \in RxPipe(c)!Kept
        BY <1>0, <3>2, <4>1, RxLoses
      <4> QED BY <3>4, <4>2 DEF RxPipe!Next, RxPipe!Lose, Heard
    <3>5. CASE got' = [got EXCEPT ![d] = rxHand.what]
      <4>1. Heard(c)' = rxHand.what
        BY <2>4, <3>1, <3>5, RxAssumption DEF Heard, RxInv, ClientInv
      <4>2. /\ InTransit(c) # <<>> /\ Head(InTransit(c)) = rxHand.what
            /\ Tail(InTransit(c)) = W
        BY <1>0, <3>1, <3>2, First
      <4> QED BY <3>3, <4>1, <4>2 DEF RxPipe!Next, RxPipe!Hear
    <3> QED BY <2>1, <3>4, <3>5
  <2> QED BY <2>3, <2>4
<1>6. ASSUME NEW d \in Clients, Client(d) PROVE UNCHANGED <<InTransit(c), Heard(c)>>
  <2>1. UNCHANGED <<rxQueue, rxPc, rxHand, targets>>
    BY <1>6
    DEF Client, Opens, Greets, Joins, Stalls, Recovers, Closes, Leaves, streamVars, senderVars
  <2>2. Heard(c)' = Heard(c)
    <3>1. CASE got' = got
      BY <3>1 DEF Heard
    <3>2. CASE got' # got
      <4>1. conn[d] = "ready" /\ got' = [got EXCEPT ![d] = Config]
        BY <1>6, <3>2 DEF Client, Opens, Greets, Joins, Stalls, Recovers, Closes, Leaves
      <4>2. got[d] = Nothing /\ got \in [Clients -> Chunks \cup {Nothing, Config}]
        BY <4>1 DEF RxInv, ClientInv
      <4> QED BY <4>1, <4>2 DEF Heard
    <3> QED BY <3>1, <3>2
  <2> QED BY <2>1, <2>2 DEF InTransit, Sending
<1> QED BY <1>1, <1>2, <1>3, <1>4, <1>5, <1>6 DEF RxNext, Sender

\* No audio before the config frame.
LEMMA ConfigFirst ==
  ASSUME RxInv, RxNext, NEW c \in Clients, got'[c] \in Chunks PROVE got[c] # Nothing
<1>1. CASE got'[c] = got[c]
  BY <1>1, RxAssumption
<1>2. CASE got'[c] # got[c]
  <2>1. got \in [Clients -> Chunks \cup {Nothing, Config}] /\ Config \notin Chunks
    BY RxAssumption DEF RxInv, ClientInv
  <2>2. \/ UNCHANGED got
        \/ \E d \in Clients : SendsTo(d) \/ Greets(d)
    BY DEF RxNext, Produce, CaptureEnds, Sender, Pops, Copies, SendDone, Skips, WriteTimesOut,
           Client, Opens, Joins, Stalls, Recovers, Closes, Leaves, clientVars
  <2>3. SendsTo(c)
    BY <1>2, <2>1, <2>2 DEF SendsTo, Greets
  <2>4. Among(c, targets)
    BY <2>3, OnceTail DEF SendsTo, RxInv, SenderInv
  <2> QED BY <2>4 DEF RxInv, ClientInv
<1> QED BY <1>1, <1>2

----------------------------------------------------------------------------
(* The theorems. *)

AudioInv == TxInv /\ RxInv

LEMMA AudioInvStarts == Init => AudioInv
<1> SUFFICES ASSUME Init PROVE AudioInv
  OBVIOUS
<1>1. TxInv
  <2>1. /\ Start \in Floor .. Ceil /\ MaxQueue \in Nat /\ Buffer \in Nat /\ MaxChunks \in Nat
    BY TxAssumption
  <2>2. TxTypeOK
    <3>1. <<>> \in Seq(Chunk) /\ Len(<<>>) <= MaxQueue /\ Len(<<>>) <= Buffer
      BY <2>1
    <3>2. queue \in Seq(Chunk) /\ Len(queue) <= MaxQueue
          /\ device \in Seq(Chunk) /\ Len(device) <= Buffer
      BY <3>1 DEF Init, TxInit
    <3>3. fed \in 0 .. MaxChunks /\ target \in Floor .. Ceil
      BY <2>1 DEF Init, TxInit
    <3> QED BY <3>2, <3>3 DEF Init, TxInit, TxTypeOK
  <2>3. pc = "sleep" /\ hand = NoChunk /\ device = <<>>
    BY DEF Init, TxInit
  <2> QED BY <2>2, <2>3 DEF TxInv
<1>2. RxInv
  <2>1. /\ <<>> \in Seq(Frames) /\ <<>> \in Seq(Clients) /\ Len(<<>>) <= Max
        /\ Once(<<>>) /\ (\A c : ~Among(c, <<>>)) /\ DOMAIN <<>> = {}
    BY RxAssumption DEF Once, Among
  <2> QED BY <2>1 DEF Init, RxInit, RxInv, StreamInv, SenderInv, ClientInv
<1> QED BY <1>1, <1>2 DEF AudioInv

LEMMA AudioInvStays == AudioInv /\ [Next]_vars => AudioInv'
<1> SUFFICES ASSUME AudioInv, [Next]_vars PROVE AudioInv'
  OBVIOUS
<1>t. UNCHANGED txVars => TxInv'
  BY DEF AudioInv, TxInv, TxTypeOK, txVars, hostVars, pumpVars, deviceVars
<1>r. UNCHANGED rxVars => RxInv'
  BY
  DEF AudioInv, RxInv, StreamInv, SenderInv, ClientInv, rxVars, streamVars, senderVars,
      clientVars
<1>1. CASE TxNext /\ UNCHANGED rxVars
  BY <1>r, <1>1, TxInvKept DEF AudioInv
<1>2. CASE RxNext /\ UNCHANGED txVars
  BY <1>t, <1>2, RxInvKept DEF AudioInv
<1>3. CASE UNCHANGED vars
  BY <1>t, <1>r, <1>3 DEF AudioInv, vars
<1> QED BY <1>1, <1>2, <1>3 DEF Next

LEMMA AudioInvHolds == Spec => []AudioInv
BY AudioInvStarts, AudioInvStays, PTL DEF Spec

\* The types of both paths, with the bounds of the queues and of the target.
THEOREM AudioTypeCorrect == Spec => []TypeOK
<1>1. AudioInv => TypeOK
  <2> SUFFICES ASSUME AudioInv PROVE TypeOK
    OBVIOUS
  <2>1. rxHand.what \in Chunks \cup {Nothing}
    BY DEF AudioInv, RxInv, SenderInv, NoFrame
  <2> QED
    BY <2>1
    DEF AudioInv, TxInv, RxInv, StreamInv, SenderInv, ClientInv, TypeOK, RxTypeOK, Frames
<1> QED BY <1>1, AudioInvHolds, PTL

\* What is said is heard once and in the order of arrival: TxAudioReceiver's
\* queue, Pump and the device are an AudioPipe, whatever the underruns, the
\* trims, the handovers of the claim and the failed writes, and whether the
\* frames come from the holder of the claim or from anybody else.
THEOREM VoiceInOrder == Spec => TxInOrder
<1>1. Init => TxPipe!Init
  <2> SUFFICES ASSUME Init PROVE TxPipe!Init
    OBVIOUS
  <2>1. device = <<>> /\ InHand = <<>> /\ queue = <<>>
    BY DEF Init, TxInit, InHand
  <2> QED BY <2>1 DEF TxPipe!Init, Transit
<1>2. AudioInv /\ [Next]_vars => [TxPipe!Next]_<<Transit, heard>>
  <2> SUFFICES ASSUME AudioInv, [Next]_vars PROVE [TxPipe!Next]_<<Transit, heard>>
    OBVIOUS
  <2>1. CASE TxNext
    BY <2>1, TxStep DEF AudioInv
  <2>2. CASE UNCHANGED txVars
    BY <2>2 DEF txVars, hostVars, pumpVars, deviceVars, Transit, InHand
  <2> QED BY <2>1, <2>2 DEF Next, vars
<1> QED BY <1>1, <1>2, AudioInvHolds, PTL DEF Spec, TxInOrder, TxPipe!Spec

\* The band reaches each listener once and in order, after its config frame and
\* never older than the queue is long: RxAudioStream's queue and sender are an
\* AudioPipe to every client, whoever stalls, closes or times out beside it.
THEOREM BandInOrder == Spec => RxInOrder
<1> DEFINE Step ==
      /\ \A c \in Clients : [RxPipe(c)!Next]_<<InTransit(c), Heard(c)>>
      /\ \A c \in Clients : got'[c] \in Chunks => got[c] # Nothing
      /\ \A i \in DOMAIN rxQueue' : rxQueue'[i].age < Max
<1>1. Init => \A c \in Clients : RxPipe(c)!Init
  <2> SUFFICES ASSUME Init, NEW c \in Clients PROVE RxPipe(c)!Init
    OBVIOUS
  <2>1. Sending(c) = <<>> /\ rxQueue = <<>>
    BY DEF Init, RxInit, Sending
  <2> QED BY <2>1 DEF RxPipe!Init, InTransit
<1>2. AudioInv /\ AudioInv' /\ [Next]_vars => [Step]_rxVars
  <2> SUFFICES ASSUME AudioInv, AudioInv', RxNext PROVE Step
    BY DEF Next, vars
  <2>1. \A c \in Clients : [RxPipe(c)!Next]_<<InTransit(c), Heard(c)>>
    BY RxStep DEF AudioInv
  <2>2. \A c \in Clients : got'[c] \in Chunks => got[c] # Nothing
    BY ConfigFirst DEF AudioInv
  <2>3. \A i \in DOMAIN rxQueue' : rxQueue'[i].age < Max
    <3>1. PICK n \in Nat : n = Len(rxQueue') /\ DOMAIN rxQueue' = 1 .. n /\ n <= Max /\ Max \in Nat
      BY RxAssumption DEF AudioInv, RxInv, StreamInv
    <3>2. \A i \in 1 .. n : rxQueue'[i].age = n - i
      BY <3>1 DEF AudioInv, RxInv, StreamInv
    <3> QED BY <3>1, <3>2
  <2> QED BY <2>1, <2>2, <2>3
<1> QED BY <1>1, <1>2, AudioInvHolds, PTL DEF Spec, RxInOrder
=============================================================================
