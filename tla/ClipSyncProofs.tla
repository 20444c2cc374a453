--------------------------- MODULE ClipSyncProofs ---------------------------
(***************************************************************************)
(* Proofs about ClipSync, for any devices, clips, capacities, faults and   *)
(* interleaving.  What a theorem needs of the environment's constants is   *)
(* in its statement.                                                       *)
(*                                                                         *)
(* The invariants speak of sets: what is in a queue, a socket, the ring    *)
(* (Ids).  The lemmas on sequences say what appending, taking, keeping the *)
(* last and removing do to these sets, to repetitions (Distinct, ClipOnce) *)
(* and to the order (Later, Earlier); the lemmas on the operations say it  *)
(* once of each, and the invariants need no more.                          *)
(*                                                                         *)
(* RingShown    A device whose path works has what the ring holds, is      *)
(*              taking it or has it on the way (Backfilled).               *)
(* RingClean    A clip that has yet to leave its author is unheard of by   *)
(*              anybody else (Fresh), it is nowhere twice (Single), and a  *)
(*              delete is queued behind its clip (InOrder).                *)
(* DeleteReachesAll   A device that missed a delete has its tombstone on   *)
(*              the way, behind the clip (Reaching).                       *)
(* ForeignClipOnce    What a device admitted it remembers for as long as   *)
(*              it can come again (Known), because only clips near it in   *)
(*              the ring come between (Near), and these are fewer than the *)
(*              places of the ReplaySet.                                   *)
(* AllHaveAll   Every clip is in the ring or with its author (Unbroken),   *)
(*              as no device sent more than was composed (Counted).        *)
(***************************************************************************)
EXTENDS ClipSync, SequenceTheorems, FiniteSetTheorems, WellFoundedInduction, TLAPS

LEMMA Bounds ==
    /\ NoDevice \notin Devices /\ MaxClips \in Nat /\ MaxDeletes \in Nat
    /\ MAX_QUEUE \in Nat \ {0} /\ REPLAY_CAP \in Nat \ {0}
    /\ RECENT_CAP \in Nat \ {0} /\ TOMBSTONE_CAP \in Nat \ {0}
    /\ FRAME_LIMIT \in Nat \ {0} /\ MaxFaults \in Nat
  BY ClipAssumption DEF ClipAssumption

-----------------------------------------------------------------------------
(* Sequences. *)

\* r is s without some of its elements.
Within(r, s) ==
    \E e \in [DOMAIN r -> DOMAIN s] :
        /\ \A i \in DOMAIN r : r[i] = s[e[i]]
        /\ \A i, j \in DOMAIN r : i < j => e[i] < e[j]

LEMMA SeqIs ==
    ASSUME NEW T, NEW s \in Seq(T)
    PROVE  /\ Len(s) \in Nat /\ DOMAIN s = 1 .. Len(s)
           /\ \A i \in 1 .. Len(s) : s[i] \in T
  BY LenProperties, ElementOfSeq

LEMMA AppendIs ==
    ASSUME NEW T, NEW s \in Seq(T), NEW x \in T
    PROVE  /\ Append(s, x) \in Seq(T) /\ Len(Append(s, x)) = Len(s) + 1
           /\ DOMAIN Append(s, x) = 1 .. Len(s) + 1
           /\ Append(s, x)[Len(s) + 1] = x
           /\ \A i \in 1 .. Len(s) : Append(s, x)[i] = s[i]
           /\ Ids(Append(s, x)) = Ids(s) \cup {x}
<1>1. /\ Append(s, x) \in Seq(T) /\ Len(Append(s, x)) = Len(s) + 1
      /\ DOMAIN Append(s, x) = 1 .. Len(s) + 1
      /\ Append(s, x)[Len(s) + 1] = x
      /\ \A i \in 1 .. Len(s) : Append(s, x)[i] = s[i]
      /\ Len(s) \in Nat /\ DOMAIN s = 1 .. Len(s)
  BY AppendProperties, LenProperties
<1>2. 1 .. Len(s) + 1 = (1 .. Len(s)) \cup {Len(s) + 1}
  BY <1>1
<1>3. Ids(Append(s, x)) = {Append(s, x)[i] : i \in (1 .. Len(s)) \cup {Len(s) + 1}}
  BY <1>1, <1>2 DEF Ids
<1> QED BY <1>1, <1>3 DEF Ids

LEMMA TailIs ==
    ASSUME NEW T, NEW s \in Seq(T), s # <<>>
    PROVE  /\ Tail(s) \in Seq(T) /\ Head(s) \in T /\ Head(s) = s[1] /\ Len(s) >= 1
           /\ Len(Tail(s)) = Len(s) - 1 /\ DOMAIN Tail(s) = 1 .. Len(s) - 1
           /\ \A i \in 1 .. Len(s) - 1 : Tail(s)[i] = s[i + 1]
           /\ Ids(s) = {Head(s)} \cup Ids(Tail(s))
           /\ Within(Tail(s), s)
<1>1. /\ Tail(s) \in Seq(T) /\ Head(s) \in T /\ Head(s) = s[1] /\ Len(s) >= 1
      /\ Len(Tail(s)) = Len(s) - 1 /\ DOMAIN Tail(s) = 1 .. Len(s) - 1
      /\ \A i \in 1 .. Len(s) - 1 : Tail(s)[i] = s[i + 1]
      /\ Len(s) \in Nat /\ DOMAIN s = 1 .. Len(s)
  BY HeadTailProperties, LenProperties, EmptySeq, ElementOfSeq
<1>2. Ids(s) = {Head(s)} \cup Ids(Tail(s))
  <2>1. ASSUME NEW i \in 1 .. Len(s) PROVE s[i] \in {Head(s)} \cup Ids(Tail(s))
    <3>1. CASE i = 1
      BY <1>1, <3>1
    <3>2. CASE i # 1
      <4>1. i - 1 \in 1 .. Len(s) - 1 /\ (i - 1) + 1 = i
        BY <1>1, <3>2
      <4>2. Tail(s)[i - 1] = s[i]
        BY <1>1, <4>1
      <4> QED BY <1>1, <4>1, <4>2 DEF Ids
    <3> QED BY <3>1, <3>2
  <2>2. ASSUME NEW i \in 1 .. Len(s) - 1 PROVE Tail(s)[i] \in Ids(s)
    <3>1. i + 1 \in 1 .. Len(s)
      BY <1>1
    <3> QED BY <1>1, <3>1 DEF Ids
  <2>3. Head(s) \in Ids(s)
    <3>1. 1 \in 1 .. Len(s)
      BY <1>1
    <3> QED BY <1>1, <3>1 DEF Ids
  <2> QED BY <1>1, <2>1, <2>2, <2>3 DEF Ids
<1>3. Within(Tail(s), s)
  <2>1. PICK e : e = [i \in 1 .. Len(s) - 1 |-> i + 1]
    OBVIOUS
  <2>2. e \in [DOMAIN Tail(s) -> DOMAIN s]
    BY <1>1, <2>1
  <2> QED BY <1>1, <2>1, <2>2 DEF Within
<1> QED BY <1>1, <1>2, <1>3

LEMMA ConcatIs ==
    ASSUME NEW T, NEW s \in Seq(T), NEW t \in Seq(T)
    PROVE  /\ s \o t \in Seq(T) /\ DOMAIN (s \o t) = 1 .. Len(s) + Len(t)
           /\ Len(s \o t) = Len(s) + Len(t)
           /\ \A i \in 1 .. Len(s) : (s \o t)[i] = s[i]
           /\ \A i \in 1 .. Len(t) : (s \o t)[Len(s) + i] = t[i]
           /\ Ids(s \o t) = Ids(s) \cup Ids(t)
<1>1. /\ s \o t \in Seq(T) /\ Len(s \o t) = Len(s) + Len(t)
      /\ \A i \in 1 .. Len(s) + Len(t) :
            (s \o t)[i] = IF i <= Len(s) THEN s[i] ELSE t[i - Len(s)]
      /\ Len(s) \in Nat /\ Len(t) \in Nat /\ DOMAIN s = 1 .. Len(s) /\ DOMAIN t = 1 .. Len(t)
  BY ConcatProperties, LenProperties
<1>2. DOMAIN (s \o t) = 1 .. Len(s) + Len(t)
  BY <1>1, LenProperties
<1>3. ASSUME NEW i \in 1 .. Len(s) PROVE (s \o t)[i] = s[i] /\ i \in 1 .. Len(s) + Len(t)
  BY <1>1
<1>4. ASSUME NEW i \in 1 .. Len(t)
      PROVE (s \o t)[Len(s) + i] = t[i] /\ Len(s) + i \in 1 .. Len(s) + Len(t)
  <2>1. Len(s) + i \in 1 .. Len(s) + Len(t) /\ ~(Len(s) + i <= Len(s)) /\ (Len(s) + i) - Len(s) = i
    BY <1>1
  <2> QED BY <1>1, <2>1
<1>5. ASSUME NEW i \in 1 .. Len(s) + Len(t)
      PROVE  i \in 1 .. Len(s) \/ \E j \in 1 .. Len(t) : i = Len(s) + j
  <2>1. CASE i <= Len(s)
    BY <1>1, <2>1
  <2>2. CASE ~(i <= Len(s))
    <3>1. i - Len(s) \in 1 .. Len(t) /\ i = Len(s) + (i - Len(s))
      BY <1>1, <2>2
    <3> QED BY <3>1
  <2> QED BY <2>1, <2>2
<1>6. Ids(s \o t) \subseteq Ids(s) \cup Ids(t)
  BY <1>1, <1>2, <1>3, <1>4, <1>5 DEF Ids
<1>7. Ids(s) \subseteq Ids(s \o t) /\ Ids(t) \subseteq Ids(s \o t)
  <2>1. \A i \in 1 .. Len(s) : s[i] \in Ids(s \o t)
    BY <1>2, <1>3 DEF Ids
  <2>2. \A i \in 1 .. Len(t) : t[i] \in Ids(s \o t)
    BY <1>2, <1>4 DEF Ids
  <2> QED BY <1>1, <2>1, <2>2 DEF Ids
<1> QED BY <1>1, <1>2, <1>3, <1>4, <1>6, <1>7

LEMMA WithinIds ==
    ASSUME NEW r, NEW s, Within(r, s)
    PROVE  Ids(r) \subseteq Ids(s)
<1>1. PICK e \in [DOMAIN r -> DOMAIN s] : \A i \in DOMAIN r : r[i] = s[e[i]]
  BY DEF Within
<1> QED BY <1>1 DEF Ids

LEMMA WithinSelf == ASSUME NEW T, NEW s \in Seq(T) PROVE Within(s, s)
<1>1. PICK e : e = [i \in DOMAIN s |-> i]
  OBVIOUS
<1> QED BY <1>1 DEF Within

LEMMA KeepIs ==
    ASSUME NEW T, NEW s \in Seq(T), NEW c \in Nat \ {0}
    PROVE  /\ KeepLast(s, c) \in Seq(T) /\ Len(KeepLast(s, c)) <= c
           /\ Len(KeepLast(s, c)) <= Len(s)
           /\ Within(KeepLast(s, c), s) /\ Ids(KeepLast(s, c)) \subseteq Ids(s)
           /\ s # <<>> => s[Len(s)] \in Ids(KeepLast(s, c))
<1>1. Len(s) \in Nat /\ DOMAIN s = 1 .. Len(s)
  BY LenProperties
<1>2. CASE Len(s) > c
  <2>1. PICK r : r = SubSeq(s, Len(s) - c + 1, Len(s))
    OBVIOUS
  <2>2. /\ r \in Seq(T) /\ Len(r) = IF Len(s) - c + 1 <= Len(s) THEN Len(s) - (Len(s) - c + 1) + 1 ELSE 0
        /\ \A i \in 1 .. Len(s) - (Len(s) - c + 1) + 1 : r[i] = s[(Len(s) - c + 1) + i - 1]
    <3>1. Len(s) - c + 1 \in 1 .. Len(s) + 1 /\ Len(s) \in (Len(s) - c + 1) - 1 .. Len(s)
      BY <1>1, <1>2
    <3> QED BY <2>1, <3>1, SubSeqProperties
  <2>3. Len(s) - (Len(s) - c + 1) + 1 = c /\ Len(s) - c + 1 <= Len(s)
    BY <1>1
  <2>4. Len(r) = c /\ DOMAIN r = 1 .. c
    BY <2>2, <2>3, LenProperties
  <2>5. ASSUME NEW i \in 1 .. c PROVE r[i] = s[(Len(s) - c) + i] /\ (Len(s) - c) + i \in DOMAIN s
    <3>1. (Len(s) - c + 1) + i - 1 = (Len(s) - c) + i /\ (Len(s) - c) + i \in DOMAIN s
      BY <1>1, <1>2
    <3> QED BY <2>2, <2>3, <3>1
  <2>6. Within(r, s)
    <3>1. PICK e : e = [i \in 1 .. c |-> (Len(s) - c) + i]
      OBVIOUS
    <3>2. e \in [DOMAIN r -> DOMAIN s]
      BY <2>4, <2>5, <3>1
    <3>3. \A i, j \in DOMAIN r : i < j => e[i] < e[j]
      BY <1>1, <2>4, <3>1
    <3> QED BY <2>4, <2>5, <3>1, <3>2, <3>3 DEF Within
  <2>7. s[Len(s)] \in Ids(r)
    <3>1. c \in 1 .. c /\ (Len(s) - c) + c = Len(s)
      BY <1>1
    <3>2. r[c] = s[Len(s)]
      BY <2>5, <3>1
    <3> QED BY <2>4, <3>1, <3>2 DEF Ids
  <2>8. KeepLast(s, c) = r
    BY <1>2, <2>1 DEF KeepLast
  <2> QED BY <1>1, <1>2, <2>2, <2>4, <2>6, <2>7, <2>8, WithinIds
<1>3. CASE ~(Len(s) > c)
  <2>1. KeepLast(s, c) = s
    BY <1>3 DEF KeepLast
  <2>2. s # <<>> => s[Len(s)] \in Ids(s)
    <3>1. s # <<>> => Len(s) \in 1 .. Len(s)
      BY <1>1, EmptySeq
    <3> QED BY <1>1, <3>1 DEF Ids
  <2> QED BY <1>1, <1>3, <2>1, <2>2, WithinSelf, WithinIds
<1> QED BY <1>2, <1>3

Less == {p \in Nat \X Nat : p[1] < p[2]}

LEMMA MinIs ==
    ASSUME NEW I \in SUBSET Nat, I # {}
    PROVE  Min(I) \in I
<1>1. IsWellFoundedOn(Less, Nat)
  BY NatLessThanWellFounded DEF OpToRel, Less
<1>2. PICK k \in I : \A j \in I : ~(<<j, k>> \in Less)
  <2> HIDE DEF Less
  <2> QED BY <1>1, WFMin
<1>3. \A j \in I : k <= j
  <2> SUFFICES ASSUME NEW j \in I, ~(k <= j) PROVE FALSE
    OBVIOUS
  <2>1. j \in Nat /\ k \in Nat /\ j < k
    OBVIOUS
  <2> QED BY <1>2, <2>1 DEF Less
<1> QED BY <1>3 DEF Min

\* No element twice.
Distinct(s) == \A i, j \in DOMAIN s : s[i] = s[j] => i = j

\* What is left when the k-th is taken out.
LEMMA RemoveAtIs ==
    ASSUME NEW T, NEW s \in Seq(T), NEW k \in 1 .. Len(s)
    PROVE  /\ RemoveAt(s, k) \in Seq(T) /\ Len(RemoveAt(s, k)) = Len(s) - 1
           /\ DOMAIN RemoveAt(s, k) = 1 .. Len(s) - 1
           /\ \A j \in 1 .. Len(s) - 1 : RemoveAt(s, k)[j] = s[IF j < k THEN j ELSE j + 1]
<1>0. PICK r : r = RemoveAt(s, k)
  OBVIOUS
<1>1. Len(s) \in Nat /\ DOMAIN s = 1 .. Len(s) /\ \A i \in 1 .. Len(s) : s[i] \in T
  BY SeqIs
<1>2. PICK a : a = SubSeq(s, 1, k - 1)
  OBVIOUS
<1>3. PICK b : b = SubSeq(s, k + 1, Len(s))
  OBVIOUS
<1>4. /\ a \in Seq(T) /\ Len(a) = k - 1 /\ \A i \in 1 .. k - 1 : a[i] = s[i]
  BY <1>1, <1>2, SubSeqProperties
<1>5. /\ b \in Seq(T) /\ Len(b) = Len(s) - k /\ \A i \in 1 .. Len(s) - k : b[i] = s[k + i]
  <2>1. /\ b \in Seq(T) /\ Len(b) = IF k + 1 <= Len(s) THEN Len(s) - (k + 1) + 1 ELSE 0
        /\ \A i \in 1 .. Len(s) - (k + 1) + 1 : b[i] = s[k + 1 + i - 1]
    BY <1>1, <1>3, SubSeqProperties
  <2>2. Len(s) - (k + 1) + 1 = Len(s) - k
    BY <1>1
  <2>4. Len(b) = Len(s) - k
    <3>1. CASE k + 1 <= Len(s)
      BY <1>1, <2>1, <2>2, <3>1
    <3>2. CASE k = Len(s)
      BY <1>1, <2>1, <3>2
    <3>3. k + 1 <= Len(s) \/ k = Len(s)
      <4>1. Len(s) \in Nat
        BY <1>1
      <4> QED BY <4>1
    <3> QED BY <3>1, <3>2, <3>3
  <2>3. ASSUME NEW i \in 1 .. Len(s) - k PROVE b[i] = s[k + i]
    <3>1. k + 1 + i - 1 = k + i
      BY <1>1
    <3>2. b[i] = s[k + 1 + i - 1]
      BY <2>1, <2>2
    <3> QED BY <3>1, <3>2
  <2> QED BY <2>1, <2>3, <2>4
<1>6. r = a \o b
  BY <1>0, <1>2, <1>3 DEF RemoveAt
<1>7. /\ r \in Seq(T) /\ DOMAIN r = 1 .. Len(a) + Len(b) /\ Len(r) = Len(a) + Len(b)
      /\ \A i \in 1 .. Len(a) : r[i] = a[i]
      /\ \A i \in 1 .. Len(b) : r[Len(a) + i] = b[i]
  <2>1. /\ a \o b \in Seq(T) /\ DOMAIN (a \o b) = 1 .. Len(a) + Len(b)
        /\ Len(a \o b) = Len(a) + Len(b)
        /\ \A i \in 1 .. Len(a) : (a \o b)[i] = a[i]
        /\ \A i \in 1 .. Len(b) : (a \o b)[Len(a) + i] = b[i]
    <3>1. a \in Seq(T) /\ b \in Seq(T)
      BY <1>4, <1>5
    <3> QED BY <3>1, ConcatIs
  <2> QED BY <1>6, <2>1
<1>8. Len(a) + Len(b) = Len(s) - 1
  BY <1>1, <1>4, <1>5
<1>9. ASSUME NEW j \in 1 .. Len(s) - 1 PROVE r[j] = s[IF j < k THEN j ELSE j + 1]
  <2>1. CASE j < k
    <3>1. j \in 1 .. k - 1
      BY <1>1, <2>1
    <3> QED BY <1>4, <1>7, <2>1, <3>1
  <2>2. CASE ~(j < k)
    <3>1. /\ j - (k - 1) \in 1 .. Len(s) - k /\ k + (j - (k - 1)) = j + 1
          /\ (k - 1) + (j - (k - 1)) = j
      BY <1>1, <2>2
    <3>2. b[j - (k - 1)] = s[j + 1] /\ r[j] = b[j - (k - 1)]
      <4>1. b[j - (k - 1)] = s[k + (j - (k - 1))]
        BY <1>5, <3>1
      <4>2. r[(k - 1) + (j - (k - 1))] = b[j - (k - 1)]
        BY <1>4, <1>5, <1>7, <3>1
      <4> QED BY <3>1, <4>1, <4>2
    <3> QED BY <2>2, <3>2
  <2> QED BY <2>1, <2>2
<1> QED BY <1>0, <1>7, <1>8, <1>9

LEMMA RemoveIs ==
    ASSUME NEW T, NEW s \in Seq(T), NEW x
    PROVE  /\ RemoveFirst(s, x) \in Seq(T) /\ Len(RemoveFirst(s, x)) <= Len(s)
           /\ Within(RemoveFirst(s, x), s) /\ Ids(RemoveFirst(s, x)) \subseteq Ids(s)
           /\ Ids(s) \ {x} \subseteq Ids(RemoveFirst(s, x))
           /\ (\A i, j \in DOMAIN s : s[i] = x /\ s[j] = x => i = j) => x \notin Ids(RemoveFirst(s, x))
<1>1. Len(s) \in Nat /\ DOMAIN s = 1 .. Len(s)
  BY SeqIs
<1>2. CASE \E i \in 1 .. Len(s) : s[i] = x
  <2>1. PICK I : I = {i \in 1 .. Len(s) : s[i] = x}
    OBVIOUS
  <2>2. I # {} /\ I \in SUBSET Nat
    BY <1>2, <2>1
  <2>3. PICK k : k = Min(I)
    OBVIOUS
  <2>4. k \in 1 .. Len(s) /\ s[k] = x
    BY <2>1, <2>2, <2>3, MinIs
  <2>5. PICK r : r = RemoveAt(s, k)
    OBVIOUS
  <2>6. RemoveFirst(s, x) = r
    BY <1>2, <2>1, <2>2, <2>3, <2>5 DEF RemoveFirst, SelectInSeq
  <2>7. /\ r \in Seq(T) /\ Len(r) = Len(s) - 1 /\ DOMAIN r = 1 .. Len(s) - 1
        /\ \A j \in 1 .. Len(s) - 1 : r[j] = s[IF j < k THEN j ELSE j + 1]
    BY <2>4, <2>5, RemoveAtIs, Zenon
  <2>8. PICK e : e = [j \in 1 .. Len(s) - 1 |-> IF j < k THEN j ELSE j + 1]
    OBVIOUS
  <2>9. ASSUME NEW j \in 1 .. Len(s) - 1
        PROVE  e[j] \in 1 .. Len(s) /\ e[j] # k /\ r[j] = s[e[j]]
    BY <1>1, <2>4, <2>7, <2>8
  <2>10. Within(r, s)
    <3>1. e \in [DOMAIN r -> DOMAIN s]
      BY <1>1, <2>7, <2>8, <2>9
    <3>2. \A i, j \in DOMAIN r : i < j => e[i] < e[j]
      BY <1>1, <2>4, <2>7, <2>8
    <3> QED BY <2>7, <2>9, <3>1, <3>2 DEF Within
  <2>11. ASSUME NEW i \in 1 .. Len(s), i # k PROVE s[i] \in Ids(r)
    <3>1. CASE i < k
      <4>1. i \in 1 .. Len(s) - 1
        BY <1>1, <2>4, <3>1
      <4> QED BY <2>7, <3>1, <4>1 DEF Ids
    <3>2. CASE i > k
      <4>1. i - 1 \in 1 .. Len(s) - 1 /\ ~(i - 1 < k) /\ (i - 1) + 1 = i
        BY <1>1, <2>4, <3>2
      <4>2. r[i - 1] = s[i]
        BY <2>7, <4>1
      <4> QED BY <2>7, <4>1, <4>2 DEF Ids
    <3> QED BY <1>1, <2>4, <2>11, <3>1, <3>2
  <2>12. Ids(s) \ {x} \subseteq Ids(r)
    BY <1>1, <2>4, <2>11 DEF Ids
  <2>13. ASSUME \A i, j \in DOMAIN s : s[i] = x /\ s[j] = x => i = j PROVE x \notin Ids(r)
    <3>1. \A j \in 1 .. Len(s) - 1 : r[j] # x
      BY <1>1, <2>4, <2>9, <2>13
    <3> QED BY <2>7, <3>1 DEF Ids
  <2> QED BY <1>1, <2>6, <2>7, <2>10, <2>12, <2>13, WithinIds
<1>3. CASE ~\E i \in 1 .. Len(s) : s[i] = x
  <2>1. RemoveFirst(s, x) = s /\ x \notin Ids(s)
    BY <1>1, <1>3 DEF RemoveFirst, Ids
  <2> QED BY <1>1, <2>1, WithinSelf
<1> QED BY <1>2, <1>3

LEMMA NoneIs == ASSUME NEW T PROVE <<>> \in Seq(T) /\ Len(<<>>) = 0 /\ Ids(<<>>) = {}
  BY EmptySeq DEF Ids

-----------------------------------------------------------------------------
(* Types. *)

\* The frames a device sends.
Sent == [type : {"clip", "delete"}, m : Clips]

Peers == Devices \cup {NoDevice}

DeviceTypes ==
    /\ items \in [Devices -> SUBSET Clips] /\ pending \in [Devices -> SUBSET Clips]
    /\ queue \in [Devices -> Seq(Sent)] /\ replay \in [Devices -> Seq(Clips)]
    /\ \A d \in Devices : Len(queue[d]) <= MAX_QUEUE /\ Len(replay[d]) <= REPLAY_CAP
    /\ decrypting \in [Devices -> [Clips -> Nat]]
    /\ removing \in [Devices -> SUBSET Clips]
    /\ ws \in [Devices -> {"down", "open", "greeted"}] /\ peer \in [Devices -> Peers]

PathTypes ==
    /\ net \in [Devices -> BOOLEAN] /\ up \in [Devices -> Seq(Sent)]
    /\ wire \in [Devices -> Seq(Sent \cup {Hello})] /\ chan \in [Devices -> Seq(Sent)]

RelayTypes ==
    /\ sockets \subseteq Devices /\ ghosts \subseteq Devices
    /\ recent \in Seq(Clips) /\ Len(recent) <= RECENT_CAP
    /\ tombstones \in Seq(Clips) /\ Len(tombstones) <= TOMBSTONE_CAP
    /\ used \in [Devices -> 0 .. FRAME_LIMIT]

HistoryTypes ==
    /\ author \in Seq(Devices) /\ Len(author) <= MaxClips
    /\ faults \in 0 .. MaxFaults
    /\ asked \subseteq Devices \X Clips /\ again \subseteq Devices \X Clips
    /\ deleted \subseteq Clips /\ forgotten \subseteq Clips
    /\ shown \in [Devices -> SUBSET Clips]

\* TypeOK, and nobody sends a hello.
Typed == DeviceTypes /\ PathTypes /\ RelayTypes /\ HistoryTypes

LEMMA Frames ==
    /\ \A m \in Clips : Clip(m) \in Sent /\ Delete(m) \in Sent
    /\ \A m \in Clips : Clip(m).type = "clip" /\ Clip(m).m = m
    /\ \A m \in Clips : Delete(m).type = "delete" /\ Delete(m).m = m
    /\ \A f \in Sent : f.m \in Clips /\ (f = Clip(f.m) \/ f = Delete(f.m))
    /\ \A f \in Sent : f.type = "clip" => f = Clip(f.m)
    /\ \A f \in Sent : f.type # "clip" => f = Delete(f.m)
    /\ \A m, n : Clip(m) # Delete(n) /\ Clip(m) # Hello /\ Delete(m) # Hello
    /\ \A m, n : (Clip(m) = Clip(n) => m = n) /\ (Delete(m) = Delete(n) => m = n)
    /\ Hello.type = "hello"
  BY DEF Sent, Clip, Delete, Hello

LEMMA Arriving ==
    ASSUME Typed, NEW d \in Devices, NEW via \in Paths, NEW t, Arrives(d, via, t), t # "hello"
    PROVE  /\ Arg(d, via) \in Clips
           /\ via = "ws" => wire[d] # <<>> /\ Head(wire[d]) = [type |-> t, m |-> Arg(d, via)]
           /\ via = "p2p" => chan[d] # <<>> /\ Head(chan[d]) = [type |-> t, m |-> Arg(d, via)]
<1>1. wire[d] \in Seq(Sent \cup {Hello}) /\ chan[d] \in Seq(Sent)
  BY DEF Typed, PathTypes
<1>2. CASE via = "ws"
  <2>1. wire[d] # <<>> /\ Head(wire[d]).type = t /\ Arg(d, via) = Head(wire[d]).m
    BY <1>2 DEF Arrives, Arg
  <2>2. Head(wire[d]) \in Sent \cup {Hello}
    BY <1>1, <2>1, TailIs
  <2>3. Head(wire[d]) \in Sent
    BY <2>1, <2>2, Frames
  <2> QED BY <1>2, <2>1, <2>3 DEF Sent
<1>3. CASE via # "ws"
  <2>1. chan[d] # <<>> /\ Head(chan[d]).type = t /\ Arg(d, via) = Head(chan[d]).m
    BY <1>3 DEF Arrives, Arg
  <2>2. Head(chan[d]) \in Sent
    BY <1>1, <2>1, TailIs
  <2> QED BY <1>3, <2>1, <2>2 DEF Sent
<1> QED BY <1>2, <1>3

LEMMA ConsumeTypes ==
    ASSUME Typed, NEW d \in Devices, NEW via \in Paths, NEW t, Arrives(d, via, t), Consume(d, via)
    PROVE  /\ wire' \in [Devices -> Seq(Sent \cup {Hello})] /\ chan' \in [Devices -> Seq(Sent)]
           /\ \A e \in Devices : Ids(wire'[e]) \subseteq Ids(wire[e])
           /\ \A e \in Devices : Ids(chan'[e]) \subseteq Ids(chan[e])
<1>1. wire \in [Devices -> Seq(Sent \cup {Hello})] /\ chan \in [Devices -> Seq(Sent)]
  BY DEF Typed, PathTypes
<1>2. CASE via = "ws"
  <2>1. wire[d] # <<>>
    BY <1>2 DEF Arrives
  <2>2. Tail(wire[d]) \in Seq(Sent \cup {Hello}) /\ Ids(Tail(wire[d])) \subseteq Ids(wire[d])
    BY <1>1, <2>1, TailIs
  <2> QED BY <1>1, <1>2, <2>2 DEF Consume
<1>3. CASE via # "ws"
  <2>1. chan[d] # <<>>
    BY <1>3 DEF Arrives
  <2>2. Tail(chan[d]) \in Seq(Sent) /\ Ids(Tail(chan[d])) \subseteq Ids(chan[d])
    BY <1>1, <2>1, TailIs
  <2> QED BY <1>1, <1>3, <2>2 DEF Consume
<1> QED BY <1>2, <1>3

LEMMA SendTypes ==
    ASSUME Typed, NEW d \in Devices, NEW f \in Sent, SendFrame(d, f)
    PROVE  up' \in [Devices -> Seq(Sent)] /\ chan' \in [Devices -> Seq(Sent)]
<1>1. up \in [Devices -> Seq(Sent)] /\ chan \in [Devices -> Seq(Sent)] /\ peer[d] \in Peers
  BY DEF Typed, PathTypes, DeviceTypes
<1>2. CASE Linked(d)
  <2>1. peer[d] \in Devices
    BY <1>1, <1>2 DEF Linked, Peers
  <2>2. Append(chan[peer[d]], f) \in Seq(Sent)
    BY <1>1, <2>1, AppendIs
  <2> QED BY <1>1, <1>2, <2>1, <2>2 DEF SendFrame
<1>3. CASE ~Linked(d)
  <2>1. Append(up[d], f) \in Seq(Sent)
    BY <1>1, AppendIs
  <2> QED BY <1>1, <1>3, <2>1 DEF SendFrame
<1> QED BY <1>2, <1>3

LEMMA EnqueueTypes ==
    ASSUME Typed, NEW d \in Devices, NEW f \in Sent, Enqueue(d, f)
    PROVE  /\ queue' \in [Devices -> Seq(Sent)]
           /\ \A e \in Devices : Len(queue'[e]) <= MAX_QUEUE
<1>1. queue \in [Devices -> Seq(Sent)] /\ \A e \in Devices : Len(queue[e]) <= MAX_QUEUE
  BY DEF Typed, DeviceTypes
<1>2. PICK q : q = Append(queue[d], f)
  OBVIOUS
<1>3. q \in Seq(Sent)
  BY <1>1, <1>2, AppendIs
<1>4. KeepLast(q, MAX_QUEUE) \in Seq(Sent) /\ Len(KeepLast(q, MAX_QUEUE)) <= MAX_QUEUE
  BY <1>3, KeepIs, Bounds
<1> QED BY <1>1, <1>2, <1>4 DEF Enqueue

LEMMA CutTypes ==
    ASSUME Typed, NEW d \in Devices, CutLink(d)
    PROVE  peer' \in [Devices -> Peers] /\ chan' \in [Devices -> Seq(Sent)]
  BY NoneIs DEF Typed, DeviceTypes, PathTypes, CutLink, Peers

LEMMA InitTyped == Init => Typed
<1> SUFFICES ASSUME Init PROVE Typed
  OBVIOUS
<1>1. DeviceTypes
  <2>1. [m \in Clips |-> 0] \in [Clips -> Nat]
    OBVIOUS
  <2> QED BY <2>1, NoneIs, Bounds DEF Init, DeviceTypes, Peers
<1>2. PathTypes
  BY NoneIs DEF Init, PathTypes
<1>3. RelayTypes /\ HistoryTypes
  BY NoneIs, Bounds DEF Init, RelayTypes, HistoryTypes
<1> QED BY <1>1, <1>2, <1>3 DEF Typed

LEMMA ComposeTyped == ASSUME Typed, NEW d \in Devices, Compose(d) PROVE Typed'
<1>1. PICK m : m = Len(author) + 1
  OBVIOUS
<1>2. m \in Clips /\ Clip(m) \in Sent
  BY <1>1, Frames DEF Compose
<1>3. author' \in Seq(Devices) /\ Len(author') <= MaxClips
  <2>1. author' = Append(author, d) /\ author \in Seq(Devices)
    BY DEF Compose, Typed, HistoryTypes
  <2>2. author' \in Seq(Devices) /\ Len(author') = m
    BY <1>1, <2>1, AppendIs
  <2> QED BY <1>2, <2>2, Bounds DEF Clips
<1>4. HistoryTypes'
  BY <1>3 DEF Compose, historyVars, Typed, HistoryTypes
<1>5. PathTypes'
  <2>1. up' \in [Devices -> Seq(Sent)] /\ chan' \in [Devices -> Seq(Sent)]
    BY <1>1, <1>2, SendTypes DEF Compose, Typed, PathTypes
  <2> QED BY <2>1 DEF Compose, Typed, PathTypes
<1>6. DeviceTypes'
  <2>1. queue' \in [Devices -> Seq(Sent)] /\ \A e \in Devices : Len(queue'[e]) <= MAX_QUEUE
    BY <1>1, <1>2, EnqueueTypes DEF Compose, Typed, DeviceTypes
  <2>2. items' \in [Devices -> SUBSET Clips] /\ pending' \in [Devices -> SUBSET Clips]
    <3>1. items' = [items EXCEPT ![d] = @ \cup {m}]
      BY <1>1 DEF Compose
    <3>2. UNCHANGED pending \/ pending' = [pending EXCEPT ![d] = @ \cup {m}]
      BY <1>1 DEF Compose
    <3>3. items \in [Devices -> SUBSET Clips] /\ pending \in [Devices -> SUBSET Clips]
      BY DEF Typed, DeviceTypes
    <3>4. items[d] \cup {m} \in SUBSET Clips /\ pending[d] \cup {m} \in SUBSET Clips
      BY <1>2, <3>3
    <3> QED BY <3>1, <3>2, <3>3, <3>4
  <2> QED BY <2>1, <2>2 DEF Compose, Typed, DeviceTypes
<1>7. RelayTypes'
  BY DEF Compose, relayVars, Typed, RelayTypes
<1> QED BY <1>4, <1>5, <1>6, <1>7 DEF Typed

LEMMA OnDeleteTyped == ASSUME Typed, NEW d \in Devices, NEW m \in Clips, OnDelete(d, m) PROVE Typed'
<1>1. DeviceTypes'
  BY DEF OnDelete, Typed, DeviceTypes
<1>2. PathTypes' /\ RelayTypes' /\ HistoryTypes'
  BY DEF OnDelete, pathVars, relayVars, Typed, PathTypes, RelayTypes, HistoryTypes
<1> QED BY <1>1, <1>2 DEF Typed

LEMMA DeleteStoredTyped ==
    ASSUME Typed, NEW d \in Devices, NEW m \in Clips, DeleteStored(d, m) PROVE Typed'
<1>1. PathTypes'
  <2>1. up' \in [Devices -> Seq(Sent)] /\ chan' \in [Devices -> Seq(Sent)]
    BY Frames, SendTypes DEF DeleteStored, Typed, PathTypes
  <2> QED BY <2>1 DEF DeleteStored, Typed, PathTypes
<1>2. DeviceTypes'
  <2>1. queue' \in [Devices -> Seq(Sent)] /\ \A e \in Devices : Len(queue'[e]) <= MAX_QUEUE
    <3>1. CASE queue' = [queue EXCEPT ![d] = RemoveFirst(@, Clip(m))]
      <4>1. queue \in [Devices -> Seq(Sent)] /\ \A e \in Devices : Len(queue[e]) <= MAX_QUEUE
        BY DEF Typed, DeviceTypes
      <4>2. PICK q : q = RemoveFirst(queue[d], Clip(m))
        OBVIOUS
      <4>3. q \in Seq(Sent) /\ Len(q) <= Len(queue[d])
        BY <4>1, <4>2, RemoveIs
      <4>4. Len(q) <= MAX_QUEUE
        <5>1. Len(q) \in Nat /\ Len(queue[d]) \in Nat
          BY <4>1, <4>3, SeqIs
        <5> QED BY <4>1, <4>3, <5>1, Bounds
      <4> QED BY <3>1, <4>1, <4>2, <4>3, <4>4
    <3>2. CASE Enqueue(d, Delete(m))
      BY <3>2, Frames, EnqueueTypes
    <3>3. CASE UNCHANGED queue
      BY <3>3 DEF Typed, DeviceTypes
    <3> QED BY <3>1, <3>2, <3>3 DEF DeleteStored
  <2> QED BY <2>1 DEF DeleteStored, Typed, DeviceTypes
<1>3. RelayTypes' /\ HistoryTypes'
  BY DEF DeleteStored, relayVars, historyVars, Typed, RelayTypes, HistoryTypes
<1> QED BY <1>1, <1>2, <1>3 DEF Typed

LEMMA FlushTypes ==
    ASSUME Typed, NEW d \in Devices, FlushQueue(d)
    PROVE  /\ up' \in [Devices -> Seq(Sent)] /\ queue' \in [Devices -> Seq(Sent)]
           /\ pending' \in [Devices -> SUBSET Clips]
           /\ \A e \in Devices : Len(queue'[e]) <= MAX_QUEUE
<1>1. /\ up \in [Devices -> Seq(Sent)] /\ queue \in [Devices -> Seq(Sent)]
      /\ pending \in [Devices -> SUBSET Clips]
      /\ \A e \in Devices : Len(queue[e]) <= MAX_QUEUE
  BY DEF Typed, DeviceTypes, PathTypes
<1>2. up[d] \o queue[d] \in Seq(Sent)
  BY <1>1, ConcatIs
<1>3. <<>> \in Seq(Sent) /\ Len(<<>>) <= MAX_QUEUE
  BY NoneIs, Bounds
<1> QED BY <1>1, <1>2, <1>3 DEF FlushQueue, MarkSent

LEMMA OnHelloTyped == ASSUME Typed, NEW d \in Devices, OnHello(d) PROVE Typed'
<1>1. wire' \in [Devices -> Seq(Sent \cup {Hello})] /\ chan' \in [Devices -> Seq(Sent)]
  BY ConsumeTypes DEF OnHello, Paths
<1>2. PathTypes'
  BY <1>1, FlushTypes DEF OnHello, Typed, PathTypes
<1>3. DeviceTypes'
  <2>1. /\ queue' \in [Devices -> Seq(Sent)] /\ pending' \in [Devices -> SUBSET Clips]
        /\ \A e \in Devices : Len(queue'[e]) <= MAX_QUEUE
    BY FlushTypes DEF OnHello
  <2> QED BY <2>1 DEF OnHello, Typed, DeviceTypes
<1>4. RelayTypes' /\ HistoryTypes'
  BY DEF OnHello, relayVars, historyVars, Typed, RelayTypes, HistoryTypes
<1> QED BY <1>2, <1>3, <1>4 DEF Typed

LEMMA OnClipTyped == ASSUME Typed, NEW d \in Devices, NEW via \in Paths, OnClip(d, via) PROVE Typed'
<1>1. wire' \in [Devices -> Seq(Sent \cup {Hello})] /\ chan' \in [Devices -> Seq(Sent)]
  BY ConsumeTypes DEF OnClip
<1>2. PathTypes'
  BY <1>1 DEF OnClip, Typed, PathTypes
<1>3. PICK m \in Clips : m = Arg(d, via)
  BY Arriving DEF OnClip
<1>4. DeviceTypes'
  <2>1. replay' \in [Devices -> Seq(Clips)] /\ \A e \in Devices : Len(replay'[e]) <= REPLAY_CAP
    <3>1. replay \in [Devices -> Seq(Clips)] /\ \A e \in Devices : Len(replay[e]) <= REPLAY_CAP
      BY DEF Typed, DeviceTypes
    <3>2. Append(replay[d], m) \in Seq(Clips)
      BY <3>1, AppendIs
    <3>3. PICK r : r = KeepLast(Append(replay[d], m), REPLAY_CAP)
      OBVIOUS
    <3>4. r \in Seq(Clips) /\ Len(r) <= REPLAY_CAP
      BY <3>2, <3>3, KeepIs, Bounds
    <3>5. UNCHANGED replay \/ replay' = [replay EXCEPT ![d] = r]
      BY <1>3, <3>3 DEF OnClip
    <3> QED BY <3>1, <3>4, <3>5
  <2>2. decrypting' \in [Devices -> [Clips -> Nat]]
    <3>1. UNCHANGED decrypting \/ decrypting' = [decrypting EXCEPT ![d][m] = @ + 1]
      BY <1>3 DEF OnClip
    <3>2. decrypting \in [Devices -> [Clips -> Nat]]
      BY DEF Typed, DeviceTypes
    <3> QED BY <3>1, <3>2
  <2> QED BY <2>1, <2>2 DEF OnClip, Typed, DeviceTypes
<1>5. RelayTypes' /\ HistoryTypes'
  BY DEF OnClip, relayVars, historyVars, Typed, RelayTypes, HistoryTypes
<1> QED BY <1>2, <1>4, <1>5 DEF Typed

LEMMA ClipDecryptedTyped ==
    ASSUME Typed, NEW d \in Devices, NEW m \in Clips, ClipDecrypted(d, m) PROVE Typed'
<1>1. decrypting' \in [Devices -> [Clips -> Nat]]
  <2>1. decrypting \in [Devices -> [Clips -> Nat]] /\ decrypting[d][m] - 1 \in Nat
    BY DEF ClipDecrypted, Typed, DeviceTypes
  <2> QED BY <2>1 DEF ClipDecrypted
<1>2. DeviceTypes'
  BY <1>1 DEF ClipDecrypted, Typed, DeviceTypes
<1>3. HistoryTypes'
  BY DEF ClipDecrypted, Typed, HistoryTypes
<1>4. PathTypes' /\ RelayTypes'
  BY DEF ClipDecrypted, pathVars, relayVars, Typed, PathTypes, RelayTypes
<1> QED BY <1>2, <1>3, <1>4 DEF Typed

LEMMA OnDeleteFrameTyped ==
    ASSUME Typed, NEW d \in Devices, NEW via \in Paths, OnDeleteFrame(d, via) PROVE Typed'
<1>1. wire' \in [Devices -> Seq(Sent \cup {Hello})] /\ chan' \in [Devices -> Seq(Sent)]
  BY ConsumeTypes DEF OnDeleteFrame
<1>2. PathTypes'
  BY <1>1 DEF OnDeleteFrame, Typed, PathTypes
<1>3. DeviceTypes'
  BY DEF OnDeleteFrame, Typed, DeviceTypes
<1>4. RelayTypes' /\ HistoryTypes'
  BY DEF OnDeleteFrame, relayVars, historyVars, Typed, RelayTypes, HistoryTypes
<1> QED BY <1>2, <1>3, <1>4 DEF Typed

LEMMA BroadcastTypes ==
    ASSUME Typed, NEW d \in Devices, NEW f \in Sent, Broadcast(d, f)
    PROVE  wire' \in [Devices -> Seq(Sent \cup {Hello})]
<1>1. wire \in [Devices -> Seq(Sent \cup {Hello})]
  BY DEF Typed, PathTypes
<1>2. \A e \in Devices : Append(wire[e], f) \in Seq(Sent \cup {Hello})
  BY <1>1, AppendIs
<1> QED BY <1>1, <1>2 DEF Broadcast

LEMMA PushTypes ==
    ASSUME Typed, NEW m \in Clips, PushRecent(m)
    PROVE  recent' \in Seq(Clips) /\ Len(recent') <= RECENT_CAP
<1>1. recent \in Seq(Clips) /\ Len(recent) <= RECENT_CAP
  BY DEF Typed, RelayTypes
<1>2. PICK r : r = Append(recent, m)
  OBVIOUS
<1>3. r \in Seq(Clips)
  BY <1>1, <1>2, AppendIs
<1>4. KeepLast(r, RECENT_CAP) \in Seq(Clips) /\ Len(KeepLast(r, RECENT_CAP)) <= RECENT_CAP
  BY <1>3, KeepIs, Bounds
<1> QED BY <1>1, <1>2, <1>4 DEF PushRecent

LEMMA DropTypes ==
    ASSUME Typed, NEW m \in Clips, RemoveRecent(m)
    PROVE  recent' \in Seq(Clips) /\ Len(recent') <= RECENT_CAP
<1>1. recent \in Seq(Clips) /\ Len(recent) <= RECENT_CAP
  BY DEF Typed, RelayTypes
<1>2. recent' \in Seq(Clips) /\ Len(recent') <= Len(recent)
  BY <1>1, RemoveIs DEF RemoveRecent
<1>3. Len(recent') \in Nat /\ Len(recent) \in Nat
  BY <1>1, <1>2, SeqIs
<1> QED BY <1>1, <1>2, <1>3, Bounds

LEMMA TombstoneTypes ==
    ASSUME Typed, NEW m \in Clips, AddTombstone(m)
    PROVE  /\ tombstones' \in Seq(Clips) /\ Len(tombstones') <= TOMBSTONE_CAP
           /\ Ids(tombstones') \subseteq Ids(tombstones) \cup {m} /\ m \in Ids(tombstones')
           /\ forgotten' = (forgotten \cup Ids(tombstones)) \ Ids(tombstones')
           /\ forgotten' \subseteq Clips
<1>1. tombstones \in Seq(Clips) /\ Len(tombstones) <= TOMBSTONE_CAP /\ forgotten \subseteq Clips
  BY DEF Typed, RelayTypes, HistoryTypes
<1>2. Ids(tombstones) \subseteq Clips
  BY <1>1, SeqIs DEF Ids
<1>3. CASE m \in Ids(tombstones)
  BY <1>1, <1>2, <1>3 DEF AddTombstone
<1>4. CASE m \notin Ids(tombstones)
  <2>1. PICK r : r = Append(tombstones, m)
    OBVIOUS
  <2>2. /\ r \in Seq(Clips) /\ Ids(r) = Ids(tombstones) \cup {m} /\ r # <<>>
        /\ r[Len(r)] = m
    <3>1. /\ r \in Seq(Clips) /\ Ids(r) = Ids(tombstones) \cup {m} /\ r[Len(tombstones) + 1] = m
          /\ Len(r) = Len(tombstones) + 1 /\ Len(tombstones) \in Nat
      BY <1>1, <2>1, AppendIs, SeqIs
    <3> QED BY <3>1, NoneIs
  <2>3. /\ KeepLast(r, TOMBSTONE_CAP) \in Seq(Clips)
        /\ Len(KeepLast(r, TOMBSTONE_CAP)) <= TOMBSTONE_CAP
        /\ Ids(KeepLast(r, TOMBSTONE_CAP)) \subseteq Ids(r)
        /\ r[Len(r)] \in Ids(KeepLast(r, TOMBSTONE_CAP))
    BY <2>2, KeepIs, Bounds
  <2>4. /\ tombstones' = KeepLast(r, TOMBSTONE_CAP)
        /\ forgotten' = (forgotten \cup Ids(tombstones)) \ Ids(tombstones')
    BY <1>4, <2>1 DEF AddTombstone
  <2> QED BY <1>1, <1>2, <2>2, <2>3, <2>4
<1> QED BY <1>3, <1>4

LEMMA OnMessageTyped == ASSUME Typed, NEW d \in Devices, OnMessage(d) PROVE Typed'
<1>1. PICK f : f = Head(up[d])
  OBVIOUS
<1>2. up \in [Devices -> Seq(Sent)] /\ up[d] # <<>> /\ up[d] \in Seq(Sent)
  BY DEF OnMessage, Typed, PathTypes
<1>3. f \in Sent /\ f.m \in Clips /\ Tail(up[d]) \in Seq(Sent)
  BY <1>1, <1>2, TailIs, Frames
<1>4. DeviceTypes'
  BY DEF OnMessage, deviceVars, Typed, DeviceTypes
<1>5. CASE used[d] < FRAME_LIMIT
  <2>1. PathTypes'
    <3>1. wire' \in [Devices -> Seq(Sent \cup {Hello})]
      BY <1>1, <1>3, <1>5, BroadcastTypes DEF OnMessage
    <3>2. up' = [up EXCEPT ![d] = Tail(@)] /\ UNCHANGED <<net, chan>>
      BY <1>5 DEF OnMessage
    <3> QED BY <1>2, <1>3, <3>1, <3>2 DEF Typed, PathTypes
  <2>2. /\ recent' \in Seq(Clips) /\ Len(recent') <= RECENT_CAP
        /\ tombstones' \in Seq(Clips) /\ Len(tombstones') <= TOMBSTONE_CAP
        /\ deleted' \subseteq Clips /\ forgotten' \subseteq Clips
    <3>1. CASE f.type = "clip"
      <4>1. PushRecent(f.m) /\ UNCHANGED <<tombstones, deleted, forgotten>>
        BY <1>1, <1>5, <3>1 DEF OnMessage
      <4> QED BY <1>3, <4>1, PushTypes DEF Typed, RelayTypes, HistoryTypes
    <3>2. CASE f.type # "clip"
      <4>1. RemoveRecent(f.m) /\ AddTombstone(f.m) /\ deleted' = deleted \cup {f.m}
        BY <1>1, <1>5, <3>2 DEF OnMessage
      <4> QED BY <1>3, <4>1, DropTypes, TombstoneTypes DEF Typed, HistoryTypes
    <3> QED BY <3>1, <3>2
  <2>3. used' \in [Devices -> 0 .. FRAME_LIMIT]
    BY <1>5, Bounds DEF OnMessage, Typed, RelayTypes
  <2>4. RelayTypes' /\ HistoryTypes'
    BY <2>2, <2>3 DEF OnMessage, Typed, RelayTypes, HistoryTypes
  <2> QED BY <1>4, <2>1, <2>4 DEF Typed
<1>6. CASE ~(used[d] < FRAME_LIMIT)
  <2>1. /\ net' = [net EXCEPT ![d] = FALSE] /\ up' = [up EXCEPT ![d] = <<>>]
        /\ UNCHANGED <<used, wire, recent, tombstones, deleted, forgotten, author, chan, sockets,
                       ghosts, faults, asked, shown, again>>
    BY <1>6 DEF OnMessage
  <2>2. PathTypes'
    BY <2>1, NoneIs DEF Typed, PathTypes
  <2>3. RelayTypes' /\ HistoryTypes'
    BY <2>1 DEF Typed, RelayTypes, HistoryTypes
  <2> QED BY <1>4, <2>2, <2>3 DEF Typed
<1> QED BY <1>5, <1>6

LEMMA WindowSlidesTyped == ASSUME Typed, NEW d \in Devices, WindowSlides(d) PROVE Typed'
<1>1. used' \in [Devices -> 0 .. FRAME_LIMIT]
  <2>1. PICK k \in 0 .. used[d] - 1 : used' = [used EXCEPT ![d] = k]
    BY DEF WindowSlides
  <2>2. used[d] \in 0 .. FRAME_LIMIT /\ used \in [Devices -> 0 .. FRAME_LIMIT]
    BY DEF Typed, RelayTypes
  <2>3. k \in 0 .. FRAME_LIMIT
    BY <2>2, Bounds
  <2> QED BY <2>1, <2>2, <2>3
<1>2. DeviceTypes' /\ PathTypes'
  BY DEF WindowSlides, deviceVars, pathVars, Typed, DeviceTypes, PathTypes
<1>3. RelayTypes' /\ HistoryTypes'
  BY <1>1 DEF WindowSlides, historyVars, Typed, RelayTypes, HistoryTypes
<1> QED BY <1>2, <1>3 DEF Typed

LEMMA ForgetTypes ==
    ASSUME Typed, NEW left, ForgetIfEmpty(left)
    PROVE  /\ recent' \in Seq(Clips) /\ Len(recent') <= RECENT_CAP
           /\ tombstones' \in Seq(Clips) /\ Len(tombstones') <= TOMBSTONE_CAP
           /\ forgotten' \subseteq Clips
<1>1. Ids(tombstones) \subseteq Clips
  BY SeqIs DEF Ids, Typed, RelayTypes
<1>2. /\ recent \in Seq(Clips) /\ Len(recent) <= RECENT_CAP
      /\ tombstones \in Seq(Clips) /\ Len(tombstones) <= TOMBSTONE_CAP
      /\ forgotten \subseteq Clips
  BY DEF Typed, RelayTypes, HistoryTypes
<1>3. <<>> \in Seq(Clips) /\ Len(<<>>) <= RECENT_CAP /\ Len(<<>>) <= TOMBSTONE_CAP
  BY NoneIs, Bounds
<1>4. CASE left = {}
  BY <1>1, <1>2, <1>3, <1>4 DEF ForgetIfEmpty
<1>5. CASE left # {}
  BY <1>2, <1>5 DEF ForgetIfEmpty
<1> QED BY <1>4, <1>5

LEMMA RelayClosesTyped == ASSUME Typed, NEW d \in Devices, RelayCloses(d) PROVE Typed'
<1>1. /\ recent' \in Seq(Clips) /\ Len(recent') <= RECENT_CAP
      /\ tombstones' \in Seq(Clips) /\ Len(tombstones') <= TOMBSTONE_CAP
      /\ forgotten' \subseteq Clips
  <2>1. ForgetIfEmpty(sockets' \cup ghosts')
    BY DEF RelayCloses
  <2> QED BY <2>1, ForgetTypes
<1>2. DeviceTypes' /\ PathTypes'
  BY DEF RelayCloses, deviceVars, pathVars, Typed, DeviceTypes, PathTypes
<1>3. RelayTypes' /\ HistoryTypes'
  BY <1>1 DEF RelayCloses, Typed, RelayTypes, HistoryTypes
<1> QED BY <1>2, <1>3 DEF Typed

LEMMA GreetingIs ==
    ASSUME Typed
    PROVE  /\ Greeting \in Seq(Sent \cup {Hello})
           /\ Ids(Greeting) = {Hello} \cup {Clip(m) : m \in Ids(recent)}
                              \cup {Delete(m) : m \in Ids(tombstones)}
           /\ Len(Greeting) = 1 + Len(recent) + Len(tombstones)
           /\ Greeting[1] = Hello
           /\ \A k \in DOMAIN recent : Greeting[1 + k] = Clip(recent[k])
           /\ \A k \in DOMAIN tombstones :
                 Greeting[1 + Len(recent) + k] = Delete(tombstones[k])
<1>1. PICK h : h = <<Hello>>
  OBVIOUS
<1>2. PICK c : c = [k \in DOMAIN recent |-> Clip(recent[k])]
  OBVIOUS
<1>3. PICK t : t = [k \in DOMAIN tombstones |-> Delete(tombstones[k])]
  OBVIOUS
<1>4. /\ Len(recent) \in Nat /\ DOMAIN recent = 1 .. Len(recent)
      /\ Len(tombstones) \in Nat /\ DOMAIN tombstones = 1 .. Len(tombstones)
      /\ \A k \in DOMAIN recent : recent[k] \in Clips
      /\ \A k \in DOMAIN tombstones : tombstones[k] \in Clips
  BY SeqIs DEF Typed, RelayTypes
<1>5. h \in Seq(Sent \cup {Hello}) /\ Len(h) = 1 /\ DOMAIN h = {1} /\ h[1] = Hello
  BY <1>1
<1>6. c \in Seq(Sent \cup {Hello}) /\ Len(c) = Len(recent)
  <2>1. c \in [1 .. Len(recent) -> Sent \cup {Hello}]
    BY <1>2, <1>4, Frames
  <2> QED BY <1>4, <2>1, SeqDef, LenProperties
<1>7. t \in Seq(Sent \cup {Hello}) /\ Len(t) = Len(tombstones)
  <2>1. t \in [1 .. Len(tombstones) -> Sent \cup {Hello}]
    BY <1>3, <1>4, Frames
  <2> QED BY <1>4, <2>1, SeqDef, LenProperties
<1>8. PICK g : g = h \o c
  OBVIOUS
<1>9. /\ g \in Seq(Sent \cup {Hello}) /\ Len(g) = 1 + Len(recent)
      /\ \A i \in 1 .. 1 : g[i] = h[i]
      /\ \A i \in 1 .. Len(c) : g[Len(h) + i] = c[i]
      /\ Ids(g) = Ids(h) \cup Ids(c)
  <2>1. h \in Seq(Sent \cup {Hello}) /\ c \in Seq(Sent \cup {Hello})
    BY <1>5, <1>6
  <2>2. /\ h \o c \in Seq(Sent \cup {Hello}) /\ Len(h \o c) = Len(h) + Len(c)
        /\ \A i \in 1 .. Len(h) : (h \o c)[i] = h[i]
        /\ \A i \in 1 .. Len(c) : (h \o c)[Len(h) + i] = c[i]
        /\ Ids(h \o c) = Ids(h) \cup Ids(c)
    BY <2>1, ConcatIs
  <2> QED BY <1>5, <1>6, <1>8, <2>2
<1>10. /\ g \o t \in Seq(Sent \cup {Hello}) /\ Len(g \o t) = Len(g) + Len(t)
       /\ \A i \in 1 .. Len(g) : (g \o t)[i] = g[i]
       /\ \A i \in 1 .. Len(t) : (g \o t)[Len(g) + i] = t[i]
       /\ Ids(g \o t) = Ids(g) \cup Ids(t)
  <2>1. g \in Seq(Sent \cup {Hello}) /\ t \in Seq(Sent \cup {Hello})
    BY <1>7, <1>9
  <2> QED BY <2>1, ConcatIs
<1>11. Greeting = g \o t
  BY <1>1, <1>2, <1>3, <1>8 DEF Greeting
<1>12. Ids(h) = {Hello}
  BY <1>5 DEF Ids
<1>13. Ids(c) = {Clip(m) : m \in Ids(recent)}
  BY <1>2 DEF Ids
<1>14. Ids(t) = {Delete(m) : m \in Ids(tombstones)}
  BY <1>3 DEF Ids
<1>15. Greeting[1] = Hello
  <2>1. 1 \in 1 .. Len(g) /\ 1 \in 1 .. 1
    BY <1>4, <1>9
  <2> QED BY <1>5, <1>9, <1>10, <1>11, <2>1
<1>16. ASSUME NEW k \in DOMAIN recent PROVE Greeting[1 + k] = Clip(recent[k])
  <2>1. 1 + k \in 1 .. Len(g) /\ k \in 1 .. Len(c)
    BY <1>4, <1>6, <1>9
  <2>2. (g \o t)[1 + k] = g[1 + k] /\ g[1 + k] = c[k]
    BY <1>5, <1>9, <1>10, <2>1
  <2> QED BY <1>2, <1>11, <2>2
<1>17. ASSUME NEW k \in DOMAIN tombstones
       PROVE  Greeting[1 + Len(recent) + k] = Delete(tombstones[k])
  <2>1. k \in 1 .. Len(t)
    BY <1>4, <1>7
  <2>2. (g \o t)[1 + Len(recent) + k] = t[k]
    BY <1>9, <1>10, <2>1
  <2> QED BY <1>3, <1>11, <2>2
<1>18. Len(Greeting) = 1 + Len(recent) + Len(tombstones)
  BY <1>7, <1>9, <1>10, <1>11
<1> QED BY <1>9, <1>10, <1>11, <1>12, <1>13, <1>14, <1>15, <1>16, <1>17, <1>18

LEMMA GreetingIds ==
    ASSUME Typed, NEW m
    PROVE  /\ Clip(m) \in Ids(Greeting) <=> m \in Ids(recent)
           /\ Delete(m) \in Ids(Greeting) <=> m \in Ids(tombstones)
<1>1. Ids(Greeting) = {Hello} \cup {Clip(n) : n \in Ids(recent)}
                              \cup {Delete(n) : n \in Ids(tombstones)}
  BY GreetingIs
<1>2. /\ Clip(m) # Hello /\ Delete(m) # Hello
      /\ \A n : Clip(m) # Delete(n) /\ Delete(m) # Clip(n)
      /\ \A n : (Clip(m) = Clip(n) => m = n) /\ (Delete(m) = Delete(n) => m = n)
  BY DEF Clip, Delete, Hello
<1> HIDE DEF Clip, Delete, Hello
<1> QED BY <1>1, <1>2

LEMMA ConnectTyped == ASSUME Typed, NEW d \in Devices, Connect(d) PROVE Typed'
<1>1. PathTypes'
  BY GreetingIs DEF Connect, Typed, PathTypes
<1>2. DeviceTypes'
  BY DEF Connect, Typed, DeviceTypes
<1>3. RelayTypes'
  <2>1. used' \in [Devices -> 0 .. FRAME_LIMIT]
    BY Bounds DEF Connect, Typed, RelayTypes
  <2> QED BY <2>1 DEF Connect, Typed, RelayTypes
<1>4. HistoryTypes'
  BY DEF Connect, historyVars, Typed, HistoryTypes
<1> QED BY <1>1, <1>2, <1>3, <1>4 DEF Typed

LEMMA FaultTypes == ASSUME Typed, NEW k, Fault(k) PROVE faults' \in 0 .. MaxFaults
  BY Bounds DEF Fault, Typed, HistoryTypes

LEMMA NetFailsTyped == ASSUME Typed, NEW d \in Devices, NetFails(d) PROVE Typed'
<1>1. PathTypes'
  BY NoneIs DEF NetFails, Typed, PathTypes
<1>2. HistoryTypes'
  <2>1. faults' \in 0 .. MaxFaults
    BY FaultTypes DEF NetFails
  <2> QED BY <2>1 DEF NetFails, historyVars, Typed, HistoryTypes
<1>3. DeviceTypes' /\ RelayTypes'
  BY DEF NetFails, deviceVars, relayVars, Typed, DeviceTypes, RelayTypes
<1> QED BY <1>1, <1>2, <1>3 DEF Typed

LEMMA ClientClosesTyped == ASSUME Typed, NEW d \in Devices, ClientCloses(d) PROVE Typed'
<1>1. peer' \in [Devices -> Peers] /\ chan' \in [Devices -> Seq(Sent)]
  BY CutTypes DEF ClientCloses
<1>2. PathTypes'
  BY <1>1, NoneIs DEF ClientCloses, Typed, PathTypes
<1>3. DeviceTypes'
  BY <1>1 DEF ClientCloses, Typed, DeviceTypes
<1>4. RelayTypes' /\ HistoryTypes'
  BY DEF ClientCloses, relayVars, historyVars, Typed, RelayTypes, HistoryTypes
<1> QED BY <1>2, <1>3, <1>4 DEF Typed

LEMMA ReloadTyped == ASSUME Typed, NEW d \in Devices, Reload(d) PROVE Typed'
<1>1. peer' \in [Devices -> Peers] /\ chan' \in [Devices -> Seq(Sent)]
  BY CutTypes DEF Reload
<1>2. PathTypes'
  BY <1>1, NoneIs DEF Reload, Typed, PathTypes
<1>3. DeviceTypes'
  <2>1. /\ queue' \in [Devices -> Seq(Sent)] /\ replay' \in [Devices -> Seq(Clips)]
        /\ \A e \in Devices : Len(queue'[e]) <= MAX_QUEUE /\ Len(replay'[e]) <= REPLAY_CAP
    <3>1. /\ <<>> \in Seq(Sent) /\ <<>> \in Seq(Clips) /\ Len(<<>>) <= MAX_QUEUE
          /\ Len(<<>>) <= REPLAY_CAP
      BY NoneIs, Bounds
    <3> QED BY <3>1 DEF Reload, Typed, DeviceTypes
  <2>2. decrypting' \in [Devices -> [Clips -> Nat]]
    <3>1. [m \in Clips |-> 0] \in [Clips -> Nat]
      OBVIOUS
    <3> QED BY <3>1 DEF Reload, Typed, DeviceTypes
  <2> QED BY <1>1, <2>1, <2>2 DEF Reload, Typed, DeviceTypes
<1>4. HistoryTypes'
  <2>1. faults' \in 0 .. MaxFaults
    BY FaultTypes DEF Reload
  <2> QED BY <2>1 DEF Reload, Typed, HistoryTypes
<1>5. RelayTypes'
  BY DEF Reload, relayVars, Typed, RelayTypes
<1> QED BY <1>2, <1>3, <1>4, <1>5 DEF Typed

LEMMA RelayRestartsTyped == ASSUME Typed, RelayRestarts PROVE Typed'
<1>1. PathTypes'
  BY NoneIs DEF RelayRestarts, Typed, PathTypes
<1>2. RelayTypes'
  <2>1. <<>> \in Seq(Clips) /\ Len(<<>>) <= RECENT_CAP /\ Len(<<>>) <= TOMBSTONE_CAP
    BY NoneIs, Bounds
  <2> QED BY <2>1 DEF RelayRestarts, Typed, RelayTypes
<1>3. HistoryTypes'
  <2>1. faults' \in 0 .. MaxFaults
    BY FaultTypes DEF RelayRestarts
  <2>2. Ids(tombstones) \subseteq Clips
    BY SeqIs DEF Ids, Typed, RelayTypes
  <2> QED BY <2>1, <2>2 DEF RelayRestarts, Typed, HistoryTypes
<1>4. DeviceTypes'
  BY DEF RelayRestarts, deviceVars, Typed, DeviceTypes
<1> QED BY <1>1, <1>2, <1>3, <1>4 DEF Typed

LEMMA LinksTyped ==
    ASSUME Typed, NEW d \in Devices, CloseLink(d) \/ \E e \in Devices : OpenLink(d, e)
    PROVE  Typed'
<1>1. CASE CloseLink(d)
  <2>1. peer' \in [Devices -> Peers] /\ chan' \in [Devices -> Seq(Sent)]
    BY <1>1, CutTypes DEF CloseLink
  <2>2. faults' \in 0 .. MaxFaults
    BY <1>1, FaultTypes DEF CloseLink
  <2>3. DeviceTypes' /\ PathTypes'
    BY <1>1, <2>1 DEF CloseLink, Typed, DeviceTypes, PathTypes
  <2>4. RelayTypes' /\ HistoryTypes'
    BY <1>1, <2>2 DEF CloseLink, relayVars, historyVars, Typed, RelayTypes, HistoryTypes
  <2> QED BY <2>3, <2>4 DEF Typed
<1>2. CASE \E e \in Devices : OpenLink(d, e)
  <2>1. DeviceTypes'
    BY <1>2 DEF OpenLink, Typed, DeviceTypes, Peers
  <2>2. PathTypes' /\ RelayTypes' /\ HistoryTypes'
    BY <1>2 DEF OpenLink, pathVars, relayVars, historyVars, Typed, PathTypes, RelayTypes,
                HistoryTypes
  <2> QED BY <2>1, <2>2 DEF Typed
<1> QED BY <1>1, <1>2

LEMMA StepTyped == Typed /\ [Next]_vars => Typed'
<1> SUFFICES ASSUME Typed, [Next]_vars PROVE Typed'
  OBVIOUS
<1>1. ASSUME NEW d \in Devices, ClientStep(d) PROVE Typed'
  BY <1>1, ComposeTyped, OnHelloTyped, OnDeleteTyped, DeleteStoredTyped, ClipDecryptedTyped,
     OnClipTyped, OnDeleteFrameTyped DEF ClientStep, FrameStep
<1>2. ASSUME NEW d \in Devices, RelayStep(d) PROVE Typed'
  BY <1>2, OnMessageTyped, WindowSlidesTyped, RelayClosesTyped DEF RelayStep
<1>3. ASSUME NEW d \in Devices, ConnectionStep(d) PROVE Typed'
  BY <1>3, ConnectTyped, NetFailsTyped, ClientClosesTyped, ReloadTyped, LinksTyped
     DEF ConnectionStep
<1>4. CASE UNCHANGED vars
  BY <1>4 DEF vars, deviceVars, pathVars, relayVars, historyVars, Typed, DeviceTypes, PathTypes,
              RelayTypes, HistoryTypes
<1> QED BY <1>1, <1>2, <1>3, <1>4, RelayRestartsTyped DEF Next

THEOREM Types == Spec => []Typed
  BY InitTyped, StepTyped, PTL DEF Spec

\* Every variable keeps its range, the bounded lists their bounds, for any devices,
\* capacities and faults (client.ts enqueue and ReplaySet, rooms.ts pushRecent and
\* addTombstone).
THEOREM TypeCorrect == Spec => []TypeOK
<1>1. Typed => TypeOK
  <2> SUFFICES ASSUME Typed PROVE TypeOK
    OBVIOUS
  <2>1. Sent \subseteq Frame /\ Sent \cup {Hello} \subseteq Frame
    BY Bounds DEF Sent, Frame, Hello, Clips
  <2>2. \A s : (s \in Seq(Sent) => s \in Seq(Frame)) /\ (s \in Seq(Sent \cup {Hello}) => s \in Seq(Frame))
    BY <2>1, SeqDef
  <2>3. /\ queue \in [Devices -> Seq(Frame)] /\ up \in [Devices -> Seq(Frame)]
        /\ wire \in [Devices -> Seq(Frame)] /\ chan \in [Devices -> Seq(Frame)]
    BY <2>2 DEF Typed, DeviceTypes, PathTypes
  <2> QED BY <2>3 DEF Typed, DeviceTypes, PathTypes, RelayTypes, HistoryTypes, Peers, TypeOK
<1> QED BY <1>1, Types, PTL

-----------------------------------------------------------------------------
(* What the operations do to what is in the queues. *)

LEMMA SendIds ==
    ASSUME Typed, NEW d \in Devices, NEW f \in Sent, SendFrame(d, f), NEW e \in Devices
    PROVE  /\ Ids(up'[e]) \subseteq Ids(up[e]) \cup {f}
           /\ Ids(chan'[e]) \subseteq Ids(chan[e]) \cup {f}
           /\ e # d => up'[e] = up[e]
           /\ Linked(d) => up' = up
           /\ ~Linked(d) => chan' = chan
           /\ up'[d] = up[d] \/ up'[d] = Append(up[d], f)
           /\ ~net[d] => up' = up
<1>1. /\ up \in [Devices -> Seq(Sent)] /\ chan \in [Devices -> Seq(Sent)] /\ peer[d] \in Peers
      /\ \A b \in Devices : up[b] \in Seq(Sent) /\ chan[b] \in Seq(Sent)
  BY DEF Typed, PathTypes, DeviceTypes
<1>2. \A b \in Devices : /\ Ids(Append(up[b], f)) = Ids(up[b]) \cup {f}
                         /\ Ids(Append(chan[b], f)) = Ids(chan[b]) \cup {f}
  BY <1>1, AppendIs
<1>3. CASE Linked(d)
  <2>1. peer[d] \in Devices
    BY <1>1, <1>3 DEF Linked, Peers
  <2> QED BY <1>1, <1>2, <1>3, <2>1 DEF SendFrame
<1>4. CASE ~Linked(d)
  BY <1>1, <1>2, <1>4 DEF SendFrame
<1> QED BY <1>3, <1>4

LEMMA EnqueueIds ==
    ASSUME Typed, NEW d \in Devices, NEW f \in Sent, Enqueue(d, f), NEW e \in Devices
    PROVE  /\ Ids(queue'[e]) \subseteq Ids(queue[e]) \cup {f}
           /\ e # d => queue'[e] = queue[e]
           /\ Within(queue'[d], Append(queue[d], f))
<1>1. queue \in [Devices -> Seq(Sent)]
  BY DEF Typed, DeviceTypes
<1>2. PICK q : q = Append(queue[d], f)
  OBVIOUS
<1>3. q \in Seq(Sent) /\ Ids(q) = Ids(queue[d]) \cup {f}
  BY <1>1, <1>2, AppendIs
<1>4. Ids(KeepLast(q, MAX_QUEUE)) \subseteq Ids(q) /\ Within(KeepLast(q, MAX_QUEUE), q)
  BY <1>3, KeepIs, Bounds
<1> QED BY <1>1, <1>2, <1>3, <1>4 DEF Enqueue

LEMMA FlushIds ==
    ASSUME Typed, NEW d \in Devices, FlushQueue(d), NEW e \in Devices
    PROVE  /\ Ids(up'[e]) \subseteq Ids(up[e]) \cup Ids(queue[e])
           /\ Ids(queue'[e]) \subseteq Ids(queue[e])
           /\ e # d => up'[e] = up[e] /\ queue'[e] = queue[e]
           /\ queue'[d] = <<>> /\ Ids(queue'[d]) = {}
           /\ up'[d] = up[d] \/ up'[d] = up[d] \o queue[d]
<1>1. /\ up \in [Devices -> Seq(Sent)] /\ queue \in [Devices -> Seq(Sent)]
      /\ up[d] \in Seq(Sent) /\ queue[d] \in Seq(Sent)
  BY DEF Typed, DeviceTypes, PathTypes
<1>2. Ids(up[d] \o queue[d]) = Ids(up[d]) \cup Ids(queue[d])
  BY <1>1, ConcatIs
<1>3. Ids(<<>>) = {}
  BY NoneIs
<1> QED BY <1>1, <1>2, <1>3 DEF FlushQueue

LEMMA ConsumeIds ==
    ASSUME Typed, NEW d \in Devices, NEW via \in Paths, NEW t, Arrives(d, via, t),
           Consume(d, via), NEW e \in Devices
    PROVE  /\ Ids(wire'[e]) \subseteq Ids(wire[e]) /\ Ids(chan'[e]) \subseteq Ids(chan[e])
           /\ e # d => wire'[e] = wire[e] /\ chan'[e] = chan[e]
           /\ via = "ws" => /\ Ids(wire[d]) = {Head(wire[d])} \cup Ids(wire'[d])
                            /\ Head(wire[d]).type = t /\ chan' = chan
                            /\ wire'[d] = Tail(wire[d]) /\ wire[d] # <<>>
           /\ via = "p2p" => /\ Ids(chan[d]) = {Head(chan[d])} \cup Ids(chan'[d])
                             /\ Head(chan[d]).type = t /\ wire' = wire
                             /\ chan'[d] = Tail(chan[d]) /\ chan[d] # <<>>
<1>1. /\ wire \in [Devices -> Seq(Sent \cup {Hello})] /\ chan \in [Devices -> Seq(Sent)]
      /\ wire[d] \in Seq(Sent \cup {Hello}) /\ chan[d] \in Seq(Sent)
  BY DEF Typed, PathTypes
<1>2. CASE via = "ws"
  <2>1. wire[d] # <<>> /\ Head(wire[d]).type = t
    BY <1>2 DEF Arrives
  <2>2. Ids(wire[d]) = {Head(wire[d])} \cup Ids(Tail(wire[d]))
    BY <1>1, <2>1, TailIs
  <2> QED BY <1>1, <1>2, <2>1, <2>2 DEF Consume
<1>3. CASE via # "ws"
  <2>1. chan[d] # <<>> /\ Head(chan[d]).type = t
    BY <1>3 DEF Arrives
  <2>2. Ids(chan[d]) = {Head(chan[d])} \cup Ids(Tail(chan[d]))
    BY <1>1, <2>1, TailIs
  <2> QED BY <1>1, <1>3, <2>1, <2>2 DEF Consume
<1> QED BY <1>2, <1>3

\* The clip of an arriving frame was on its way.
LEMMA ArrivingIds ==
    ASSUME Typed, NEW d \in Devices, NEW via \in Paths, NEW t, Arrives(d, via, t), t # "hello"
    PROVE  /\ Arg(d, via) \in Clips
           /\ t = "clip" => Clip(Arg(d, via)) \in Ids(wire[d]) \cup Ids(chan[d])
           /\ t = "delete" => Delete(Arg(d, via)) \in Ids(wire[d]) \cup Ids(chan[d])
<1>1. /\ Arg(d, via) \in Clips
      /\ via = "ws" => wire[d] # <<>> /\ Head(wire[d]) = [type |-> t, m |-> Arg(d, via)]
      /\ via = "p2p" => chan[d] # <<>> /\ Head(chan[d]) = [type |-> t, m |-> Arg(d, via)]
  BY Arriving
<1>2. wire[d] \in Seq(Sent \cup {Hello}) /\ chan[d] \in Seq(Sent)
  BY DEF Typed, PathTypes
<1>3. CASE via = "ws"
  <2>1. Head(wire[d]) \in Ids(wire[d])
    BY <1>1, <1>2, <1>3, TailIs
  <2> QED BY <1>1, <1>3, <2>1 DEF Clip, Delete
<1>4. CASE via = "p2p"
  <2>1. Head(chan[d]) \in Ids(chan[d])
    BY <1>1, <1>2, <1>4, TailIs
  <2> QED BY <1>1, <1>4, <2>1 DEF Clip, Delete
<1> QED BY <1>1, <1>3, <1>4 DEF Paths

LEMMA BroadcastIds ==
    ASSUME Typed, NEW d \in Devices, NEW f \in Sent, Broadcast(d, f), NEW e \in Devices
    PROVE  /\ Ids(wire[e]) \subseteq Ids(wire'[e]) /\ Ids(wire'[e]) \subseteq Ids(wire[e]) \cup {f}
           /\ wire'[d] = wire[d]
           /\ e # d /\ e \in sockets /\ net[e] => f \in Ids(wire'[e])
           /\ wire'[e] = wire[e] \/ (net[e] /\ e # d /\ wire'[e] = Append(wire[e], f))
<1>1. wire \in [Devices -> Seq(Sent \cup {Hello})] /\ wire[e] \in Seq(Sent \cup {Hello})
  BY DEF Typed, PathTypes
<1>2. Ids(Append(wire[e], f)) = Ids(wire[e]) \cup {f}
  BY <1>1, AppendIs
<1> QED BY <1>1, <1>2 DEF Broadcast

LEMMA PushIds ==
    ASSUME Typed, NEW m \in Clips, PushRecent(m)
    PROVE  Ids(recent') \subseteq Ids(recent) \cup {m}
<1>1. recent \in Seq(Clips)
  BY DEF Typed, RelayTypes
<1>2. PICK r : r = Append(recent, m)
  OBVIOUS
<1>3. r \in Seq(Clips) /\ Ids(r) = Ids(recent) \cup {m}
  BY <1>1, <1>2, AppendIs
<1>4. Ids(KeepLast(r, RECENT_CAP)) \subseteq Ids(r)
  BY <1>3, KeepIs, Bounds
<1> QED BY <1>2, <1>3, <1>4 DEF PushRecent

LEMMA DropIds ==
    ASSUME Typed, NEW m \in Clips, RemoveRecent(m)
    PROVE  Ids(recent') \subseteq Ids(recent) /\ Within(recent', recent)
  BY RemoveIs DEF RemoveRecent, Typed, RelayTypes

LEMMA UpIds ==
    ASSUME Typed, NEW d \in Devices, up[d] # <<>>
    PROVE  /\ Head(up[d]) \in Sent /\ Head(up[d]).m \in Clips
           /\ Ids(up[d]) = {Head(up[d])} \cup Ids(Tail(up[d]))
           /\ Head(up[d]).type = "clip" => Head(up[d]) = Clip(Head(up[d]).m)
           /\ Head(up[d]).type # "clip" => Head(up[d]) = Delete(Head(up[d]).m)
<1>1. up[d] \in Seq(Sent)
  BY DEF Typed, PathTypes
<1>2. Head(up[d]) \in Sent /\ Ids(up[d]) = {Head(up[d])} \cup Ids(Tail(up[d]))
  BY <1>1, TailIs
<1> QED BY <1>2, Frames

LEMMA AdmitIds ==
    ASSUME Typed, NEW d \in Devices, NEW m \in Clips, NEW r,
           r = KeepLast(Append(replay[d], m), REPLAY_CAP)
    PROVE  Ids(r) \subseteq Ids(replay[d]) \cup {m} /\ m \in Ids(r)
<1>1. replay[d] \in Seq(Clips)
  BY DEF Typed, DeviceTypes
<1>2. PICK q : q = Append(replay[d], m)
  OBVIOUS
<1>3. /\ q \in Seq(Clips) /\ Ids(q) = Ids(replay[d]) \cup {m} /\ q[Len(replay[d]) + 1] = m
      /\ Len(q) = Len(replay[d]) + 1 /\ Len(replay[d]) \in Nat
  BY <1>1, <1>2, AppendIs, SeqIs
<1>4. q # <<>> /\ q[Len(q)] = m
  BY <1>3, NoneIs
<1>5. Ids(KeepLast(q, REPLAY_CAP)) \subseteq Ids(q) /\ q[Len(q)] \in Ids(KeepLast(q, REPLAY_CAP))
  BY <1>3, <1>4, KeepIs, Bounds
<1> QED BY <1>2, <1>3, <1>4, <1>5

-----------------------------------------------------------------------------
(* Deletes. *)

Asked(m) == \E e \in Devices : <<e, m>> \in asked

Mine(e, m) == m \in removing[e] \/ Delete(m) \in Ids(queue[e]) \cup Ids(up[e])

Told(e, m) == Delete(m) \in Ids(wire[e]) \cup Ids(chan[e])

\* There is a delete only where a user asked for it, or was told of one.
DeletesAsked ==
    \A e \in Devices, m \in Clips :
        /\ Mine(e, m) => <<e, m>> \in asked
        /\ Told(e, m) \/ m \in Ids(tombstones) => Asked(m)

LEMMA AskedStays ==
    ASSUME [Next]_vars PROVE asked \subseteq asked' /\ \A m : Asked(m) => Asked(m)'
<1>1. asked \subseteq asked'
  <2>1. ASSUME NEW d \in Devices, ClientStep(d) PROVE asked \subseteq asked'
    BY <2>1 DEF ClientStep, FrameStep, Compose, OnHello, OnDelete, DeleteStored, ClipDecrypted, OnClip,
                OnDeleteFrame, historyVars
  <2>2. ASSUME NEW d \in Devices, RelayStep(d) PROVE asked \subseteq asked'
    BY <2>2 DEF RelayStep, OnMessage, WindowSlides, RelayCloses, historyVars
  <2>3. ASSUME NEW d \in Devices, ConnectionStep(d) PROVE asked \subseteq asked'
    BY <2>3 DEF ConnectionStep, Connect, NetFails, ClientCloses, Reload, CloseLink, OpenLink,
                historyVars
  <2>4. CASE RelayRestarts
    BY <2>4 DEF RelayRestarts
  <2>5. CASE UNCHANGED vars
    BY <2>5 DEF vars, historyVars
  <2> QED BY <2>1, <2>2, <2>3, <2>4, <2>5 DEF Next
<1> QED BY <1>1 DEF Asked

LEMMA NoNewDelete ==
    ASSUME Typed, [Next]_vars, DeletesAsked,
           \A e \in Devices, m \in Clips : Mine(e, m)' => Mine(e, m),
           \A e \in Devices, m \in Clips : Told(e, m)' => Told(e, m),
           Ids(tombstones') \subseteq Ids(tombstones)
    PROVE  DeletesAsked'
  BY AskedStays DEF DeletesAsked

LEMMA UserDeletes ==
    ASSUME Typed, [Next]_vars, DeletesAsked, NEW d \in Devices,
           Compose(d) \/ OnHello(d) \/ \E m \in Clips : OnDelete(d, m) \/ DeleteStored(d, m)
    PROVE  DeletesAsked'
<1>1. CASE Compose(d)
  <2>1. PICK n \in Clips : n = Len(author) + 1
    BY <1>1 DEF Compose
  <2>2. Clip(n) \in Sent /\ \A m : Delete(m) # Clip(n)
    BY Frames
  <2>3. ASSUME NEW e \in Devices, NEW m \in Clips
        PROVE  (Mine(e, m)' => Mine(e, m)) /\ (Told(e, m)' => Told(e, m))
    <3>1. CASE SendFrame(d, Clip(n)) /\ UNCHANGED <<queue, pending>>
      <4>1. Ids(up'[e]) \subseteq Ids(up[e]) \cup {Clip(n)} /\ Ids(chan'[e]) \subseteq Ids(chan[e]) \cup {Clip(n)}
        BY <2>2, <3>1, SendIds
      <4> QED BY <1>1, <2>2, <3>1, <4>1 DEF Compose, Mine, Told
    <3>2. CASE Enqueue(d, Clip(n)) /\ UNCHANGED <<up, chan>>
      <4>1. Ids(queue'[e]) \subseteq Ids(queue[e]) \cup {Clip(n)}
        BY <2>2, <3>2, EnqueueIds
      <4> QED BY <1>1, <2>2, <3>2, <4>1 DEF Compose, Mine, Told
    <3> QED BY <1>1, <2>1, <3>1, <3>2 DEF Compose
  <2>4. UNCHANGED tombstones
    BY <1>1 DEF Compose, relayVars
  <2> QED BY <2>3, <2>4, NoNewDelete
<1>2. CASE OnHello(d)
  <2>1. FlushQueue(d) /\ Arrives(d, "ws", "hello") /\ Consume(d, "ws") /\ "ws" \in Paths
    BY <1>2 DEF OnHello, Paths
  <2>2. ASSUME NEW e \in Devices, NEW m \in Clips
        PROVE  (Mine(e, m)' => Mine(e, m)) /\ (Told(e, m)' => Told(e, m))
    <3>1. /\ Ids(up'[e]) \subseteq Ids(up[e]) \cup Ids(queue[e])
          /\ Ids(queue'[e]) \subseteq Ids(queue[e])
      BY <2>1, FlushIds
    <3>2. Ids(wire'[e]) \subseteq Ids(wire[e]) /\ Ids(chan'[e]) \subseteq Ids(chan[e])
      BY <2>1, ConsumeIds
    <3> QED BY <1>2, <3>1, <3>2 DEF OnHello, Mine, Told
  <2>3. UNCHANGED tombstones
    BY <1>2 DEF OnHello, relayVars
  <2> QED BY <2>2, <2>3, NoNewDelete
<1>3. ASSUME NEW n \in Clips, OnDelete(d, n) PROVE DeletesAsked'
  <2>1. asked' = asked \cup {<<d, n>>} /\ removing' = [removing EXCEPT ![d] = @ \cup {n}]
    BY <1>3 DEF OnDelete
  <2>2. UNCHANGED <<queue, up, wire, chan, tombstones>>
    BY <1>3 DEF OnDelete, pathVars, relayVars
  <2>3. removing \in [Devices -> SUBSET Clips]
    BY DEF Typed, DeviceTypes
  <2>4. ASSUME NEW e \in Devices, NEW m \in Clips, Mine(e, m)' PROVE <<e, m>> \in asked'
    BY <2>1, <2>2, <2>3, <2>4 DEF Mine, DeletesAsked
  <2>5. ASSUME NEW e \in Devices, NEW m \in Clips, Told(e, m)' \/ m \in Ids(tombstones') PROVE Asked(m)'
    BY <2>2, <2>5, AskedStays DEF Told, DeletesAsked
  <2> QED BY <2>4, <2>5 DEF DeletesAsked
<1>4. ASSUME NEW n \in Clips, DeleteStored(d, n) PROVE DeletesAsked'
  <2>1. Delete(n) \in Sent /\ (\A m : Delete(m) = Delete(n) => m = n) /\ n \in removing[d]
        /\ <<d, n>> \in asked /\ asked' = asked
    BY <1>4, Frames DEF DeleteStored, DeletesAsked, Mine, historyVars
  <2>2. ASSUME NEW e \in Devices, NEW m \in Clips
        PROVE  /\ Delete(m) \in Ids(queue'[e]) \cup Ids(up'[e]) => Mine(e, m) \/ (e = d /\ m = n)
               /\ Told(e, m)' => Told(e, m) \/ m = n
    <3>1. CASE SendFrame(d, Delete(n)) /\ UNCHANGED queue
      <4>1. /\ Ids(up'[e]) \subseteq Ids(up[e]) \cup {Delete(n)} /\ (e # d => up'[e] = up[e])
            /\ Ids(chan'[e]) \subseteq Ids(chan[e]) \cup {Delete(n)}
        BY <2>1, <3>1, SendIds
      <4> QED BY <1>4, <2>1, <3>1, <4>1 DEF DeleteStored, Mine, Told
    <3>2. CASE queue' = [queue EXCEPT ![d] = RemoveFirst(@, Clip(n))] /\ UNCHANGED <<up, chan>>
      <4>1. queue \in [Devices -> Seq(Sent)]
        BY DEF Typed, DeviceTypes
      <4>2. Ids(RemoveFirst(queue[d], Clip(n))) \subseteq Ids(queue[d])
        BY <4>1, RemoveIs
      <4> QED BY <1>4, <3>2, <4>1, <4>2 DEF DeleteStored, Mine, Told
    <3>3. CASE Enqueue(d, Delete(n)) /\ UNCHANGED <<up, chan>>
      <4>1. Ids(queue'[e]) \subseteq Ids(queue[e]) \cup {Delete(n)} /\ (e # d => queue'[e] = queue[e])
        BY <2>1, <3>3, EnqueueIds
      <4> QED BY <1>4, <2>1, <3>3, <4>1 DEF DeleteStored, Mine, Told
    <3> QED BY <1>4, <3>1, <3>2, <3>3 DEF DeleteStored
  <2>3. removing' = [removing EXCEPT ![d] = @ \ {n}] /\ UNCHANGED tombstones
    BY <1>4 DEF DeleteStored, relayVars
  <2>4. removing \in [Devices -> SUBSET Clips]
    BY DEF Typed, DeviceTypes
  <2>5. ASSUME NEW e \in Devices, NEW m \in Clips, Mine(e, m)' PROVE <<e, m>> \in asked'
    <3>1. Mine(e, m) \/ (e = d /\ m = n)
      BY <2>2, <2>3, <2>4, <2>5 DEF Mine
    <3> QED BY <2>1, <3>1 DEF DeletesAsked
  <2>6. ASSUME NEW e \in Devices, NEW m \in Clips, Told(e, m)' \/ m \in Ids(tombstones') PROVE Asked(m)'
    BY <2>1, <2>2, <2>3, <2>6 DEF Asked, DeletesAsked
  <2> QED BY <2>5, <2>6 DEF DeletesAsked
<1> QED BY <1>1, <1>2, <1>3, <1>4

LEMMA FrameDeletes ==
    ASSUME Typed, [Next]_vars, DeletesAsked, NEW d \in Devices,
           (\E via \in Paths : FrameStep(d, via)) \/ \E m \in Clips : ClipDecrypted(d, m)
    PROVE  DeletesAsked'
<1>1. ASSUME NEW via \in Paths, FrameStep(d, via) PROVE DeletesAsked'
  <2>1. PICK t : Arrives(d, via, t) /\ Consume(d, via)
    BY <1>1 DEF FrameStep, OnClip, OnDeleteFrame
  <2>2. UNCHANGED <<queue, up, removing, tombstones>>
    BY <1>1 DEF FrameStep, OnClip, OnDeleteFrame, relayVars
  <2>3. \A e \in Devices : Ids(wire'[e]) \subseteq Ids(wire[e]) /\ Ids(chan'[e]) \subseteq Ids(chan[e])
    BY <2>1, ConsumeIds
  <2> QED BY <2>2, <2>3, NoNewDelete DEF Mine, Told
<1>2. ASSUME NEW n \in Clips, ClipDecrypted(d, n) PROVE DeletesAsked'
  <2>1. UNCHANGED <<queue, up, wire, chan, removing, tombstones>>
    BY <1>2 DEF ClipDecrypted, pathVars, relayVars
  <2> QED BY <2>1, NoNewDelete DEF Mine, Told
<1> QED BY <1>1, <1>2

LEMMA RelayDeletes ==
    ASSUME Typed, [Next]_vars, DeletesAsked, NEW d \in Devices, RelayStep(d)
    PROVE  DeletesAsked'
<1>1. CASE OnMessage(d) /\ used[d] < FRAME_LIMIT
  <2>1. PICK f : f = Head(up[d])
    OBVIOUS
  <2>2. /\ f \in Sent /\ f.m \in Clips /\ Ids(up[d]) = {f} \cup Ids(Tail(up[d]))
        /\ f.type = "clip" => f = Clip(f.m)
        /\ f.type # "clip" => f = Delete(f.m)
    BY <1>1, <2>1, UpIds DEF OnMessage
  <2>3. f.type # "clip" => Asked(f.m)
    BY <2>2 DEF DeletesAsked, Mine, Asked
  <2>4. /\ Broadcast(d, f) /\ up' = [up EXCEPT ![d] = Tail(@)]
        /\ UNCHANGED <<queue, removing, chan, asked>>
        /\ f.type = "clip" => UNCHANGED tombstones
        /\ f.type # "clip" => AddTombstone(f.m)
    BY <1>1, <2>1 DEF OnMessage, deviceVars
  <2>5. up \in [Devices -> Seq(Sent)]
    BY DEF Typed, PathTypes
  <2>6. ASSUME NEW e \in Devices, NEW m \in Clips, Mine(e, m)' PROVE <<e, m>> \in asked'
    BY <2>2, <2>4, <2>5, <2>6 DEF Mine, DeletesAsked
  <2>7. ASSUME NEW e \in Devices, NEW m \in Clips, Told(e, m)' PROVE Asked(m)'
    <3>1. Ids(wire'[e]) \subseteq Ids(wire[e]) \cup {f}
      BY <2>2, <2>4, BroadcastIds
    <3>2. Told(e, m) \/ Delete(m) = f
      BY <2>4, <2>7, <3>1 DEF Told
    <3>3. Delete(m) = f => f.type # "clip" /\ f.m = m
      BY Frames
    <3> QED BY <2>3, <2>4, <3>2, <3>3 DEF DeletesAsked, Asked
  <2>8. ASSUME NEW m \in Clips, m \in Ids(tombstones') PROVE Asked(m)'
    <3>1. CASE f.type = "clip"
      BY <2>4, <2>8, <3>1 DEF DeletesAsked, Asked
    <3>2. CASE f.type # "clip"
      <4>1. Ids(tombstones') \subseteq Ids(tombstones) \cup {f.m}
        BY <2>2, <2>4, <3>2, TombstoneTypes
      <4> QED BY <2>3, <2>4, <2>8, <3>2, <4>1 DEF DeletesAsked, Asked
    <3> QED BY <3>1, <3>2
  <2> QED BY <2>6, <2>7, <2>8 DEF DeletesAsked
<1>2. CASE OnMessage(d) /\ ~(used[d] < FRAME_LIMIT)
  <2>1. UNCHANGED <<queue, removing, chan, wire, tombstones>> /\ up' = [up EXCEPT ![d] = <<>>]
    BY <1>2 DEF OnMessage, deviceVars
  <2>2. \A e \in Devices : Ids(up'[e]) \subseteq Ids(up[e])
    BY <2>1, NoneIs DEF Typed, PathTypes
  <2> QED BY <2>1, <2>2, NoNewDelete DEF Mine, Told
<1>3. CASE WindowSlides(d) \/ RelayCloses(d)
  <2>1. UNCHANGED <<queue, removing, chan, wire, up>>
    BY <1>3 DEF WindowSlides, RelayCloses, deviceVars, pathVars
  <2>2. Ids(tombstones') \subseteq Ids(tombstones)
    BY <1>3, NoneIs DEF WindowSlides, RelayCloses, ForgetIfEmpty
  <2> QED BY <2>1, <2>2, NoNewDelete DEF Mine, Told
<1> QED BY <1>1, <1>2, <1>3 DEF RelayStep

LEMMA ConnectionDeletes ==
    ASSUME Typed, [Next]_vars, DeletesAsked,
           RelayRestarts \/ \E d \in Devices : ConnectionStep(d)
    PROVE  DeletesAsked'
<1>1. ASSUME NEW d \in Devices, Connect(d) PROVE DeletesAsked'
  <2>1. UNCHANGED <<queue, removing, chan, up, asked, tombstones>> /\ wire' = [wire EXCEPT ![d] = Greeting]
    BY <1>1 DEF Connect, historyVars
  <2>2. ASSUME NEW e \in Devices, NEW m \in Clips, Told(e, m)' PROVE Asked(m)
    <3>1. wire \in [Devices -> Seq(Sent \cup {Hello})]
      BY DEF Typed, PathTypes
    <3>2. Told(e, m) \/ Delete(m) \in Ids(Greeting)
      BY <2>1, <2>2, <3>1 DEF Told
    <3>3. Delete(m) \in Ids(Greeting) => m \in Ids(tombstones)
      BY GreetingIds
    <3> QED BY <3>2, <3>3 DEF DeletesAsked
  <2> QED BY <2>1, <2>2, AskedStays DEF DeletesAsked, Mine
<1>2. ASSUME NEW d \in Devices, NetFails(d) \/ ClientCloses(d) \/ Reload(d) \/ CloseLink(d) \/ \E e \in Devices : OpenLink(d, e)
      PROVE  DeletesAsked'
  <2>1. UNCHANGED tombstones
    BY <1>2 DEF NetFails, ClientCloses, Reload, CloseLink, OpenLink, relayVars
  <2>2. \A e \in Devices : /\ queue'[e] = queue[e] \/ queue'[e] = <<>>
                           /\ up'[e] = up[e] \/ up'[e] = <<>>
                           /\ wire'[e] = wire[e] \/ wire'[e] = <<>>
                           /\ chan'[e] = chan[e] \/ chan'[e] = <<>>
                           /\ removing'[e] \subseteq removing[e]
    BY <1>2 DEF NetFails, ClientCloses, Reload, CloseLink, OpenLink, CutLink, pathVars, relayVars,
                deviceVars, Typed, DeviceTypes, PathTypes
  <2>3. Ids(<<>>) = {}
    BY NoneIs
  <2> QED BY <2>1, <2>2, <2>3, NoNewDelete DEF Mine, Told
<1>3. CASE RelayRestarts
  <2>1. /\ UNCHANGED <<queue, removing, chan>> /\ tombstones' = <<>>
        /\ \A e \in Devices : up'[e] = <<>> /\ wire'[e] = <<>>
    BY <1>3 DEF RelayRestarts, deviceVars
  <2>2. Ids(<<>>) = {}
    BY NoneIs
  <2> QED BY <2>1, <2>2, NoNewDelete DEF Mine, Told
<1> QED BY <1>1, <1>2, <1>3 DEF ConnectionStep

LEMMA StepDeletes == Typed /\ DeletesAsked /\ [Next]_vars => DeletesAsked'
<1> SUFFICES ASSUME Typed, DeletesAsked, [Next]_vars PROVE DeletesAsked'
  OBVIOUS
<1>1. CASE UNCHANGED vars
  BY <1>1, NoNewDelete DEF vars, deviceVars, pathVars, relayVars, Mine, Told
<1> QED BY <1>1, UserDeletes, FrameDeletes, RelayDeletes, ConnectionDeletes
        DEF Next, ClientStep

LEMMA InitDeletes == Init => DeletesAsked
  BY NoneIs DEF Init, DeletesAsked, Mine, Told

-----------------------------------------------------------------------------
(* Backfill. *)

\* The list of d has m, unless somebody deleted it.
Listed(d, m) == m \in items[d] \/ Asked(m)

\* Or will have it.
Taken(d, m) == Listed(d, m) \/ decrypting[d][m] > 0

InRoom == \A d \in Devices : net[d] => d \in sockets

\* What a device admitted it takes; what it sends it has; and as long as its path
\* works, what the ring holds has reached it or is on its way.
Backfilled ==
    \A d \in Devices, m \in Clips :
        /\ m \in Ids(replay[d]) => Taken(d, m)
        /\ Clip(m) \in Ids(queue[d]) \cup Ids(up[d]) => Listed(d, m)
        /\ net[d] /\ m \in Ids(recent) => Taken(d, m) \/ Clip(m) \in Ids(wire[d])

LEMMA ListedStays ==
    ASSUME Typed, DeletesAsked, [Next]_vars, NEW d \in Devices, NEW m \in Clips, Listed(d, m)
    PROVE  Listed(d, m)'
<1> SUFFICES ASSUME m \in items[d] PROVE Listed(d, m)'
  BY AskedStays DEF Listed
<1>1. items \in [Devices -> SUBSET Clips]
  BY DEF Typed, DeviceTypes
<1>2. ASSUME NEW e \in Devices, ClientStep(e) PROVE Listed(d, m)'
  <2>1. CASE Compose(e) \/ OnHello(e) \/ \E n \in Clips : DeleteStored(e, n) \/ ClipDecrypted(e, n)
    BY <1>1, <2>1 DEF Compose, OnHello, DeleteStored, ClipDecrypted, Listed
  <2>2. ASSUME NEW n \in Clips, OnDelete(e, n) PROVE Listed(d, m)'
    BY <1>1, <2>2 DEF OnDelete, Listed, Asked
  <2>3. ASSUME NEW via \in Paths, OnClip(e, via) PROVE Listed(d, m)'
    BY <2>3 DEF OnClip, Listed
  <2>4. ASSUME NEW via \in Paths, OnDeleteFrame(e, via) PROVE Listed(d, m)'
    <3> PICK n : n = Arg(e, via)
      OBVIOUS
    <3>1. Arrives(e, via, "delete") /\ items' = [items EXCEPT ![e] = @ \ {n}]
      BY <2>4 DEF OnDeleteFrame
    <3>2. n \in Clips /\ Delete(n) \in Ids(wire[e]) \cup Ids(chan[e])
      BY <3>1, ArrivingIds
    <3>3. Asked(n)'
      BY <3>2, AskedStays DEF DeletesAsked, Told
    <3> QED BY <1>1, <3>1, <3>3 DEF Listed
  <2> QED BY <1>2, <2>1, <2>2, <2>3, <2>4 DEF ClientStep, FrameStep
<1>3. ASSUME UNCHANGED items PROVE Listed(d, m)'
  BY <1>3 DEF Listed
<1>4. ASSUME NEW e \in Devices, RelayStep(e) PROVE UNCHANGED items
  BY <1>4 DEF RelayStep, OnMessage, WindowSlides, RelayCloses, deviceVars
<1>5. ASSUME NEW e \in Devices, ConnectionStep(e) PROVE UNCHANGED items
  BY <1>5 DEF ConnectionStep, Connect, NetFails, ClientCloses, Reload, CloseLink, OpenLink, deviceVars
<1>6. RelayRestarts \/ UNCHANGED vars => UNCHANGED items
  BY DEF RelayRestarts, vars, deviceVars
<1> QED BY <1>2, <1>3, <1>4, <1>5, <1>6 DEF Next

LEMMA TakenStays ==
    ASSUME Typed, DeletesAsked, [Next]_vars, NEW d \in Devices, NEW m \in Clips, Taken(d, m),
           ~Reload(d)
    PROVE  Taken(d, m)'
<1> SUFFICES ASSUME decrypting[d][m] > 0 PROVE Taken(d, m)'
  BY ListedStays DEF Taken
<1>1. decrypting \in [Devices -> [Clips -> Nat]] /\ items \in [Devices -> SUBSET Clips]
  BY DEF Typed, DeviceTypes
<1>2. ASSUME NEW e \in Devices, NEW n \in Clips, ClipDecrypted(e, n) PROVE Taken(d, m)'
  <2>1. /\ decrypting' = [decrypting EXCEPT ![e][n] = @ - 1]
        /\ items' = [items EXCEPT ![e] = @ \cup {n}]
    BY <1>2 DEF ClipDecrypted
  <2>2. CASE e = d /\ n = m
    BY <1>1, <2>1, <2>2 DEF Taken, Listed
  <2>3. CASE ~(e = d /\ n = m)
    BY <1>1, <2>1, <2>3 DEF Taken
  <2> QED BY <2>2, <2>3
<1>3. ASSUME NEW e \in Devices, NEW via \in Paths, OnClip(e, via) PROVE Taken(d, m)'
  <2>1. Arg(e, via) \in Clips
    BY <1>3, ArrivingIds DEF OnClip
  <2>2. UNCHANGED decrypting \/ decrypting' = [decrypting EXCEPT ![e][Arg(e, via)] = @ + 1]
    BY <1>3 DEF OnClip
  <2> QED BY <1>1, <2>1, <2>2 DEF Taken
<1>4. ASSUME NEW e \in Devices, Reload(e) PROVE Taken(d, m)'
  <2>1. e # d /\ decrypting' = [decrypting EXCEPT ![e] = [n \in Clips |-> 0]]
    BY <1>4 DEF Reload
  <2> QED BY <1>1, <2>1 DEF Taken
<1>5. ASSUME UNCHANGED decrypting PROVE Taken(d, m)'
  BY <1>5 DEF Taken
<1>6. ASSUME NEW e \in Devices, ClientStep(e)
      PROVE  \/ UNCHANGED decrypting
             \/ \E n \in Clips : ClipDecrypted(e, n)
             \/ \E via \in Paths : OnClip(e, via)
  BY <1>6 DEF ClientStep, FrameStep, Compose, OnHello, OnDelete, DeleteStored, OnDeleteFrame
<1>7. ASSUME NEW e \in Devices, RelayStep(e) PROVE UNCHANGED decrypting
  BY <1>7 DEF RelayStep, OnMessage, WindowSlides, RelayCloses, deviceVars
<1>8. ASSUME NEW e \in Devices, ConnectionStep(e) PROVE UNCHANGED decrypting \/ Reload(e)
  BY <1>8 DEF ConnectionStep, Connect, NetFails, ClientCloses, CloseLink, OpenLink, deviceVars
<1>9. RelayRestarts \/ UNCHANGED vars => UNCHANGED decrypting
  BY DEF RelayRestarts, vars, deviceVars
<1> QED BY <1>2, <1>3, <1>4, <1>5, <1>6, <1>7, <1>8, <1>9 DEF Next

LEMMA StepInRoom == Typed /\ InRoom /\ [Next]_vars => InRoom'
<1> SUFFICES ASSUME Typed, InRoom, [Next]_vars PROVE InRoom'
  OBVIOUS
<1>1. net \in [Devices -> BOOLEAN]
  BY DEF Typed, PathTypes
<1>2. ASSUME NEW e \in Devices, ClientStep(e) PROVE UNCHANGED <<net, sockets>>
  BY <1>2 DEF ClientStep, FrameStep, Compose, OnHello, OnDelete, DeleteStored, ClipDecrypted, OnClip,
              OnDeleteFrame, pathVars, relayVars
<1>3. ASSUME NEW e \in Devices, RelayStep(e) PROVE InRoom'
  BY <1>1, <1>3 DEF RelayStep, OnMessage, WindowSlides, RelayCloses, pathVars, InRoom
<1>4. ASSUME NEW e \in Devices, ConnectionStep(e) PROVE InRoom'
  BY <1>1, <1>4 DEF ConnectionStep, Connect, NetFails, ClientCloses, Reload, CloseLink, OpenLink,
                    pathVars, relayVars, InRoom
<1>5. CASE RelayRestarts
  BY <1>5 DEF RelayRestarts, InRoom
<1> QED BY <1>2, <1>3, <1>4, <1>5 DEF Next, vars, pathVars, relayVars, InRoom

\* A step that brings nothing new keeps it.
LEMMA NothingReaches ==
    ASSUME Typed, DeletesAsked, [Next]_vars, Backfilled,
           \A d \in Devices :
              /\ Ids(replay'[d]) \subseteq Ids(replay[d])
              /\ Reload(d) => Ids(replay'[d]) = {} /\ ~net'[d]
              /\ \A m \in Clips : Clip(m) \in Ids(queue'[d]) \cup Ids(up'[d])
                                     => Clip(m) \in Ids(queue[d]) \cup Ids(up[d])
              /\ net'[d] => net[d]
              /\ \A m \in Clips : net'[d] /\ Clip(m) \in Ids(wire[d]) => Clip(m) \in Ids(wire'[d]),
           Ids(recent') \subseteq Ids(recent)
    PROVE  Backfilled'
<1> SUFFICES ASSUME NEW d \in Devices, NEW m \in Clips
             PROVE  /\ m \in Ids(replay'[d]) => Taken(d, m)'
                    /\ Clip(m) \in Ids(queue'[d]) \cup Ids(up'[d]) => Listed(d, m)'
                    /\ net'[d] /\ m \in Ids(recent') => Taken(d, m)' \/ Clip(m) \in Ids(wire'[d])
  BY DEF Backfilled
<1>1. (~Reload(d) /\ Taken(d, m) => Taken(d, m)') /\ (Listed(d, m) => Listed(d, m)')
  BY TakenStays, ListedStays
<1> QED BY <1>1 DEF Backfilled

LEMMA NoFault ==
    ASSUME Typed, NEW d \in Devices, faults' = faults
    PROVE  ~Reload(d)
  BY DEF Reload, Fault, Typed, HistoryTypes

LEMMA OnClipBackfills ==
    ASSUME Typed, DeletesAsked, Backfilled, [Next]_vars, NEW e \in Devices, NEW via \in Paths,
           OnClip(e, via)
    PROVE  Backfilled'
<1> PICK n : n = Arg(e, via)
  OBVIOUS
<1>1. n \in Clips /\ Arrives(e, via, "clip") /\ Consume(e, via)
  BY ArrivingIds DEF OnClip
<1>2. UNCHANGED <<queue, up, items, net, recent, faults>>
  BY DEF OnClip, relayVars
<1>3. n \in Ids(replay'[e]) /\ \A d \in Devices : /\ d # e => replay'[d] = replay[d]
                                                  /\ Ids(replay'[d]) \subseteq Ids(replay[d]) \cup {n}
  <2>1. replay \in [Devices -> Seq(Clips)]
    BY DEF Typed, DeviceTypes
  <2>2. CASE n \in Ids(replay[e])
    BY <2>2 DEF OnClip
  <2>3. CASE n \notin Ids(replay[e])
    <3>1. PICK r : r = KeepLast(Append(replay[e], n), REPLAY_CAP)
      OBVIOUS
    <3>2. Ids(r) \subseteq Ids(replay[e]) \cup {n} /\ n \in Ids(r)
      BY <1>1, <3>1, AdmitIds
    <3>3. replay' = [replay EXCEPT ![e] = r]
      BY <2>3, <3>1 DEF OnClip
    <3> QED BY <2>1, <3>2, <3>3
  <2> QED BY <2>2, <2>3
<1>4. Taken(e, n)'
  <2>1. CASE n \in Ids(replay[e])
    BY <1>1, <1>2, <2>1, NoFault, TakenStays DEF Backfilled
  <2>2. CASE n \notin Ids(replay[e])
    <3>1. decrypting' = [decrypting EXCEPT ![e][n] = @ + 1]
      BY <2>2 DEF OnClip
    <3> QED BY <1>1, <3>1 DEF Taken, Typed, DeviceTypes
  <2> QED BY <2>1, <2>2
<1> SUFFICES ASSUME NEW d \in Devices, NEW m \in Clips
             PROVE  /\ m \in Ids(replay'[d]) => Taken(d, m)'
                    /\ Clip(m) \in Ids(queue'[d]) \cup Ids(up'[d]) => Listed(d, m)'
                    /\ net'[d] /\ m \in Ids(recent') => Taken(d, m)' \/ Clip(m) \in Ids(wire'[d])
  BY DEF Backfilled
<1>5. (Taken(d, m) => Taken(d, m)') /\ (Listed(d, m) => Listed(d, m)')
  BY <1>2, NoFault, TakenStays, ListedStays
<1>6. m \in Ids(replay'[d]) => Taken(d, m)'
  BY <1>1, <1>3, <1>4, <1>5 DEF Backfilled
<1>7. Clip(m) \in Ids(wire[d]) => Clip(m) \in Ids(wire'[d]) \/ (d = e /\ m = n)
  <2>1. /\ d # e => wire'[d] = wire[d]
        /\ via = "ws" => Ids(wire[e]) = {Head(wire[e])} \cup Ids(wire'[e])
        /\ via = "p2p" => wire' = wire
    BY <1>1, ConsumeIds
  <2>2. via = "ws" => Head(wire[e]) = [type |-> "clip", m |-> n]
    BY <1>1, Arriving
  <2>3. Clip(m) = [type |-> "clip", m |-> n] => m = n
    BY DEF Clip
  <2> QED BY <2>1, <2>2, <2>3 DEF Paths
<1> QED BY <1>2, <1>4, <1>5, <1>6, <1>7 DEF Backfilled

LEMMA ComposeBackfills ==
    ASSUME Typed, DeletesAsked, Backfilled, [Next]_vars, NEW e \in Devices, Compose(e)
    PROVE  Backfilled'
<1>1. PICK n \in Clips : n = Len(author) + 1
  BY DEF Compose
<1>2. Clip(n) \in Sent /\ \A m : (Clip(m) = Clip(n) => m = n)
  BY Frames
<1>3. /\ UNCHANGED <<replay, wire, decrypting, net, recent, faults>>
      /\ items' = [items EXCEPT ![e] = @ \cup {n}]
  BY <1>1 DEF Compose, relayVars
<1>4. Listed(e, n)'
  BY <1>3 DEF Listed, Typed, DeviceTypes
<1> SUFFICES ASSUME NEW d \in Devices, NEW m \in Clips
             PROVE  /\ m \in Ids(replay'[d]) => Taken(d, m)'
                    /\ Clip(m) \in Ids(queue'[d]) \cup Ids(up'[d]) => Listed(d, m)'
                    /\ net'[d] /\ m \in Ids(recent') => Taken(d, m)' \/ Clip(m) \in Ids(wire'[d])
  BY DEF Backfilled
<1>5. (Taken(d, m) => Taken(d, m)') /\ (Listed(d, m) => Listed(d, m)')
  BY <1>3, NoFault, TakenStays, ListedStays
<1>6. Clip(m) \in Ids(queue'[d]) \cup Ids(up'[d])
          => Clip(m) \in Ids(queue[d]) \cup Ids(up[d]) \/ (d = e /\ m = n)
  <2>1. CASE SendFrame(e, Clip(n)) /\ UNCHANGED <<queue, pending>>
    <3>1. Ids(up'[d]) \subseteq Ids(up[d]) \cup {Clip(n)} /\ (d # e => up'[d] = up[d])
      BY <1>2, <2>1, SendIds
    <3> QED BY <1>2, <2>1, <3>1
  <2>2. CASE Enqueue(e, Clip(n)) /\ UNCHANGED <<up, chan>>
    <3>1. Ids(queue'[d]) \subseteq Ids(queue[d]) \cup {Clip(n)} /\ (d # e => queue'[d] = queue[d])
      BY <1>2, <2>2, EnqueueIds
    <3> QED BY <1>2, <2>2, <3>1
  <2> QED BY <1>1, <2>1, <2>2 DEF Compose
<1> QED BY <1>3, <1>4, <1>5, <1>6 DEF Backfilled

LEMMA ClientBackfills ==
    ASSUME Typed, DeletesAsked, Backfilled, [Next]_vars, NEW e \in Devices, ClientStep(e)
    PROVE  Backfilled'
<1>1. CASE OnHello(e)
  <2>1. FlushQueue(e) /\ Arrives(e, "ws", "hello") /\ Consume(e, "ws") /\ "ws" \in Paths
    BY <1>1 DEF OnHello, Paths
  <2>2. \A d \in Devices : /\ Ids(up'[d]) \subseteq Ids(up[d]) \cup Ids(queue[d])
                           /\ Ids(queue'[d]) \subseteq Ids(queue[d])
    BY <2>1, FlushIds
  <2>3. \A d \in Devices, m \in Clips : Clip(m) \in Ids(wire[d]) => Clip(m) \in Ids(wire'[d])
    <3>1. \A d \in Devices : /\ d # e => wire'[d] = wire[d]
                             /\ Ids(wire[e]) = {Head(wire[e])} \cup Ids(wire'[e])
                             /\ Head(wire[e]).type = "hello"
      BY <2>1, ConsumeIds
    <3>2. \A m \in Clips : Clip(m).type = "clip"
      BY Frames
    <3> QED BY <3>1, <3>2
  <2>4. UNCHANGED <<replay, net, recent, faults>>
    BY <1>1 DEF OnHello, relayVars
  <2> QED BY <2>2, <2>3, <2>4, NoFault, NothingReaches
<1>2. ASSUME NEW n \in Clips, DeleteStored(e, n) PROVE Backfilled'
  <2>1. UNCHANGED <<replay, net, recent, faults, wire>>
    BY <1>2 DEF DeleteStored, relayVars
  <2>2. Delete(n) \in Sent /\ \A m : Clip(m) # Delete(n)
    BY Frames
  <2>3. \A d \in Devices, m \in Clips :
            Clip(m) \in Ids(queue'[d]) \cup Ids(up'[d]) => Clip(m) \in Ids(queue[d]) \cup Ids(up[d])
    <3>1. CASE SendFrame(e, Delete(n)) /\ UNCHANGED queue
      <4>1. \A d \in Devices : Ids(up'[d]) \subseteq Ids(up[d]) \cup {Delete(n)}
        BY <2>2, <3>1, SendIds
      <4> QED BY <2>2, <3>1, <4>1
    <3>2. CASE queue' = [queue EXCEPT ![e] = RemoveFirst(@, Clip(n))] /\ UNCHANGED <<up, chan>>
      <4>1. queue \in [Devices -> Seq(Sent)]
        BY DEF Typed, DeviceTypes
      <4>2. Ids(RemoveFirst(queue[e], Clip(n))) \subseteq Ids(queue[e])
        BY <4>1, RemoveIs
      <4> QED BY <3>2, <4>1, <4>2
    <3>3. CASE Enqueue(e, Delete(n)) /\ UNCHANGED <<up, chan>>
      <4>1. \A d \in Devices : Ids(queue'[d]) \subseteq Ids(queue[d]) \cup {Delete(n)}
        BY <2>2, <3>3, EnqueueIds
      <4> QED BY <2>2, <3>3, <4>1
    <3> QED BY <1>2, <3>1, <3>2, <3>3 DEF DeleteStored
  <2> QED BY <2>1, <2>3, NoFault, NothingReaches
<1>3. ASSUME NEW via \in Paths, OnDeleteFrame(e, via) PROVE Backfilled'
  <2>1. Arrives(e, via, "delete") /\ Consume(e, via) /\ UNCHANGED <<replay, net, recent, faults, queue, up>>
    BY <1>3 DEF OnDeleteFrame, relayVars
  <2>2. \A d \in Devices, m \in Clips : Clip(m) \in Ids(wire[d]) => Clip(m) \in Ids(wire'[d])
    <3>1. \A d \in Devices : /\ d # e => wire'[d] = wire[d]
                             /\ via = "ws" => /\ Ids(wire[e]) = {Head(wire[e])} \cup Ids(wire'[e])
                                              /\ Head(wire[e]).type = "delete"
                             /\ via = "p2p" => wire' = wire
      BY <2>1, ConsumeIds
    <3>2. \A m \in Clips : Clip(m).type = "clip"
      BY Frames
    <3> QED BY <3>1, <3>2 DEF Paths
  <2> QED BY <2>1, <2>2, NoFault, NothingReaches
<1>4. ASSUME NEW n \in Clips, OnDelete(e, n) \/ ClipDecrypted(e, n) PROVE Backfilled'
  <2>1. UNCHANGED <<replay, net, recent, faults, queue, up, wire>>
    BY <1>4 DEF OnDelete, ClipDecrypted, relayVars, pathVars
  <2> QED BY <2>1, NoFault, NothingReaches
<1> QED BY <1>1, <1>2, <1>3, <1>4, OnClipBackfills, ComposeBackfills DEF ClientStep, FrameStep

LEMMA RelayBackfills ==
    ASSUME Typed, DeletesAsked, InRoom, Backfilled, [Next]_vars, NEW e \in Devices, RelayStep(e)
    PROVE  Backfilled'
<1>1. CASE OnMessage(e) /\ used[e] < FRAME_LIMIT
  <2>1. PICK f : f = Head(up[e])
    OBVIOUS
  <2>2. /\ f \in Sent /\ f.m \in Clips /\ Ids(up[e]) = {f} \cup Ids(Tail(up[e]))
        /\ f.type = "clip" => f = Clip(f.m)
    BY <1>1, <2>1, UpIds DEF OnMessage
  <2>3. /\ Broadcast(e, f) /\ up' = [up EXCEPT ![e] = Tail(@)]
        /\ UNCHANGED <<queue, replay, net, faults>>
        /\ f.type = "clip" => PushRecent(f.m)
        /\ f.type # "clip" => RemoveRecent(f.m)
    BY <1>1, <2>1 DEF OnMessage, deviceVars
  <2>4. Ids(recent') \subseteq Ids(recent) \/ (f = Clip(f.m) /\ Ids(recent') \subseteq Ids(recent) \cup {f.m})
    BY <2>2, <2>3, PushIds, DropIds
  <2> SUFFICES ASSUME NEW d \in Devices, NEW m \in Clips
               PROVE  /\ m \in Ids(replay'[d]) => Taken(d, m)'
                      /\ Clip(m) \in Ids(queue'[d]) \cup Ids(up'[d]) => Listed(d, m)'
                      /\ net'[d] /\ m \in Ids(recent') => Taken(d, m)' \/ Clip(m) \in Ids(wire'[d])
    BY DEF Backfilled
  <2>5. (Taken(d, m) => Taken(d, m)') /\ (Listed(d, m) => Listed(d, m)')
    BY <2>3, NoFault, TakenStays, ListedStays
  <2>6. Clip(m) \in Ids(queue'[d]) \cup Ids(up'[d]) => Clip(m) \in Ids(queue[d]) \cup Ids(up[d])
    <3>1. up \in [Devices -> Seq(Sent)]
      BY DEF Typed, PathTypes
    <3> QED BY <2>2, <2>3, <3>1
  <2>7. ASSUME net'[d], m \in Ids(recent') PROVE Taken(d, m)' \/ Clip(m) \in Ids(wire'[d])
    <3>1. Ids(wire[d]) \subseteq Ids(wire'[d]) /\ (d # e /\ d \in sockets /\ net[d] => f \in Ids(wire'[d]))
      BY <2>2, <2>3, BroadcastIds
    <3>2. CASE m \in Ids(recent)
      BY <2>3, <2>5, <2>7, <3>1, <3>2 DEF Backfilled
    <3>3. CASE m \notin Ids(recent)
      <4>1. f = Clip(m)
        BY <2>4, <2>7, <3>3
      <4>2. CASE d = e
        BY <2>2, <2>5, <4>1, <4>2 DEF Backfilled, Taken
      <4>3. CASE d # e
        BY <2>3, <2>7, <3>1, <4>1, <4>3 DEF InRoom
      <4> QED BY <4>2, <4>3
    <3> QED BY <3>2, <3>3
  <2> QED BY <2>3, <2>5, <2>6, <2>7 DEF Backfilled
<1>2. CASE OnMessage(e) /\ ~(used[e] < FRAME_LIMIT)
  <2>1. /\ UNCHANGED <<queue, replay, wire, recent, faults>> /\ up' = [up EXCEPT ![e] = <<>>]
        /\ net' = [net EXCEPT ![e] = FALSE]
    BY <1>2 DEF OnMessage, deviceVars
  <2>2. \A d \in Devices : Ids(up'[d]) \subseteq Ids(up[d]) /\ (net'[d] => net[d])
    BY <2>1, NoneIs DEF Typed, PathTypes
  <2> QED BY <2>1, <2>2, NoFault, NothingReaches
<1>3. CASE WindowSlides(e) \/ RelayCloses(e)
  <2>1. UNCHANGED <<queue, replay, wire, up, net, faults>>
    BY <1>3 DEF WindowSlides, RelayCloses, deviceVars, pathVars
  <2>2. Ids(recent') \subseteq Ids(recent)
    BY <1>3, NoneIs DEF WindowSlides, RelayCloses, ForgetIfEmpty
  <2> QED BY <2>1, <2>2, NoFault, NothingReaches
<1> QED BY <1>1, <1>2, <1>3 DEF RelayStep

LEMMA ConnectionBackfills ==
    ASSUME Typed, DeletesAsked, InRoom, Backfilled, [Next]_vars,
           RelayRestarts \/ \E d \in Devices : ConnectionStep(d)
    PROVE  Backfilled'
<1>1. ASSUME NEW e \in Devices, Connect(e) PROVE Backfilled'
  <2>1. /\ UNCHANGED <<queue, replay, up, recent, faults>> /\ wire' = [wire EXCEPT ![e] = Greeting]
        /\ net' = [net EXCEPT ![e] = TRUE]
    BY <1>1 DEF Connect, historyVars
  <2> SUFFICES ASSUME NEW d \in Devices, NEW m \in Clips
               PROVE  /\ m \in Ids(replay'[d]) => Taken(d, m)'
                      /\ Clip(m) \in Ids(queue'[d]) \cup Ids(up'[d]) => Listed(d, m)'
                      /\ net'[d] /\ m \in Ids(recent') => Taken(d, m)' \/ Clip(m) \in Ids(wire'[d])
    BY DEF Backfilled
  <2>2. (Taken(d, m) => Taken(d, m)') /\ (Listed(d, m) => Listed(d, m)')
    BY <2>1, NoFault, TakenStays, ListedStays
  <2>3. wire \in [Devices -> Seq(Sent \cup {Hello})] /\ net \in [Devices -> BOOLEAN]
    BY DEF Typed, PathTypes
  <2>4. m \in Ids(recent) => Clip(m) \in Ids(Greeting)
    BY GreetingIds
  <2> QED BY <2>1, <2>2, <2>3, <2>4 DEF Backfilled
<1>2. ASSUME NEW e \in Devices, NetFails(e) \/ ClientCloses(e) \/ Reload(e) \/ CloseLink(e) \/ \E d \in Devices : OpenLink(e, d)
      PROVE  Backfilled'
  <2>1. UNCHANGED recent
    BY <1>2 DEF NetFails, ClientCloses, Reload, CloseLink, OpenLink, relayVars
  <2>2. \A d \in Devices : /\ queue'[d] = queue[d] \/ queue'[d] = <<>>
                           /\ up'[d] = up[d] \/ up'[d] = <<>>
                           /\ replay'[d] = replay[d] \/ replay'[d] = <<>>
                           /\ wire'[d] = wire[d] \/ ~net'[d]
                           /\ net'[d] => net[d]
    BY <1>2 DEF NetFails, ClientCloses, Reload, CloseLink, OpenLink, CutLink, pathVars, relayVars,
                deviceVars, Typed, DeviceTypes, PathTypes
  <2>3. Ids(<<>>) = {}
    BY NoneIs
  <2>4. \A d \in Devices : Reload(d) => Ids(replay'[d]) = {} /\ ~net'[d]
    BY <2>3 DEF Reload, Typed, DeviceTypes, PathTypes
  <2> QED BY <2>1, <2>2, <2>3, <2>4, NothingReaches
<1>3. CASE RelayRestarts
  <2>1. /\ UNCHANGED <<queue, replay>> /\ recent' = <<>>
        /\ \A e \in Devices : up'[e] = <<>> /\ ~net'[e]
    BY <1>3 DEF RelayRestarts, deviceVars
  <2>2. Ids(<<>>) = {}
    BY NoneIs
  <2>3. \A d \in Devices : Reload(d) => Ids(replay'[d]) = {}
    BY <2>2 DEF Reload, Typed, DeviceTypes
  <2> QED BY <2>1, <2>2, <2>3, NothingReaches
<1> QED BY <1>1, <1>2, <1>3 DEF ConnectionStep

LEMMA StepBackfilled == Typed /\ DeletesAsked /\ InRoom /\ Backfilled /\ [Next]_vars => Backfilled'
<1> SUFFICES ASSUME Typed, DeletesAsked, InRoom, Backfilled, [Next]_vars PROVE Backfilled'
  OBVIOUS
<1>1. CASE UNCHANGED vars
  <2>1. UNCHANGED <<queue, replay, wire, up, net, faults, recent>>
    BY <1>1 DEF vars, deviceVars, pathVars, relayVars
  <2> QED BY <2>1, NoFault, NothingReaches
<1> QED BY <1>1, ClientBackfills, RelayBackfills, ConnectionBackfills DEF Next

LEMMA InitBackfilled == Init => InRoom /\ Backfilled
  BY NoneIs DEF Init, InRoom, Backfilled

THEOREM BackfillInductive == Spec => [](Typed /\ DeletesAsked /\ InRoom /\ Backfilled)
  BY InitTyped, InitDeletes, InitBackfilled, StepTyped, StepDeletes, StepInRoom, StepBackfilled,
     PTL DEF Spec

\* Backfill is complete: whatever the ring holds is in the list of every settled
\* device, wherever it was when the clip was sent, unless somebody deleted it
\* (ws-handlers.ts onOpen and the fan-out; client.ts handleFrame).
THEOREM RingIsShown == Spec => []RingShown
<1>1. Typed /\ Backfilled => RingShown
  <2> SUFFICES ASSUME Typed, Backfilled, NEW d \in Devices, Settled(d), NEW m \in Ids(recent)
               PROVE  m \in items[d] \/ \E e \in Devices : <<e, m>> \in asked
    BY DEF RingShown
  <2>1. m \in Clips
    BY SeqIs DEF Ids, Typed, RelayTypes
  <2>2. net[d] /\ Ids(wire[d]) = {} /\ ~(decrypting[d][m] > 0)
    BY <2>1, NoneIs DEF Settled
  <2> QED BY <2>1, <2>2 DEF Backfilled, Taken, Listed, Asked
<1> QED BY <1>1, BackfillInductive, PTL

-----------------------------------------------------------------------------
(* A clip that has not left its author. *)

\* e knows nothing of m.
Ignorant(e, m) ==
    /\ m \notin items[e]
    /\ ~Mine(e, m)
    /\ Clip(m) \notin Ids(queue[e]) \cup Ids(up[e])

\* Nothing of m has reached e, or is about to.
Unreached(e, m) ==
    /\ Clip(m) \notin Ids(wire[e]) \cup Ids(chan[e])
    /\ m \notin Ids(replay[e]) /\ m \notin shown[e] /\ decrypting[e][m] = 0

\* Nobody but a knows of m.
Unheard(m, a) ==
    /\ m \notin Ids(recent)
    /\ \A e \in Devices : (e # a => Ignorant(e, m)) /\ Unreached(e, m)

Waiting(a, m) == Clip(m) \in Ids(queue[a]) \cup Ids(up[a])

Fresh ==
    /\ \A m \in Clips : m > Len(author) => Unheard(m, NoDevice)
    /\ \A a \in Devices, m \in Clips : Waiting(a, m) => Unheard(m, a)

ClipOnce(s) == \A i, j \in DOMAIN s : s[i] = s[j] /\ s[i].type = "clip" => i = j

Single ==
    /\ \A a \in Devices : /\ ClipOnce(queue[a]) /\ ClipOnce(up[a])
                          /\ \A m \in Clips : ~(Clip(m) \in Ids(queue[a]) /\ Clip(m) \in Ids(up[a]))
    /\ Distinct(recent)

LEMMA WithinOnce ==
    ASSUME NEW T, NEW r \in Seq(T), NEW s \in Seq(T), Within(r, s)
    PROVE  (ClipOnce(s) => ClipOnce(r)) /\ (Distinct(s) => Distinct(r))
<1>1. PICK e \in [DOMAIN r -> DOMAIN s] :
          /\ \A i \in DOMAIN r : r[i] = s[e[i]]
          /\ \A i, j \in DOMAIN r : i < j => e[i] < e[j]
  BY DEF Within
<1>2. DOMAIN r = 1 .. Len(r) /\ DOMAIN s = 1 .. Len(s) /\ Len(r) \in Nat /\ Len(s) \in Nat
  BY SeqIs
<1>3. ASSUME NEW i \in DOMAIN r, NEW j \in DOMAIN r, e[i] = e[j] PROVE i = j
  BY <1>1, <1>2, <1>3
<1> QED BY <1>1, <1>3 DEF ClipOnce, Distinct

LEMMA AppendOnce ==
    ASSUME NEW T, NEW s \in Seq(T), NEW x \in T
    PROVE  /\ ClipOnce(s) /\ (x.type = "clip" => x \notin Ids(s)) => ClipOnce(Append(s, x))
           /\ Distinct(s) /\ x \notin Ids(s) => Distinct(Append(s, x))
<1>1. PICK r : r = Append(s, x)
  OBVIOUS
<1>2. /\ DOMAIN r = 1 .. Len(s) + 1 /\ r[Len(s) + 1] = x
      /\ \A i \in 1 .. Len(s) : r[i] = s[i]
      /\ Len(s) \in Nat /\ DOMAIN s = 1 .. Len(s)
  BY <1>1, AppendIs, SeqIs
<1>3. \A i \in DOMAIN r : i = Len(s) + 1 \/ i \in DOMAIN s
  BY <1>2
<1>4. \A i \in DOMAIN s : s[i] \in Ids(s)
  BY DEF Ids
<1>5. ASSUME ClipOnce(s), x.type = "clip" => x \notin Ids(s) PROVE ClipOnce(r)
  BY <1>2, <1>3, <1>4, <1>5 DEF ClipOnce
<1>6. ASSUME Distinct(s), x \notin Ids(s) PROVE Distinct(r)
  BY <1>2, <1>3, <1>4, <1>6 DEF Distinct
<1> QED BY <1>1, <1>5, <1>6

LEMMA ConcatOnce ==
    ASSUME NEW T, NEW s \in Seq(T), NEW t \in Seq(T), ClipOnce(s), ClipOnce(t),
           \A x \in Ids(s) \cap Ids(t) : x.type # "clip"
    PROVE  ClipOnce(s \o t)
<1>1. PICK r : r = s \o t
  OBVIOUS
<1>2. /\ DOMAIN r = 1 .. Len(s) + Len(t)
      /\ \A i \in 1 .. Len(s) : r[i] = s[i]
      /\ \A i \in 1 .. Len(t) : r[Len(s) + i] = t[i]
      /\ Len(s) \in Nat /\ DOMAIN s = 1 .. Len(s) /\ Len(t) \in Nat /\ DOMAIN t = 1 .. Len(t)
  BY <1>1, ConcatIs, SeqIs
<1>3. ASSUME NEW i \in DOMAIN r PROVE i \in DOMAIN s \/ \E k \in DOMAIN t : i = Len(s) + k
  <2>1. CASE i <= Len(s)
    BY <1>2, <2>1
  <2>2. CASE ~(i <= Len(s))
    <3>1. i - Len(s) \in DOMAIN t /\ i = Len(s) + (i - Len(s))
      BY <1>2, <2>2
    <3> QED BY <3>1
  <2> QED BY <2>1, <2>2
<1>4. (\A i \in DOMAIN s : s[i] \in Ids(s)) /\ (\A i \in DOMAIN t : t[i] \in Ids(t))
  BY DEF Ids
<1> SUFFICES ASSUME NEW i \in DOMAIN r, NEW j \in DOMAIN r, r[i] = r[j], r[i].type = "clip"
             PROVE  i = j
  BY <1>1 DEF ClipOnce
<1>5. CASE i \in DOMAIN s /\ j \in DOMAIN s
  BY <1>2, <1>5 DEF ClipOnce
<1>6. CASE \E k \in DOMAIN t, l \in DOMAIN t : i = Len(s) + k /\ j = Len(s) + l
  BY <1>2, <1>6 DEF ClipOnce
<1>7. ASSUME \/ i \in DOMAIN s /\ \E k \in DOMAIN t : j = Len(s) + k
             \/ j \in DOMAIN s /\ \E k \in DOMAIN t : i = Len(s) + k
      PROVE  FALSE
  BY <1>2, <1>4, <1>7
<1> QED BY <1>3, <1>5, <1>6, <1>7

LEMMA HeadOnce ==
    ASSUME NEW T, NEW s \in Seq(T), s # <<>>, ClipOnce(s), Head(s).type = "clip"
    PROVE  Head(s) \notin Ids(Tail(s))
<1>1. /\ Head(s) = s[1] /\ DOMAIN Tail(s) = 1 .. Len(s) - 1 /\ Len(s) >= 1
      /\ \A i \in 1 .. Len(s) - 1 : Tail(s)[i] = s[i + 1]
      /\ Len(s) \in Nat /\ DOMAIN s = 1 .. Len(s)
  BY TailIs, SeqIs
<1>2. ASSUME NEW i \in DOMAIN Tail(s), Tail(s)[i] = Head(s) PROVE FALSE
  <2>1. i + 1 \in DOMAIN s /\ 1 \in DOMAIN s /\ i + 1 # 1 /\ s[i + 1] = s[1]
    BY <1>1, <1>2
  <2> QED BY <1>1, <2>1 DEF ClipOnce
<1> QED BY <1>2 DEF Ids

-----------------------------------------------------------------------------
\* What is unheard of stays so, until it is composed or sent.
LEMMA ComposeUnheard ==
    ASSUME Typed, NEW d \in Devices, Compose(d), NEW m \in Clips, NEW a, Unheard(m, a),
           m # Len(author) + 1
    PROVE  Unheard(m, a)'
<1>1. PICK n \in Clips : n = Len(author) + 1
  BY DEF Compose
<1>2. Clip(n) \in Sent /\ Clip(m) # Clip(n) /\ Delete(m) # Clip(n)
  BY <1>1, Frames
<1>3. /\ UNCHANGED <<replay, decrypting, removing, wire, recent, shown>>
      /\ items' = [items EXCEPT ![d] = @ \cup {n}]
  BY <1>1 DEF Compose, relayVars, historyVars
<1>4. \A e \in Devices : /\ Ids(queue'[e]) \cup Ids(up'[e]) \subseteq Ids(queue[e]) \cup Ids(up[e]) \cup {Clip(n)}
                         /\ Ids(chan'[e]) \subseteq Ids(chan[e]) \cup {Clip(n)}
  <2>1. CASE SendFrame(d, Clip(n)) /\ UNCHANGED <<queue, pending>>
    BY <1>2, <2>1, SendIds
  <2>2. CASE Enqueue(d, Clip(n)) /\ UNCHANGED <<up, chan>>
    BY <1>2, <2>2, EnqueueIds
  <2> QED BY <1>1, <2>1, <2>2 DEF Compose
<1>5. items \in [Devices -> SUBSET Clips]
  BY DEF Typed, DeviceTypes
<1> QED BY <1>1, <1>2, <1>3, <1>4, <1>5 DEF Unheard, Ignorant, Unreached, Mine

LEMMA DeleteUnheard ==
    ASSUME Typed, NEW d \in Devices, NEW n \in Clips, OnDelete(d, n) \/ DeleteStored(d, n),
           NEW m \in Clips, NEW a, Unheard(m, a)
    PROVE  Unheard(m, a)'
<1>1. CASE OnDelete(d, n)
  <2>1. /\ UNCHANGED <<replay, decrypting, queue, up, chan, wire, recent, shown>>
        /\ items' = [items EXCEPT ![d] = @ \ {n}] /\ removing' = [removing EXCEPT ![d] = @ \cup {n}]
        /\ n \in items[d]
    BY <1>1 DEF OnDelete, relayVars, pathVars
  <2>2. items \in [Devices -> SUBSET Clips] /\ removing \in [Devices -> SUBSET Clips]
    BY DEF Typed, DeviceTypes
  <2> QED BY <2>1, <2>2 DEF Unheard, Ignorant, Unreached, Mine
<1>2. CASE DeleteStored(d, n)
  <2>1. /\ UNCHANGED <<replay, decrypting, wire, recent, shown, items>>
        /\ removing' = [removing EXCEPT ![d] = @ \ {n}] /\ n \in removing[d]
    BY <1>2 DEF DeleteStored, relayVars, historyVars
  <2>2. /\ Delete(n) \in Sent /\ Clip(m) # Delete(n) /\ (Delete(m) = Delete(n) => m = n)
    BY Frames
  <2>3. \A e \in Devices : /\ Ids(queue'[e]) \cup Ids(up'[e]) \subseteq Ids(queue[e]) \cup Ids(up[e]) \cup {Delete(n)}
                           /\ Ids(chan'[e]) \subseteq Ids(chan[e]) \cup {Delete(n)}
                           /\ e # d => Ids(queue'[e]) \subseteq Ids(queue[e]) /\ Ids(up'[e]) \subseteq Ids(up[e])
    <3>1. CASE SendFrame(d, Delete(n)) /\ UNCHANGED queue
      BY <2>2, <3>1, SendIds
    <3>2. CASE queue' = [queue EXCEPT ![d] = RemoveFirst(@, Clip(n))] /\ UNCHANGED <<up, chan>>
      <4>1. queue \in [Devices -> Seq(Sent)]
        BY DEF Typed, DeviceTypes
      <4>2. Ids(RemoveFirst(queue[d], Clip(n))) \subseteq Ids(queue[d])
        BY <4>1, RemoveIs
      <4> QED BY <3>2, <4>1, <4>2
    <3>3. CASE Enqueue(d, Delete(n)) /\ UNCHANGED <<up, chan>>
      BY <2>2, <3>3, EnqueueIds
    <3> QED BY <1>2, <3>1, <3>2, <3>3 DEF DeleteStored
  <2>4. removing \in [Devices -> SUBSET Clips]
    BY DEF Typed, DeviceTypes
  <2>5. ASSUME NEW e \in Devices, e # a PROVE Ignorant(e, m)'
    <3>1. ~(e = d /\ m = n)
      BY <2>1, <2>5 DEF Unheard, Ignorant, Mine
    <3> QED BY <2>1, <2>2, <2>3, <2>4, <2>5, <3>1 DEF Unheard, Ignorant, Mine
  <2>6. ASSUME NEW e \in Devices PROVE Unreached(e, m)'
    BY <2>1, <2>2, <2>3 DEF Unheard, Unreached
  <2> QED BY <2>1, <2>5, <2>6 DEF Unheard
<1> QED BY <1>1, <1>2

LEMMA FrameUnheard ==
    ASSUME Typed, NEW d \in Devices,
           \/ OnHello(d)
           \/ \E n \in Clips : ClipDecrypted(d, n)
           \/ \E via \in Paths : FrameStep(d, via),
           NEW m \in Clips, NEW a, Unheard(m, a)
    PROVE  Unheard(m, a)'
<1>1. CASE OnHello(d)
  <2>1. FlushQueue(d) /\ Arrives(d, "ws", "hello") /\ Consume(d, "ws") /\ "ws" \in Paths
    BY <1>1 DEF OnHello, Paths
  <2>2. \A e \in Devices : /\ Ids(up'[e]) \subseteq Ids(up[e]) \cup Ids(queue[e])
                           /\ Ids(queue'[e]) \subseteq Ids(queue[e])
                           /\ Ids(wire'[e]) \subseteq Ids(wire[e]) /\ Ids(chan'[e]) \subseteq Ids(chan[e])
    BY <2>1, FlushIds, ConsumeIds
  <2>3. UNCHANGED <<items, replay, decrypting, removing, recent, shown>>
    BY <1>1 DEF OnHello, relayVars, historyVars
  <2> QED BY <2>2, <2>3 DEF Unheard, Ignorant, Unreached, Mine
<1>2. ASSUME NEW n \in Clips, ClipDecrypted(d, n) PROVE Unheard(m, a)'
  <2>1. /\ UNCHANGED <<replay, queue, up, wire, chan, removing, recent>>
        /\ items' = [items EXCEPT ![d] = @ \cup {n}] /\ shown' = [shown EXCEPT ![d] = @ \cup {n}]
        /\ decrypting' = [decrypting EXCEPT ![d][n] = @ - 1] /\ decrypting[d][n] > 0
    BY <1>2 DEF ClipDecrypted, relayVars, pathVars
  <2>2. /\ items \in [Devices -> SUBSET Clips] /\ shown \in [Devices -> SUBSET Clips]
        /\ decrypting \in [Devices -> [Clips -> Nat]]
    BY DEF Typed, DeviceTypes, HistoryTypes
  <2>3. n # m
    BY <2>1 DEF Unheard, Unreached
  <2> QED BY <2>1, <2>2, <2>3 DEF Unheard, Ignorant, Unreached, Mine
<1>3. ASSUME NEW via \in Paths, OnClip(d, via) PROVE Unheard(m, a)'
  <2> PICK n : n = Arg(d, via)
    OBVIOUS
  <2>1. /\ n \in Clips /\ Arrives(d, via, "clip") /\ Consume(d, via)
        /\ Clip(n) \in Ids(wire[d]) \cup Ids(chan[d])
    BY <1>3, ArrivingIds DEF OnClip
  <2>2. n # m
    BY <2>1 DEF Unheard, Unreached
  <2>3. \A e \in Devices : Ids(wire'[e]) \subseteq Ids(wire[e]) /\ Ids(chan'[e]) \subseteq Ids(chan[e])
    BY <2>1, ConsumeIds
  <2>4. UNCHANGED <<items, queue, up, removing, recent, shown>>
    BY <1>3 DEF OnClip, relayVars, historyVars
  <2>5. \A e \in Devices : m \notin Ids(replay[e]) => m \notin Ids(replay'[e])
    <3>1. PICK r : r = KeepLast(Append(replay[d], n), REPLAY_CAP)
      OBVIOUS
    <3>2. Ids(r) \subseteq Ids(replay[d]) \cup {n}
      BY <2>1, <3>1, AdmitIds
    <3>3. UNCHANGED replay \/ replay' = [replay EXCEPT ![d] = r]
      BY <1>3, <3>1 DEF OnClip
    <3> QED BY <2>2, <3>2, <3>3 DEF Typed, DeviceTypes
  <2>6. \A e \in Devices : decrypting'[e][m] = decrypting[e][m]
    <3>1. UNCHANGED decrypting \/ decrypting' = [decrypting EXCEPT ![d][n] = @ + 1]
      BY <1>3 DEF OnClip
    <3>2. decrypting \in [Devices -> [Clips -> Nat]]
      BY DEF Typed, DeviceTypes
    <3> QED BY <2>1, <2>2, <3>1, <3>2
  <2> QED BY <2>3, <2>4, <2>5, <2>6 DEF Unheard, Ignorant, Unreached, Mine
<1>4. ASSUME NEW via \in Paths, OnDeleteFrame(d, via) PROVE Unheard(m, a)'
  <2>1. Arrives(d, via, "delete") /\ Consume(d, via)
    BY <1>4 DEF OnDeleteFrame
  <2>2. \A e \in Devices : Ids(wire'[e]) \subseteq Ids(wire[e]) /\ Ids(chan'[e]) \subseteq Ids(chan[e])
    BY <2>1, ConsumeIds
  <2>3. UNCHANGED <<queue, up, removing, recent, shown, replay, decrypting>>
    BY <1>4 DEF OnDeleteFrame, relayVars, historyVars
  <2>4. \A e \in Devices : items'[e] \subseteq items[e]
    BY <1>4 DEF OnDeleteFrame, Typed, DeviceTypes
  <2> QED BY <2>2, <2>3, <2>4 DEF Unheard, Ignorant, Unreached, Mine
<1> QED BY <1>1, <1>2, <1>3, <1>4 DEF FrameStep

LEMMA RelayUnheard ==
    ASSUME Typed, NEW d \in Devices, RelayStep(d), NEW m \in Clips, NEW a, Unheard(m, a),
           OnMessage(d) /\ used[d] < FRAME_LIMIT => Head(up[d]) # Clip(m)
    PROVE  Unheard(m, a)'
<1>1. CASE OnMessage(d) /\ used[d] < FRAME_LIMIT
  <2>1. PICK f : f = Head(up[d])
    OBVIOUS
  <2>2. /\ f \in Sent /\ f.m \in Clips /\ Ids(up[d]) = {f} \cup Ids(Tail(up[d])) /\ f # Clip(m)
        /\ f.type = "clip" => f = Clip(f.m)
    BY <1>1, <2>1, UpIds DEF OnMessage
  <2>3. /\ Broadcast(d, f) /\ up' = [up EXCEPT ![d] = Tail(@)]
        /\ UNCHANGED <<queue, replay, items, removing, decrypting, chan, shown>>
        /\ f.type = "clip" => PushRecent(f.m)
        /\ f.type # "clip" => RemoveRecent(f.m)
    BY <1>1, <2>1 DEF OnMessage, deviceVars
  <2>4. m \notin Ids(recent')
    BY <2>2, <2>3, PushIds, DropIds DEF Unheard
  <2>5. \A e \in Devices : Ids(wire'[e]) \subseteq Ids(wire[e]) \cup {f}
    BY <2>2, <2>3, BroadcastIds
  <2>6. \A e \in Devices : Ids(up'[e]) \subseteq Ids(up[e])
    BY <2>2, <2>3 DEF Typed, PathTypes
  <2> QED BY <2>2, <2>3, <2>4, <2>5, <2>6 DEF Unheard, Ignorant, Unreached, Mine
<1>2. CASE OnMessage(d) /\ ~(used[d] < FRAME_LIMIT)
  <2>1. /\ UNCHANGED <<queue, replay, wire, recent, items, removing, decrypting, chan, shown>>
        /\ up' = [up EXCEPT ![d] = <<>>]
    BY <1>2 DEF OnMessage, deviceVars
  <2>2. \A e \in Devices : Ids(up'[e]) \subseteq Ids(up[e])
    BY <2>1, NoneIs DEF Typed, PathTypes
  <2> QED BY <2>1, <2>2 DEF Unheard, Ignorant, Unreached, Mine
<1>3. CASE WindowSlides(d) \/ RelayCloses(d)
  <2>1. UNCHANGED <<queue, replay, wire, up, items, removing, decrypting, chan, shown>>
    BY <1>3 DEF WindowSlides, RelayCloses, deviceVars, pathVars, historyVars
  <2>2. Ids(recent') \subseteq Ids(recent)
    BY <1>3, NoneIs DEF WindowSlides, RelayCloses, ForgetIfEmpty
  <2> QED BY <2>1, <2>2 DEF Unheard, Ignorant, Unreached, Mine
<1> QED BY <1>1, <1>2, <1>3 DEF RelayStep

LEMMA ConnectionUnheard ==
    ASSUME Typed, RelayRestarts \/ (\E d \in Devices : ConnectionStep(d)) \/ UNCHANGED vars,
           NEW m \in Clips, NEW a, Unheard(m, a)
    PROVE  Unheard(m, a)'
<1>1. ASSUME NEW d \in Devices, Connect(d) PROVE Unheard(m, a)'
  <2>1. /\ UNCHANGED <<queue, replay, up, recent, items, removing, decrypting, chan, shown>>
        /\ wire' = [wire EXCEPT ![d] = Greeting]
    BY <1>1 DEF Connect, historyVars
  <2>2. Clip(m) \notin Ids(Greeting)
    BY GreetingIds DEF Unheard
  <2>3. \A e \in Devices : Clip(m) \notin Ids(wire[e]) => Clip(m) \notin Ids(wire'[e])
    BY <2>1, <2>2 DEF Typed, PathTypes
  <2> QED BY <2>1, <2>3 DEF Unheard, Ignorant, Unreached, Mine
<1>2. ASSUME /\ \A e \in Devices : /\ queue'[e] = queue[e] \/ queue'[e] = <<>>
                                   /\ up'[e] = up[e] \/ up'[e] = <<>>
                                   /\ replay'[e] = replay[e] \/ replay'[e] = <<>>
                                   /\ wire'[e] = wire[e] \/ wire'[e] = <<>>
                                   /\ chan'[e] = chan[e] \/ chan'[e] = <<>>
                                   /\ removing'[e] \subseteq removing[e] /\ shown'[e] \subseteq shown[e]
                                   /\ decrypting'[e] = decrypting[e] \/ decrypting'[e][m] = 0
             /\ UNCHANGED items /\ (UNCHANGED recent \/ recent' = <<>>)
      PROVE  Unheard(m, a)'
  BY <1>2, NoneIs DEF Unheard, Ignorant, Unreached, Mine
<1>3. ASSUME NEW d \in Devices,
             NetFails(d) \/ ClientCloses(d) \/ Reload(d) \/ CloseLink(d) \/ \E e \in Devices : OpenLink(d, e)
      PROVE  Unheard(m, a)'
  <2>1. \A e \in Devices : /\ queue'[e] = queue[e] \/ queue'[e] = <<>>
                           /\ up'[e] = up[e] \/ up'[e] = <<>>
                           /\ replay'[e] = replay[e] \/ replay'[e] = <<>>
                           /\ wire'[e] = wire[e] \/ wire'[e] = <<>>
                           /\ chan'[e] = chan[e] \/ chan'[e] = <<>>
                           /\ removing'[e] \subseteq removing[e]
                           /\ decrypting'[e] = decrypting[e] \/ decrypting'[e][m] = 0
    BY <1>3 DEF NetFails, ClientCloses, Reload, CloseLink, OpenLink, CutLink, pathVars, relayVars,
                deviceVars, Typed, DeviceTypes, PathTypes
  <2>2. UNCHANGED <<items, recent>> /\ \A e \in Devices : shown'[e] \subseteq shown[e]
    BY <1>3 DEF NetFails, ClientCloses, Reload, CloseLink, OpenLink, relayVars, deviceVars,
                historyVars, Typed, HistoryTypes
  <2> QED BY <1>2, <2>1, <2>2
<1>4. CASE RelayRestarts
  BY <1>2, <1>4 DEF RelayRestarts, deviceVars
<1>5. CASE UNCHANGED vars
  BY <1>2, <1>5 DEF vars, deviceVars, pathVars, relayVars, historyVars
<1> QED BY <1>1, <1>3, <1>4, <1>5 DEF ConnectionStep

LEMMA ComposeFresh ==
    ASSUME Typed, Fresh, NEW d \in Devices, Compose(d)
    PROVE  Fresh'
<1>1. PICK n \in Clips : n = Len(author) + 1
  BY DEF Compose
<1>2. /\ Clip(n) \in Sent /\ \A m : Clip(m) = Clip(n) => m = n
      /\ \A m : Delete(m) # Clip(n)
  BY Frames
<1>3. author' = Append(author, d) /\ Len(author') = n /\ Len(author) \in Nat
  <2>1. author \in Seq(Devices) /\ author' = Append(author, d)
    BY DEF Compose, Typed, HistoryTypes
  <2> QED BY <1>1, <2>1, AppendIs, SeqIs
<1>4. ASSUME NEW m \in Clips, m > Len(author') PROVE Unheard(m, NoDevice)'
  <2>1. m # Len(author) + 1 /\ m > Len(author)
    BY <1>1, <1>3, <1>4 DEF Clips
  <2> QED BY <2>1, ComposeUnheard DEF Fresh
<1>5. n > Len(author) /\ Unheard(n, NoDevice)
  BY <1>1, <1>3 DEF Fresh
<1>6. ASSUME NEW a \in Devices, NEW m \in Clips
      PROVE  Waiting(a, m)' => Waiting(a, m) \/ (m = n /\ a = d /\ chan' = chan)
  <2>1. CASE SendFrame(d, Clip(n)) /\ UNCHANGED <<queue, pending>>
    <3>1. /\ Ids(up'[a]) \subseteq Ids(up[a]) \cup {Clip(n)} /\ (a # d => up'[a] = up[a])
          /\ Linked(d) => up' = up
          /\ ~Linked(d) => chan' = chan
      BY <1>2, <2>1, SendIds
    <3> QED BY <1>2, <2>1, <3>1 DEF Waiting
  <2>2. CASE Enqueue(d, Clip(n)) /\ UNCHANGED <<up, chan>>
    <3>1. Ids(queue'[a]) \subseteq Ids(queue[a]) \cup {Clip(n)} /\ (a # d => queue'[a] = queue[a])
      BY <1>2, <2>2, EnqueueIds
    <3> QED BY <1>2, <2>2, <3>1 DEF Waiting
  <2> QED BY <1>1, <2>1, <2>2 DEF Compose
<1>7. ASSUME NEW a \in Devices, Waiting(a, n)' PROVE Unheard(n, a)'
  <2>1. a = d /\ chan' = chan
    BY <1>5, <1>6, <1>7, Bounds DEF Unheard, Ignorant, Waiting
  <2>2. /\ UNCHANGED <<replay, decrypting, removing, wire, recent, shown>>
        /\ items' = [items EXCEPT ![d] = @ \cup {n}]
    BY <1>1 DEF Compose, relayVars, historyVars
  <2>3. \A e \in Devices : /\ e # d => queue'[e] = queue[e] /\ up'[e] = up[e]
    <3>1. CASE SendFrame(d, Clip(n)) /\ UNCHANGED <<queue, pending>>
      BY <1>2, <3>1, SendIds
    <3>2. CASE Enqueue(d, Clip(n)) /\ UNCHANGED <<up, chan>>
      BY <1>2, <3>2, EnqueueIds
    <3> QED BY <1>1, <3>1, <3>2 DEF Compose
  <2>4. items \in [Devices -> SUBSET Clips]
    BY DEF Typed, DeviceTypes
  <2>5. ASSUME NEW e \in Devices, e # a PROVE Ignorant(e, n)'
    <3>1. Ignorant(e, n)
      BY <1>5, Bounds DEF Unheard
    <3> QED BY <2>1, <2>2, <2>3, <2>4, <2>5, <3>1 DEF Ignorant, Mine
  <2>6. ASSUME NEW e \in Devices PROVE Unreached(e, n)'
    <3>1. Unreached(e, n)
      BY <1>5 DEF Unheard
    <3> QED BY <2>1, <2>2, <3>1 DEF Unreached
  <2>7. n \notin Ids(recent')
    BY <1>5, <2>2 DEF Unheard
  <2> QED BY <2>5, <2>6, <2>7 DEF Unheard
<1>8. ASSUME NEW a \in Devices, NEW m \in Clips, Waiting(a, m)', m # n PROVE Unheard(m, a)'
  <2>1. Unheard(m, a) /\ m # Len(author) + 1
    BY <1>1, <1>6, <1>8 DEF Fresh
  <2> QED BY <2>1, ComposeUnheard
<1> QED BY <1>4, <1>7, <1>8 DEF Fresh

LEMMA MessageFresh ==
    ASSUME Typed, Fresh, Single, NEW d \in Devices, RelayStep(d)
    PROVE  Fresh'
<1>0. PICK f : f = Head(up[d])
  OBVIOUS
<1>1. author' = author
  BY DEF RelayStep, OnMessage, WindowSlides, RelayCloses
<1>2. \A a \in Devices : queue'[a] = queue[a] /\ Ids(up'[a]) \subseteq Ids(up[a])
  <2>1. CASE OnMessage(d)
    <3>1. Ids(Tail(up[d])) \subseteq Ids(up[d]) /\ Ids(<<>>) = {}
      BY <2>1, UpIds, NoneIs DEF OnMessage
    <3>2. up' = [up EXCEPT ![d] = Tail(@)] \/ up' = [up EXCEPT ![d] = <<>>]
      BY <2>1 DEF OnMessage
    <3>3. queue' = queue
      BY <2>1 DEF OnMessage, deviceVars
    <3> QED BY <3>1, <3>2, <3>3 DEF Typed, PathTypes
  <2>2. CASE WindowSlides(d) \/ RelayCloses(d)
    BY <2>2 DEF WindowSlides, RelayCloses, deviceVars, pathVars
  <2> QED BY <2>1, <2>2 DEF RelayStep
<1>3. ASSUME NEW m \in Clips, OnMessage(d), used[d] < FRAME_LIMIT, f = Clip(m)
      PROVE  ~(m > Len(author)) /\ \A a \in Devices : ~Waiting(a, m)'
  <2>1. up[d] # <<>> /\ up[d] \in Seq(Sent) /\ up' = [up EXCEPT ![d] = Tail(@)]
    BY <1>3 DEF OnMessage, Typed, PathTypes
  <2>2. Clip(m) \in Ids(up[d])
    BY <1>0, <1>3, <2>1, UpIds
  <2>3. Unheard(m, d) /\ ~(m > Len(author))
    BY <2>2, Bounds DEF Fresh, Waiting, Unheard, Ignorant
  <2>4. Clip(m) \notin Ids(queue[d]) /\ ClipOnce(up[d])
    BY <2>2 DEF Single
  <2>5. Clip(m) \notin Ids(Tail(up[d]))
    BY <1>0, <1>3, <2>1, <2>4, HeadOnce, Frames
  <2>6. up'[d] = Tail(up[d])
    BY <2>1 DEF Typed, PathTypes
  <2>7. ASSUME NEW a \in Devices, Waiting(a, m)' PROVE FALSE
    <3>1. Waiting(a, m)
      BY <1>2, <2>7 DEF Waiting
    <3>2. a = d
      BY <2>3, <3>1 DEF Unheard, Ignorant, Waiting
    <3> QED BY <1>2, <2>4, <2>5, <2>6, <2>7, <3>2 DEF Waiting
  <2> QED BY <2>3, <2>7
<1>4. ASSUME NEW m \in Clips, m > Len(author') PROVE Unheard(m, NoDevice)'
  <2>1. Unheard(m, NoDevice) /\ ~(OnMessage(d) /\ used[d] < FRAME_LIMIT /\ Head(up[d]) = Clip(m))
    BY <1>0, <1>1, <1>3, <1>4 DEF Fresh
  <2> QED BY <2>1, RelayUnheard
<1>5. ASSUME NEW a \in Devices, NEW m \in Clips, Waiting(a, m)' PROVE Unheard(m, a)'
  <2>1. Unheard(m, a) /\ ~(OnMessage(d) /\ used[d] < FRAME_LIMIT /\ Head(up[d]) = Clip(m))
    BY <1>0, <1>2, <1>3, <1>5 DEF Fresh, Waiting
  <2> QED BY <2>1, RelayUnheard
<1> QED BY <1>4, <1>5 DEF Fresh

LEMMA OtherFresh ==
    ASSUME Fresh, author' = author,
           \A a \in Devices, m \in Clips : Waiting(a, m)' => Waiting(a, m),
           \A m \in Clips, a \in Devices \cup {NoDevice} : Unheard(m, a) => Unheard(m, a)'
    PROVE  Fresh'
  BY DEF Fresh

LEMMA StepFresh == Typed /\ Fresh /\ Single /\ [Next]_vars => Fresh'
<1> SUFFICES ASSUME Typed, Fresh, Single, [Next]_vars PROVE Fresh'
  OBVIOUS
<1>1. ASSUME NEW d \in Devices, NEW n \in Clips, OnDelete(d, n) \/ DeleteStored(d, n) PROVE Fresh'
  <2>1. Delete(n) \in Sent /\ \A m : Clip(m) # Delete(n)
    BY Frames
  <2>2. ASSUME NEW a \in Devices, NEW m \in Clips PROVE Waiting(a, m)' => Waiting(a, m)
    <3>1. CASE SendFrame(d, Delete(n)) /\ UNCHANGED queue
      BY <2>1, <3>1, SendIds DEF Waiting
    <3>2. CASE queue' = [queue EXCEPT ![d] = RemoveFirst(@, Clip(n))] /\ UNCHANGED <<up, chan>>
      <4>1. queue \in [Devices -> Seq(Sent)]
        BY DEF Typed, DeviceTypes
      <4>2. Ids(RemoveFirst(queue[d], Clip(n))) \subseteq Ids(queue[d])
        BY <4>1, RemoveIs
      <4> QED BY <3>2, <4>1, <4>2 DEF Waiting
    <3>3. CASE Enqueue(d, Delete(n)) /\ UNCHANGED <<up, chan>>
      BY <2>1, <3>3, EnqueueIds DEF Waiting
    <3>4. CASE UNCHANGED <<queue, up>>
      BY <3>4 DEF Waiting
    <3> QED BY <1>1, <3>1, <3>2, <3>3, <3>4 DEF OnDelete, DeleteStored, pathVars
  <2>3. author' = author
    BY <1>1 DEF OnDelete, DeleteStored
  <2> QED BY <1>1, <2>2, <2>3, DeleteUnheard, OtherFresh
<1>2. ASSUME NEW d \in Devices,
             \/ OnHello(d)
             \/ \E n \in Clips : ClipDecrypted(d, n)
             \/ \E via \in Paths : FrameStep(d, via)
      PROVE  Fresh'
  <2>1. author' = author
    BY <1>2 DEF OnHello, ClipDecrypted, FrameStep, OnClip, OnDeleteFrame
  <2>2. ASSUME NEW a \in Devices, NEW m \in Clips PROVE Waiting(a, m)' => Waiting(a, m)
    <3>1. CASE OnHello(d)
      <4>1. /\ Ids(up'[a]) \subseteq Ids(up[a]) \cup Ids(queue[a])
            /\ Ids(queue'[a]) \subseteq Ids(queue[a])
        BY <3>1, FlushIds DEF OnHello
      <4> QED BY <4>1 DEF Waiting
    <3>2. CASE UNCHANGED <<queue, up>>
      BY <3>2 DEF Waiting
    <3> QED BY <1>2, <3>1, <3>2 DEF ClipDecrypted, FrameStep, OnClip, OnDeleteFrame, pathVars
  <2> QED BY <1>2, <2>1, <2>2, FrameUnheard, OtherFresh
<1>3. CASE RelayRestarts \/ (\E d \in Devices : ConnectionStep(d)) \/ UNCHANGED vars
  <2>1. author' = author
    BY <1>3 DEF RelayRestarts, ConnectionStep, Connect, NetFails, ClientCloses, Reload, CloseLink,
                OpenLink, vars
  <2>2. \A a \in Devices : /\ queue'[a] = queue[a] \/ queue'[a] = <<>>
                           /\ up'[a] = up[a] \/ up'[a] = <<>>
    BY <1>3 DEF RelayRestarts, ConnectionStep, Connect, NetFails, ClientCloses, Reload, CloseLink,
                OpenLink, vars, deviceVars, pathVars, Typed, DeviceTypes, PathTypes
  <2>3. \A a \in Devices, m \in Clips : Waiting(a, m)' => Waiting(a, m)
    BY <2>2, NoneIs DEF Waiting
  <2> QED BY <1>3, <2>1, <2>3, ConnectionUnheard, OtherFresh
<1> QED BY <1>1, <1>2, <1>3, ComposeFresh, MessageFresh DEF Next, ClientStep

LEMMA InitFresh == Init => Fresh /\ Single
<1> SUFFICES ASSUME Init PROVE Fresh /\ Single
  OBVIOUS
<1>1. \A m \in Clips : \A a : Unheard(m, a)
  BY NoneIs DEF Init, Unheard, Ignorant, Unreached, Mine
<1>2. ClipOnce(<<>>) /\ Distinct(<<>>)
  BY DEF ClipOnce, Distinct
<1> QED BY <1>1, <1>2, NoneIs DEF Fresh, Single, Init

LEMMA StepSingle == Typed /\ Fresh /\ Single /\ [Next]_vars => Single'
<1> SUFFICES ASSUME Typed, Fresh, Single, [Next]_vars PROVE Single'
  OBVIOUS
<1>0. /\ queue \in [Devices -> Seq(Sent)] /\ up \in [Devices -> Seq(Sent)] /\ recent \in Seq(Clips)
      /\ \A d \in Devices : queue[d] \in Seq(Sent) /\ up[d] \in Seq(Sent)
  BY DEF Typed, DeviceTypes, PathTypes, RelayTypes
<1>00. ClipOnce(<<>>) /\ Distinct(<<>>) /\ Ids(<<>>) = {}
  BY NoneIs DEF ClipOnce, Distinct
<1>1. ASSUME NEW d \in Devices, Compose(d) PROVE Single'
  <2>1. PICK n \in Clips : n = Len(author) + 1
    BY <1>1 DEF Compose
  <2>2. /\ Clip(n) \in Sent /\ \A m : Clip(m) = Clip(n) => m = n
    BY Frames
  <2>3. Clip(n) \notin Ids(queue[d]) \cup Ids(up[d]) /\ recent' = recent
    <3>1. n > Len(author)
      BY <2>1 DEF Clips
    <3> QED BY <1>1, <3>1, Bounds DEF Fresh, Unheard, Ignorant, Compose, relayVars
  <2>4. ClipOnce(Append(queue[d], Clip(n))) /\ ClipOnce(Append(up[d], Clip(n)))
    BY <1>0, <2>2, <2>3, AppendOnce DEF Single
  <2>5. CASE SendFrame(d, Clip(n)) /\ UNCHANGED <<queue, pending>>
    <3>1. \A e \in Devices : /\ Ids(up'[e]) \subseteq Ids(up[e]) \cup {Clip(n)} /\ (e # d => up'[e] = up[e])
                             /\ up'[d] = up[d] \/ up'[d] = Append(up[d], Clip(n))
      BY <2>2, <2>5, SendIds
    <3> QED BY <2>2, <2>3, <2>4, <2>5, <3>1 DEF Single
  <2>6. CASE Enqueue(d, Clip(n)) /\ UNCHANGED <<up, chan>>
    <3>1. \A e \in Devices : /\ Ids(queue'[e]) \subseteq Ids(queue[e]) \cup {Clip(n)}
                             /\ (e # d => queue'[e] = queue[e])
                             /\ Within(queue'[d], Append(queue[d], Clip(n)))
      BY <2>2, <2>6, EnqueueIds
    <3>2. queue'[d] \in Seq(Sent) /\ Append(queue[d], Clip(n)) \in Seq(Sent)
      BY <1>0, <2>2, <2>6, AppendIs, EnqueueTypes
    <3>3. ClipOnce(queue'[d])
      BY <2>4, <3>1, <3>2, WithinOnce
    <3> QED BY <2>2, <2>3, <2>6, <3>1, <3>3 DEF Single
  <2> QED BY <1>1, <2>1, <2>5, <2>6 DEF Compose
<1>2. ASSUME NEW d \in Devices, NEW n \in Clips, DeleteStored(d, n) PROVE Single'
  <2>1. /\ Delete(n) \in Sent /\ (\A m : Clip(m) # Delete(n)) /\ Delete(n).type # "clip"
    BY Frames
  <2>2. recent' = recent
    BY <1>2 DEF DeleteStored, relayVars
  <2>3. ClipOnce(Append(queue[d], Delete(n))) /\ ClipOnce(Append(up[d], Delete(n)))
    BY <1>0, <2>1, AppendOnce DEF Single
  <2>4. CASE SendFrame(d, Delete(n)) /\ UNCHANGED queue
    <3>1. \A e \in Devices : /\ Ids(up'[e]) \subseteq Ids(up[e]) \cup {Delete(n)} /\ (e # d => up'[e] = up[e])
                             /\ up'[d] = up[d] \/ up'[d] = Append(up[d], Delete(n))
      BY <2>1, <2>4, SendIds
    <3> QED BY <2>1, <2>2, <2>3, <2>4, <3>1 DEF Single
  <2>5. CASE queue' = [queue EXCEPT ![d] = RemoveFirst(@, Clip(n))] /\ UNCHANGED <<up, chan>>
    <3>1. PICK q : q = RemoveFirst(queue[d], Clip(n))
      OBVIOUS
    <3>2. q \in Seq(Sent) /\ Within(q, queue[d]) /\ Ids(q) \subseteq Ids(queue[d])
      BY <1>0, <3>1, RemoveIs
    <3>3. ClipOnce(q)
      BY <1>0, <3>2, WithinOnce DEF Single
    <3> QED BY <1>0, <2>2, <2>5, <3>1, <3>2, <3>3 DEF Single
  <2>6. CASE Enqueue(d, Delete(n)) /\ UNCHANGED <<up, chan>>
    <3>1. \A e \in Devices : /\ Ids(queue'[e]) \subseteq Ids(queue[e]) \cup {Delete(n)}
                             /\ (e # d => queue'[e] = queue[e])
                             /\ Within(queue'[d], Append(queue[d], Delete(n)))
      BY <2>1, <2>6, EnqueueIds
    <3>2. queue'[d] \in Seq(Sent) /\ Append(queue[d], Delete(n)) \in Seq(Sent)
      BY <1>0, <2>1, <2>6, AppendIs, EnqueueTypes
    <3>3. ClipOnce(queue'[d])
      BY <2>3, <3>1, <3>2, WithinOnce
    <3> QED BY <2>1, <2>2, <2>6, <3>1, <3>3 DEF Single
  <2> QED BY <1>2, <2>4, <2>5, <2>6 DEF DeleteStored
<1>3. ASSUME NEW d \in Devices, OnHello(d) PROVE Single'
  <2>1. FlushQueue(d) /\ recent' = recent
    BY <1>3 DEF OnHello, relayVars
  <2>2. \A e \in Devices : /\ e # d => up'[e] = up[e] /\ queue'[e] = queue[e]
                           /\ queue'[d] = <<>>
                           /\ up'[d] = up[d] \/ up'[d] = up[d] \o queue[d]
    BY <2>1, FlushIds
  <2>3. \A x \in Ids(up[d]) \cap Ids(queue[d]) : x.type # "clip"
    <3>1. Ids(up[d]) \subseteq Sent
      BY <1>0, SeqIs DEF Ids
    <3> QED BY <3>1, Frames DEF Single
  <2>4. ClipOnce(up[d] \o queue[d])
    BY <1>0, <2>3, ConcatOnce DEF Single
  <2> QED BY <1>00, <2>1, <2>2, <2>4 DEF Single
<1>4. ASSUME NEW d \in Devices, OnMessage(d) PROVE Single'
  <2>1. PICK f : f = Head(up[d])
    OBVIOUS
  <2>2. /\ f \in Sent /\ f.m \in Clips /\ Ids(up[d]) = {f} \cup Ids(Tail(up[d]))
        /\ f.type = "clip" => f = Clip(f.m)
    BY <1>4, <2>1, UpIds DEF OnMessage
  <2>3. /\ queue' = queue
        /\ up' = [up EXCEPT ![d] = Tail(@)] \/ up' = [up EXCEPT ![d] = <<>>]
        /\ \/ recent' = recent
           \/ f.type = "clip" /\ PushRecent(f.m)
           \/ f.type # "clip" /\ RemoveRecent(f.m)
    BY <1>4, <2>1 DEF OnMessage, deviceVars
  <2>4. Tail(up[d]) \in Seq(Sent) /\ Within(Tail(up[d]), up[d])
    BY <1>0, <1>4, TailIs DEF OnMessage
  <2>5. ClipOnce(Tail(up[d]))
    BY <1>0, <2>4, WithinOnce DEF Single
  <2>6. Distinct(recent')
    <3>1. CASE f.type = "clip" /\ PushRecent(f.m)
      <4>1. f.m \notin Ids(recent)
        BY <2>2, <3>1 DEF Fresh, Waiting, Unheard
      <4>2. PICK r : r = Append(recent, f.m)
        OBVIOUS
      <4>3. r \in Seq(Clips) /\ Distinct(r)
        BY <1>0, <2>2, <4>1, <4>2, AppendIs, AppendOnce DEF Single
      <4>4. KeepLast(r, RECENT_CAP) \in Seq(Clips) /\ Within(KeepLast(r, RECENT_CAP), r)
        BY <4>3, KeepIs, Bounds
      <4>5. Distinct(KeepLast(r, RECENT_CAP))
        BY <4>3, <4>4, WithinOnce
      <4> QED BY <3>1, <4>2, <4>5 DEF PushRecent, Single
    <3>2. CASE f.type # "clip" /\ RemoveRecent(f.m)
      <4>1. recent' \in Seq(Clips) /\ Within(recent', recent)
        BY <2>2, <3>2, DropTypes, DropIds
      <4> QED BY <1>0, <4>1, WithinOnce DEF Single
    <3> QED BY <2>3, <3>1, <3>2 DEF Single
  <2> QED BY <1>0, <1>00, <2>2, <2>3, <2>5, <2>6 DEF Single
<1>5. ASSUME /\ \A a \in Devices : /\ queue'[a] = queue[a] \/ queue'[a] = <<>>
                                   /\ up'[a] = up[a] \/ up'[a] = <<>>
             /\ recent' = recent \/ recent' = <<>>
      PROVE  Single'
  BY <1>00, <1>5 DEF Single
<1>6. CASE RelayRestarts \/ (\E d \in Devices : ConnectionStep(d)) \/ UNCHANGED vars
  <2>1. /\ \A a \in Devices : /\ queue'[a] = queue[a] \/ queue'[a] = <<>>
                              /\ up'[a] = up[a] \/ up'[a] = <<>>
        /\ recent' = recent \/ recent' = <<>>
    BY <1>0, <1>6 DEF RelayRestarts, ConnectionStep, Connect, NetFails, ClientCloses, Reload, CloseLink,
                OpenLink, vars, deviceVars, pathVars, relayVars
  <2> QED BY <1>5, <2>1
<1>7. ASSUME NEW d \in Devices, WindowSlides(d) \/ RelayCloses(d) PROVE Single'
  BY <1>5, <1>7 DEF WindowSlides, RelayCloses, ForgetIfEmpty, deviceVars, pathVars
<1>8. ASSUME NEW d \in Devices,
             \/ \E n \in Clips : OnDelete(d, n) \/ ClipDecrypted(d, n)
             \/ \E via \in Paths : FrameStep(d, via)
      PROVE  Single'
  BY <1>5, <1>8 DEF OnDelete, ClipDecrypted, FrameStep, OnClip, OnDeleteFrame, pathVars, relayVars
<1> QED BY <1>1, <1>2, <1>3, <1>4, <1>6, <1>7, <1>8 DEF Next, ClientStep, RelayStep

-----------------------------------------------------------------------------
(* Clips go before their deletes. *)

\* No clip comes after its delete.
Orderly(s) == \A j, k \in DOMAIN s : j < k /\ s[k].type = "clip" => s[j] # Delete(s[k].m)

\* A device that has been greeted queues nothing, and only such a device has a link.
Greeted ==
    \A d \in Devices : /\ Linked(d) => ws[d] = "greeted"
                       /\ ws[d] = "greeted" => queue[d] = <<>>

\* A clip that its author has yet to send was never deleted at the relay.
InOrder ==
    \A a \in Devices :
        /\ Orderly(up[a])
        /\ \A m \in Clips :
              /\ Clip(m) \in Ids(queue[a]) => Delete(m) \notin Ids(queue[a]) \cup Ids(up[a])
              /\ Waiting(a, m) \/ m > Len(author) => m \notin deleted

LEMMA WithinOrderly ==
    ASSUME NEW T, NEW r \in Seq(T), NEW s \in Seq(T), Within(r, s), Orderly(s)
    PROVE  Orderly(r)
<1>1. PICK e \in [DOMAIN r -> DOMAIN s] :
          /\ \A i \in DOMAIN r : r[i] = s[e[i]]
          /\ \A i, j \in DOMAIN r : i < j => e[i] < e[j]
  BY DEF Within
<1> QED BY <1>1 DEF Orderly

LEMMA AppendOrderly ==
    ASSUME NEW T, NEW s \in Seq(T), NEW x \in T, Orderly(s),
           x.type = "clip" => Delete(x.m) \notin Ids(s)
    PROVE  Orderly(Append(s, x))
<1>1. PICK r : r = Append(s, x)
  OBVIOUS
<1>2. /\ DOMAIN r = 1 .. Len(s) + 1 /\ r[Len(s) + 1] = x
      /\ \A i \in 1 .. Len(s) : r[i] = s[i]
      /\ Len(s) \in Nat /\ DOMAIN s = 1 .. Len(s)
  BY <1>1, AppendIs, SeqIs
<1>3. ASSUME NEW j \in DOMAIN r, NEW k \in DOMAIN r, j < k, r[k].type = "clip"
      PROVE  r[j] # Delete(r[k].m)
  <2>1. j \in DOMAIN s /\ r[j] = s[j] /\ s[j] \in Ids(s)
    BY <1>2, <1>3 DEF Ids
  <2>2. CASE k = Len(s) + 1
    BY <1>2, <1>3, <2>1, <2>2
  <2>3. CASE k # Len(s) + 1
    <3>1. k \in DOMAIN s /\ r[k] = s[k]
      BY <1>2, <2>3
    <3> QED BY <1>3, <2>1, <3>1 DEF Orderly
  <2> QED BY <2>2, <2>3
<1> QED BY <1>1, <1>3 DEF Orderly

LEMMA ConcatOrderly ==
    ASSUME NEW T, NEW s \in Seq(T), NEW t \in Seq(T), Orderly(s), Orderly(t),
           \A x \in Ids(t) : x.type = "clip" => Delete(x.m) \notin Ids(s)
    PROVE  Orderly(s \o t)
<1>1. PICK r : r = s \o t
  OBVIOUS
<1>2. /\ DOMAIN r = 1 .. Len(s) + Len(t)
      /\ \A i \in 1 .. Len(s) : r[i] = s[i]
      /\ \A i \in 1 .. Len(t) : r[Len(s) + i] = t[i]
      /\ Len(s) \in Nat /\ DOMAIN s = 1 .. Len(s) /\ Len(t) \in Nat /\ DOMAIN t = 1 .. Len(t)
  BY <1>1, ConcatIs, SeqIs
<1>3. ASSUME NEW i \in DOMAIN r PROVE i \in DOMAIN s \/ \E l \in DOMAIN t : i = Len(s) + l
  <2>1. CASE i <= Len(s)
    BY <1>2, <2>1
  <2>2. CASE ~(i <= Len(s))
    <3>1. i - Len(s) \in DOMAIN t /\ i = Len(s) + (i - Len(s))
      BY <1>2, <2>2
    <3> QED BY <3>1
  <2> QED BY <2>1, <2>2
<1>4. (\A i \in DOMAIN s : s[i] \in Ids(s)) /\ (\A i \in DOMAIN t : t[i] \in Ids(t))
  BY DEF Ids
<1>5. ASSUME NEW j \in DOMAIN r, NEW k \in DOMAIN r, j < k, r[k].type = "clip"
      PROVE  r[j] # Delete(r[k].m)
  <2>1. CASE k \in DOMAIN s
    <3>1. j \in DOMAIN s
      BY <1>2, <1>5, <2>1
    <3> QED BY <1>2, <1>5, <2>1, <3>1 DEF Orderly
  <2>2. ASSUME NEW l \in DOMAIN t, k = Len(s) + l PROVE r[j] # Delete(r[k].m)
    <3>1. r[k] = t[l] /\ t[l] \in Ids(t)
      BY <1>2, <1>4, <2>2
    <3>2. CASE j \in DOMAIN s
      BY <1>2, <1>4, <1>5, <3>1, <3>2
    <3>3. ASSUME NEW i \in DOMAIN t, j = Len(s) + i PROVE r[j] # Delete(r[k].m)
      <4>1. i < l /\ r[j] = t[i]
        BY <1>2, <1>5, <2>2, <3>3
      <4> QED BY <1>5, <3>1, <4>1 DEF Orderly
    <3> QED BY <1>3, <3>2, <3>3
  <2> QED BY <1>3, <2>1, <2>2
<1> QED BY <1>1, <1>5 DEF Orderly

LEMMA HeadOrderly ==
    ASSUME NEW T, NEW s \in Seq(T), s # <<>>, Orderly(s), NEW m, Head(s) = Delete(m)
    PROVE  Clip(m) \notin Ids(Tail(s))
<1>1. /\ Head(s) = s[1] /\ DOMAIN Tail(s) = 1 .. Len(s) - 1 /\ Len(s) >= 1
      /\ \A i \in 1 .. Len(s) - 1 : Tail(s)[i] = s[i + 1]
      /\ Len(s) \in Nat /\ DOMAIN s = 1 .. Len(s)
  BY TailIs, SeqIs
<1>2. ASSUME NEW i \in DOMAIN Tail(s), Tail(s)[i] = Clip(m) PROVE FALSE
  <2>1. i + 1 \in DOMAIN s /\ 1 \in DOMAIN s /\ 1 < i + 1 /\ s[i + 1] = Clip(m)
    BY <1>1, <1>2
  <2>2. s[i + 1].type = "clip" /\ s[i + 1].m = m
    BY <2>1 DEF Clip
  <2> QED BY <1>1, <2>1, <2>2 DEF Orderly
<1> QED BY <1>2 DEF Ids

LEMMA StepGreeted == Typed /\ Greeted /\ [Next]_vars => Greeted'
<1> SUFFICES ASSUME Typed, Greeted, [Next]_vars PROVE Greeted'
  OBVIOUS
<1>0. /\ queue \in [Devices -> Seq(Sent)] /\ ws \in [Devices -> {"down", "open", "greeted"}]
      /\ peer \in [Devices -> Peers]
  BY DEF Typed, DeviceTypes
<1>1. ASSUME UNCHANGED <<queue, ws, peer>> PROVE Greeted'
  BY <1>1 DEF Greeted, Linked
<1>2. ASSUME NEW d \in Devices, Compose(d) \/ \E n \in Clips : DeleteStored(d, n) PROVE Greeted'
  <2>1. ws' = ws /\ peer' = peer /\ (CanSend(d) => queue' = queue)
    BY <1>2 DEF Compose, DeleteStored
  <2>2. \A e \in Devices : e # d => queue'[e] = queue[e]
    BY <1>0, <1>2 DEF Compose, DeleteStored, Enqueue
  <2> QED BY <2>1, <2>2 DEF Greeted, Linked, CanSend
<1>3. ASSUME NEW d \in Devices, OnHello(d) PROVE Greeted'
  BY <1>0, <1>3 DEF OnHello, FlushQueue, Greeted, Linked
<1>4. ASSUME NEW d \in Devices,
             \/ \E n \in Clips : OnDelete(d, n) \/ ClipDecrypted(d, n)
             \/ \E via \in Paths : FrameStep(d, via)
             \/ RelayStep(d)
             \/ NetFails(d)
      PROVE  Greeted'
  BY <1>1, <1>4 DEF OnDelete, ClipDecrypted, FrameStep, OnClip, OnDeleteFrame, RelayStep, OnMessage,
                    WindowSlides, RelayCloses, NetFails, deviceVars
<1>5. ASSUME NEW d \in Devices, Connect(d) PROVE Greeted'
  BY <1>0, <1>5 DEF Connect, Greeted, Linked
<1>6. ASSUME NEW d \in Devices, ClientCloses(d) \/ Reload(d) \/ CloseLink(d) PROVE Greeted'
  <2>1. \A e \in Devices : /\ Linked(e)' => Linked(e) /\ e # d
                           /\ e # d => ws'[e] = ws[e] /\ queue'[e] = queue[e]
                           /\ ws'[d] = "down" \/ (ws'[d] = ws[d] /\ queue'[d] = queue[d])
    BY <1>0, <1>6 DEF ClientCloses, Reload, CloseLink, CutLink, Linked
  <2> QED BY <2>1 DEF Greeted
<1>7. ASSUME NEW d \in Devices, NEW e \in Devices, OpenLink(d, e) PROVE Greeted'
  BY <1>0, <1>7 DEF OpenLink, Greeted, Linked
<1>8. CASE RelayRestarts \/ UNCHANGED vars
  BY <1>1, <1>8 DEF RelayRestarts, vars, deviceVars
<1> QED BY <1>2, <1>3, <1>4, <1>5, <1>6, <1>7, <1>8 DEF Next, ClientStep, ConnectionStep

\* What is sent after a clip does not disturb it, if the queue and the socket only lose.
LEMMA OtherInOrder ==
    ASSUME Typed, InOrder, author' = author, deleted' = deleted,
           \A a \in Devices : /\ queue'[a] = queue[a] \/ queue'[a] = <<>>
                              /\ up'[a] = up[a] \/ up'[a] = <<>>
    PROVE  InOrder'
<1>1. Orderly(<<>>)
  BY DEF Orderly
<1>2. ASSUME NEW a \in Devices, NEW m \in Clips PROVE Waiting(a, m)' => Waiting(a, m)
  BY NoneIs DEF Waiting
<1>3. ASSUME NEW a \in Devices
      PROVE  Ids(queue'[a]) \subseteq Ids(queue[a]) /\ Ids(up'[a]) \subseteq Ids(up[a])
  BY NoneIs
<1>4. \A a \in Devices : Orderly(up'[a])
  BY <1>1 DEF InOrder
<1> QED BY <1>2, <1>3, <1>4 DEF InOrder

LEMMA ComposeInOrder ==
    ASSUME Typed, Fresh, Greeted, InOrder, NEW d \in Devices, Compose(d)
    PROVE  InOrder'
<1>1. PICK n \in Clips : n = Len(author) + 1
  BY DEF Compose
<1>2. /\ Clip(n) \in Sent /\ Clip(n).m = n /\ \A m : Clip(m) = Clip(n) => m = n
      /\ \A m : Delete(m) # Clip(n)
  BY <1>1, Frames
<1>3. n > Len(author) /\ Len(author') = n /\ Len(author) \in Nat /\ deleted' = deleted
  <2>1. author \in Seq(Devices) /\ author' = Append(author, d) /\ deleted' = deleted
    BY DEF Compose, Typed, HistoryTypes, historyVars
  <2> QED BY <1>1, <2>1, AppendIs, SeqIs
<1>4. \A a \in Devices : Delete(n) \notin Ids(queue[a]) \cup Ids(up[a])
  BY <1>3, Bounds DEF Fresh, Unheard, Ignorant, Mine
<1>5. \A a \in Devices : /\ Ids(queue'[a]) \subseteq Ids(queue[a]) \cup {Clip(n)}
                         /\ Ids(up'[a]) \subseteq Ids(up[a]) \cup {Clip(n)}
                         /\ up'[a] = up[a] \/ up'[a] = Append(up[a], Clip(n))
  <2>1. CASE SendFrame(d, Clip(n)) /\ UNCHANGED <<queue, pending>>
    BY <1>2, <2>1, SendIds
  <2>2. CASE Enqueue(d, Clip(n)) /\ UNCHANGED <<up, chan>>
    BY <1>2, <2>2, EnqueueIds
  <2> QED BY <1>1, <2>1, <2>2 DEF Compose
<1>6. ASSUME NEW a \in Devices PROVE Orderly(up'[a])
  <2>1. up[a] \in Seq(Sent) /\ Orderly(up[a])
    BY <1>1 DEF Typed, PathTypes, InOrder
  <2>2. Orderly(Append(up[a], Clip(n)))
    BY <1>2, <1>4, <2>1, AppendOrderly
  <2> QED BY <1>5, <2>1, <2>2
<1>7. ASSUME NEW a \in Devices, NEW m \in Clips, Clip(m) \in Ids(queue'[a])
      PROVE  Delete(m) \notin Ids(queue'[a]) \cup Ids(up'[a])
  BY <1>2, <1>4, <1>5, <1>7 DEF InOrder
<1>8. ASSUME NEW a \in Devices, NEW m \in Clips, Waiting(a, m)' \/ m > Len(author')
      PROVE  m \notin deleted'
  <2>1. Waiting(a, m) \/ m = n \/ m > Len(author)
    <3>1. Waiting(a, m)' => Waiting(a, m) \/ m = n
      BY <1>2, <1>5 DEF Waiting
    <3>2. m > Len(author') => m > Len(author)
      BY <1>1, <1>3 DEF Clips
    <3> QED BY <1>8, <3>1, <3>2
  <2> QED BY <1>3, <2>1 DEF InOrder
<1> QED BY <1>6, <1>7, <1>8 DEF InOrder

LEMMA DeleteInOrder ==
    ASSUME Typed, ~EARLY, Single, Greeted, InOrder, NEW d \in Devices, NEW n \in Clips,
           DeleteStored(d, n)
    PROVE  InOrder'
<1>1. /\ Delete(n) \in Sent /\ (\A m : Clip(m) # Delete(n)) /\ Delete(n).type # "clip"
      /\ \A m : Delete(m) = Delete(n) => m = n
  BY Frames
<1>2. author' = author /\ deleted' = deleted
  BY DEF DeleteStored, historyVars
<1>3. /\ queue \in [Devices -> Seq(Sent)] /\ up \in [Devices -> Seq(Sent)]
      /\ \A a \in Devices : queue[a] \in Seq(Sent) /\ up[a] \in Seq(Sent) /\ Orderly(up[a])
  BY DEF Typed, DeviceTypes, PathTypes, InOrder
<1>4. CASE SendFrame(d, Delete(n)) /\ UNCHANGED queue /\ CanSend(d)
  <2>1. \A a \in Devices : /\ Ids(up'[a]) \subseteq Ids(up[a]) \cup {Delete(n)}
                           /\ a # d => up'[a] = up[a]
                           /\ up'[d] = up[d] \/ up'[d] = Append(up[d], Delete(n))
    BY <1>1, <1>4, SendIds
  <2>2. Orderly(Append(up[d], Delete(n)))
    BY <1>1, <1>3, AppendOrderly
  <2>3. Ids(queue[d]) = {}
    <3>1. ws[d] = "greeted"
      BY <1>4 DEF DeleteStored, MaySend, CanSend, Greeted, Typed, DeviceTypes
    <3> QED BY <3>1, NoneIs DEF Greeted
  <2>4. \A a \in Devices : Orderly(up'[a])
    BY <1>3, <2>1, <2>2
  <2> QED BY <1>1, <1>2, <1>4, <2>1, <2>3, <2>4 DEF InOrder, Waiting
<1>5. CASE queue' = [queue EXCEPT ![d] = RemoveFirst(@, Clip(n))] /\ UNCHANGED <<up, chan>>
  <2>1. PICK q : q = RemoveFirst(queue[d], Clip(n))
    OBVIOUS
  <2>2. Ids(q) \subseteq Ids(queue[d])
    BY <1>3, <2>1, RemoveIs
  <2> QED BY <1>2, <1>3, <1>5, <2>1, <2>2 DEF InOrder, Waiting
<1>6. CASE Enqueue(d, Delete(n)) /\ UNCHANGED <<up, chan>> /\ Clip(n) \notin Ids(queue[d])
  <2>1. \A a \in Devices : /\ Ids(queue'[a]) \subseteq Ids(queue[a]) \cup {Delete(n)}
                           /\ (a # d => queue'[a] = queue[a])
    BY <1>1, <1>6, EnqueueIds
  <2> QED BY <1>1, <1>2, <1>6, <2>1 DEF InOrder, Waiting
<1> QED BY <1>4, <1>5, <1>6 DEF DeleteStored

LEMMA HelloInOrder ==
    ASSUME Typed, InOrder, NEW d \in Devices, OnHello(d)
    PROVE  InOrder'
<1>1. author' = author /\ deleted' = deleted /\ FlushQueue(d)
  BY DEF OnHello, historyVars
<1>2. \A a \in Devices : /\ Ids(up'[a]) \subseteq Ids(up[a]) \cup Ids(queue[a])
                         /\ Ids(queue'[a]) \subseteq Ids(queue[a])
                         /\ a # d => up'[a] = up[a] /\ queue'[a] = queue[a]
                         /\ Ids(queue'[d]) = {}
                         /\ up'[d] = up[d] \/ up'[d] = up[d] \o queue[d]
  BY <1>1, FlushIds
<1>3. up[d] \in Seq(Sent) /\ queue[d] \in Seq(Sent)
  BY DEF Typed, DeviceTypes, PathTypes
<1>4. ASSUME NEW x \in Ids(queue[d]), x.type = "clip"
      PROVE  x.m \in Clips /\ Clip(x.m) \in Ids(queue[d])
  <2>1. x \in Sent
    BY <1>3, SeqIs DEF Ids
  <2> QED BY <1>4, <2>1, Frames
<1>5. \A a \in Devices : Orderly(up[a])
  BY DEF InOrder
<1>6. Orderly(up'[d])
  <2>1. Orderly(queue[d])
    <3>1. \A i \in DOMAIN queue[d] : queue[d][i] \in Ids(queue[d])
      BY DEF Ids
    <3> QED BY <1>4, <3>1 DEF Orderly, InOrder
  <2>2. \A x \in Ids(queue[d]) : x.type = "clip" => Delete(x.m) \notin Ids(up[d])
    BY <1>4 DEF InOrder
  <2>3. Orderly(up[d] \o queue[d])
    BY <1>3, <1>5, <2>1, <2>2, ConcatOrderly
  <2> QED BY <1>2, <1>5, <2>3
<1>7. \A a \in Devices : Orderly(up'[a])
  BY <1>2, <1>5, <1>6
<1>8. ASSUME NEW a \in Devices, NEW m \in Clips, Clip(m) \in Ids(queue'[a])
      PROVE  Delete(m) \notin Ids(queue'[a]) \cup Ids(up'[a])
  BY <1>2, <1>8 DEF InOrder
<1>9. \A a \in Devices, m \in Clips : Waiting(a, m)' => Waiting(a, m)
  BY <1>2 DEF Waiting
<1> QED BY <1>1, <1>7, <1>8, <1>9 DEF InOrder

LEMMA MessageInOrder ==
    ASSUME Typed, Fresh, InOrder, NEW d \in Devices, OnMessage(d), used[d] < FRAME_LIMIT
    PROVE  InOrder'
<1>1. PICK f : f = Head(up[d])
  OBVIOUS
<1>2. /\ f \in Sent /\ f.m \in Clips /\ Ids(up[d]) = {f} \cup Ids(Tail(up[d]))
      /\ f.type = "clip" => f = Clip(f.m)
      /\ f.type # "clip" => f = Delete(f.m)
  BY <1>1, UpIds DEF OnMessage
<1>3. /\ queue' = queue /\ up' = [up EXCEPT ![d] = Tail(@)] /\ author' = author
      /\ deleted' = IF f.type = "clip" THEN deleted ELSE deleted \cup {f.m}
  BY <1>1 DEF OnMessage, deviceVars
<1>4. up \in [Devices -> Seq(Sent)] /\ up[d] \in Seq(Sent) /\ up[d] # <<>>
  BY DEF Typed, PathTypes, OnMessage
<1>5. /\ \A a \in Devices : Ids(up'[a]) \subseteq Ids(up[a]) /\ (a # d => up'[a] = up[a])
      /\ up'[d] = Tail(up[d])
  BY <1>2, <1>3, <1>4
<1>6. \A a \in Devices : Orderly(up'[a])
  <2>1. Tail(up[d]) \in Seq(Sent) /\ Within(Tail(up[d]), up[d])
    BY <1>4, TailIs
  <2>2. Orderly(Tail(up[d]))
    BY <1>4, <2>1, WithinOrderly DEF InOrder
  <2> QED BY <1>5, <2>2 DEF InOrder
<1>7. ASSUME NEW a \in Devices, f.type # "clip", Waiting(a, f.m)' \/ f.m > Len(author) PROVE FALSE
  <2>1. Mine(d, f.m)
    BY <1>2, <1>7 DEF Mine
  <2>2. ~(f.m > Len(author))
    BY <1>2, <2>1, Bounds DEF Fresh, Unheard, Ignorant
  <2>3. Waiting(a, f.m)
    BY <1>3, <1>5, <1>7, <2>2 DEF Waiting
  <2>4. a = d
    BY <1>2, <2>1, <2>3 DEF Fresh, Unheard, Ignorant
  <2>5. Clip(f.m) \notin Ids(queue[d])
    BY <1>2, <1>7 DEF InOrder
  <2>6. Clip(f.m) \notin Ids(Tail(up[d]))
    BY <1>1, <1>2, <1>4, <1>7, HeadOrderly DEF InOrder
  <2> QED BY <1>3, <1>5, <1>7, <2>2, <2>4, <2>5, <2>6 DEF Waiting
<1>8. ASSUME NEW a \in Devices, NEW m \in Clips, Waiting(a, m)' \/ m > Len(author')
      PROVE  m \notin deleted'
  <2>1. Waiting(a, m) \/ m > Len(author)
    BY <1>3, <1>5, <1>8 DEF Waiting
  <2>2. m \notin deleted
    BY <2>1 DEF InOrder
  <2>3. f.type # "clip" => m # f.m
    BY <1>3, <1>7, <1>8
  <2> QED BY <1>3, <2>2, <2>3
<1> QED BY <1>3, <1>5, <1>6, <1>8 DEF InOrder

LEMMA StepInOrder ==
    ASSUME ~EARLY
    PROVE  Typed /\ Fresh /\ Single /\ Greeted /\ InOrder /\ [Next]_vars => InOrder'
<1> SUFFICES ASSUME Typed, Fresh, Single, Greeted, InOrder, [Next]_vars PROVE InOrder'
  OBVIOUS
<1>0. /\ queue \in [Devices -> Seq(Sent)] /\ up \in [Devices -> Seq(Sent)]
  BY DEF Typed, DeviceTypes, PathTypes
<1>1. ASSUME NEW d \in Devices, OnMessage(d), ~(used[d] < FRAME_LIMIT) PROVE InOrder'
  <2>1. queue' = queue /\ up' = [up EXCEPT ![d] = <<>>] /\ author' = author /\ deleted' = deleted
    BY <1>1 DEF OnMessage, deviceVars
  <2> QED BY <1>0, <2>1, OtherInOrder
<1>2. CASE RelayRestarts \/ (\E d \in Devices : ConnectionStep(d)) \/ UNCHANGED vars
  <2>1. /\ \A a \in Devices : /\ queue'[a] = queue[a] \/ queue'[a] = <<>>
                              /\ up'[a] = up[a] \/ up'[a] = <<>>
        /\ author' = author /\ deleted' = deleted
    BY <1>0, <1>2 DEF RelayRestarts, ConnectionStep, Connect, NetFails, ClientCloses, Reload, CloseLink,
                OpenLink, vars, deviceVars, pathVars, relayVars, historyVars
  <2> QED BY <2>1, OtherInOrder
<1>3. ASSUME NEW d \in Devices,
             \/ WindowSlides(d) \/ RelayCloses(d)
             \/ \E n \in Clips : OnDelete(d, n) \/ ClipDecrypted(d, n)
             \/ \E via \in Paths : FrameStep(d, via)
      PROVE  InOrder'
  <2>1. UNCHANGED <<queue, up, author, deleted>>
    BY <1>3 DEF OnDelete, ClipDecrypted, FrameStep, OnClip, OnDeleteFrame, WindowSlides, RelayCloses,
                deviceVars, pathVars, relayVars, historyVars
  <2> QED BY <2>1, OtherInOrder
<1> QED BY <1>1, <1>2, <1>3, ComposeInOrder, DeleteInOrder, HelloInOrder, MessageInOrder
        DEF Next, ClientStep, RelayStep

LEMMA StepClean ==
    Typed /\ Fresh /\ Single /\ InOrder /\ RingClean /\ [Next]_vars => RingClean'
<1> SUFFICES ASSUME Typed, Fresh, Single, InOrder, RingClean, [Next]_vars PROVE RingClean'
  OBVIOUS
<1>1. ASSUME recent' = recent \/ recent' = <<>>, deleted' = deleted PROVE RingClean'
  BY <1>1, NoneIs DEF RingClean
<1>2. ASSUME NEW d \in Devices, OnMessage(d), used[d] < FRAME_LIMIT PROVE RingClean'
  <2>1. PICK f : f = Head(up[d])
    OBVIOUS
  <2>2. /\ f \in Sent /\ f.m \in Clips /\ Ids(up[d]) = {f} \cup Ids(Tail(up[d]))
        /\ f.type = "clip" => f = Clip(f.m)
    BY <1>2, <2>1, UpIds DEF OnMessage
  <2>3. CASE f.type = "clip"
    <3>1. PushRecent(f.m) /\ deleted' = deleted
      BY <1>2, <2>1, <2>3 DEF OnMessage
    <3>2. f.m \notin deleted
      BY <2>2, <2>3 DEF InOrder, Waiting
    <3> QED BY <2>2, <3>1, <3>2, PushIds DEF RingClean
  <2>4. CASE f.type # "clip"
    <3>1. RemoveRecent(f.m) /\ deleted' = deleted \cup {f.m}
      BY <1>2, <2>1, <2>4 DEF OnMessage
    <3>2. f.m \notin Ids(recent')
      <4>1. recent \in Seq(Clips) /\ Distinct(recent)
        BY DEF Typed, RelayTypes, Single
      <4>2. \A i, j \in DOMAIN recent : recent[i] = f.m /\ recent[j] = f.m => i = j
        BY <4>1 DEF Distinct
      <4> QED BY <3>1, <4>1, <4>2, RemoveIs DEF RemoveRecent
    <3> QED BY <2>2, <3>1, <3>2, DropIds DEF RingClean
  <2> QED BY <2>3, <2>4
<1>3. ASSUME NEW d \in Devices, OnMessage(d), ~(used[d] < FRAME_LIMIT) PROVE RingClean'
  BY <1>1, <1>3 DEF OnMessage
<1>4. ASSUME NEW d \in Devices, WindowSlides(d) \/ RelayCloses(d) PROVE RingClean'
  BY <1>1, <1>4 DEF WindowSlides, RelayCloses, ForgetIfEmpty, historyVars
<1>5. ASSUME NEW d \in Devices, ClientStep(d) PROVE RingClean'
  BY <1>1, <1>5 DEF ClientStep, FrameStep, Compose, OnHello, OnDelete, DeleteStored, ClipDecrypted, OnClip,
                OnDeleteFrame, relayVars, historyVars
<1>6. CASE RelayRestarts \/ (\E d \in Devices : ConnectionStep(d)) \/ UNCHANGED vars
  BY <1>1, <1>6 DEF RelayRestarts, ConnectionStep, Connect, NetFails, ClientCloses, Reload, CloseLink,
                OpenLink, vars, relayVars, historyVars
<1> QED BY <1>2, <1>3, <1>4, <1>5, <1>6 DEF Next, RelayStep

LEMMA InitInOrder == Init => Greeted /\ InOrder /\ RingClean
<1> SUFFICES ASSUME Init PROVE Greeted /\ InOrder /\ RingClean
  OBVIOUS
<1>1. Orderly(<<>>)
  BY DEF Orderly
<1> QED BY <1>1, NoneIs DEF Init, Greeted, Linked, InOrder, RingClean

THEOREM OrderInductive ==
    ASSUME ~EARLY
    PROVE  Spec => [](Typed /\ Fresh /\ Single /\ Greeted /\ InOrder /\ RingClean)
<1>1. Init => Typed /\ Fresh /\ Single /\ Greeted /\ InOrder /\ RingClean
  BY InitTyped, InitFresh, InitInOrder
<1>2. Typed /\ Fresh /\ Single /\ Greeted /\ InOrder /\ RingClean /\ [Next]_vars
      => (Typed /\ Fresh /\ Single /\ Greeted /\ InOrder /\ RingClean)'
  BY StepTyped, StepFresh, StepSingle, StepGreeted, StepInOrder, StepClean
<1> QED BY <1>1, <1>2, PTL DEF Spec

\* The ring never holds a clip whose delete the relay has handled, if no frame
\* leaves a device between its socket's open and the hello (rooms.ts removeRecent;
\* client.ts flushQueue and delete).
THEOREM RingStaysClean == ASSUME ~EARLY PROVE Spec => []RingClean
  BY OrderInductive, PTL

-----------------------------------------------------------------------------
(* Deletes on their way. *)

\* What the relay tells of was deleted, and what was deleted it tells of, unless the
\* tombstone is gone.
Remembered ==
    /\ \A e \in Devices, m \in Clips :
          Delete(m) \in Ids(wire[e]) \/ m \in Ids(tombstones) => m \in deleted
    /\ deleted \subseteq Ids(tombstones) \cup forgotten
    /\ forgotten \cap Ids(tombstones) = {}

LEMMA StepRemembered == Typed /\ Remembered /\ [Next]_vars => Remembered'
<1> SUFFICES ASSUME Typed, Remembered, [Next]_vars PROVE Remembered'
  OBVIOUS
<1>0. wire \in [Devices -> Seq(Sent \cup {Hello})] /\ Ids(<<>>) = {}
  BY NoneIs DEF Typed, PathTypes
<1>1. ASSUME UNCHANGED <<tombstones, deleted, forgotten>>,
             \A e \in Devices : Ids(wire'[e]) \subseteq Ids(wire[e])
      PROVE  Remembered'
  BY <1>1 DEF Remembered
<1>2. ASSUME tombstones' = <<>>, forgotten' = forgotten \cup Ids(tombstones), deleted' = deleted,
             \A e \in Devices : Ids(wire'[e]) \subseteq Ids(wire[e])
      PROVE  Remembered'
  BY <1>0, <1>2 DEF Remembered
<1>3. ASSUME NEW d \in Devices, OnMessage(d), used[d] < FRAME_LIMIT PROVE Remembered'
  <2>1. PICK f : f = Head(up[d])
    OBVIOUS
  <2>2. /\ f \in Sent /\ f.m \in Clips
        /\ f.type = "clip" => f = Clip(f.m)
        /\ f.type # "clip" => f = Delete(f.m)
    BY <1>3, <2>1, UpIds DEF OnMessage
  <2>3. /\ Broadcast(d, f)
        /\ f.type = "clip" => UNCHANGED <<tombstones, deleted, forgotten>>
        /\ f.type # "clip" => AddTombstone(f.m) /\ deleted' = deleted \cup {f.m}
    BY <1>3, <2>1 DEF OnMessage
  <2>4. \A e \in Devices : Ids(wire'[e]) \subseteq Ids(wire[e]) \cup {f}
    BY <2>2, <2>3, BroadcastIds
  <2>5. CASE f.type = "clip"
    <3>1. \A m : Delete(m) # f
      BY <2>2, <2>5, Frames
    <3> QED BY <2>3, <2>4, <2>5, <3>1 DEF Remembered
  <2>6. CASE f.type # "clip"
    <3>1. /\ Ids(tombstones') \subseteq Ids(tombstones) \cup {f.m} /\ f.m \in Ids(tombstones')
          /\ forgotten' = (forgotten \cup Ids(tombstones)) \ Ids(tombstones')
      BY <2>2, <2>3, <2>6, TombstoneTypes
    <3>2. \A m : Delete(m) = f => m = f.m
      BY <2>2, <2>6, Frames
    <3> QED BY <2>3, <2>4, <2>6, <3>1, <3>2 DEF Remembered
  <2> QED BY <2>5, <2>6
<1>4. ASSUME NEW d \in Devices, OnMessage(d), ~(used[d] < FRAME_LIMIT) PROVE Remembered'
  BY <1>1, <1>4 DEF OnMessage
<1>5. ASSUME NEW d \in Devices, WindowSlides(d) \/ RelayCloses(d) PROVE Remembered'
  BY <1>1, <1>2, <1>5 DEF WindowSlides, RelayCloses, ForgetIfEmpty, historyVars, pathVars
<1>6. ASSUME NEW d \in Devices, Connect(d) PROVE Remembered'
  <2>1. UNCHANGED <<tombstones, deleted, forgotten>> /\ wire' = [wire EXCEPT ![d] = Greeting]
    BY <1>6 DEF Connect, historyVars
  <2>2. \A m : Delete(m) \in Ids(Greeting) <=> m \in Ids(tombstones)
    BY GreetingIds
  <2> QED BY <1>0, <2>1, <2>2 DEF Remembered
<1>7. ASSUME NEW d \in Devices,
             NetFails(d) \/ ClientCloses(d) \/ Reload(d) \/ CloseLink(d) \/ \E e \in Devices : OpenLink(d, e)
      PROVE  Remembered'
  <2>1. UNCHANGED <<tombstones, deleted, forgotten>>
    BY <1>7 DEF NetFails, ClientCloses, Reload, CloseLink, OpenLink, relayVars, historyVars
  <2>2. \A e \in Devices : wire'[e] = wire[e] \/ wire'[e] = <<>>
    BY <1>0, <1>7 DEF NetFails, ClientCloses, Reload, CloseLink, OpenLink, pathVars
  <2> QED BY <1>0, <1>1, <2>1, <2>2
<1>8. CASE RelayRestarts
  <2>1. /\ tombstones' = <<>> /\ forgotten' = forgotten \cup Ids(tombstones) /\ deleted' = deleted
        /\ \A e \in Devices : wire'[e] = <<>>
    BY <1>8 DEF RelayRestarts
  <2> QED BY <1>0, <1>2, <2>1
<1>9. ASSUME NEW d \in Devices, ClientStep(d) PROVE Remembered'
  <2>1. UNCHANGED <<tombstones, deleted, forgotten>>
    BY <1>9 DEF ClientStep, FrameStep, Compose, OnHello, OnDelete, DeleteStored, ClipDecrypted, OnClip,
                OnDeleteFrame, relayVars, historyVars
  <2>2. \/ wire' = wire
        \/ \E via \in Paths : \E t : Arrives(d, via, t) /\ Consume(d, via)
    BY <1>9 DEF ClientStep, FrameStep, Compose, OnHello, OnDelete, DeleteStored, ClipDecrypted, OnClip,
                OnDeleteFrame, pathVars, Paths
  <2>3. \A e \in Devices : Ids(wire'[e]) \subseteq Ids(wire[e])
    BY <2>2, ConsumeIds
  <2> QED BY <1>1, <2>1, <2>3
<1>10. CASE UNCHANGED vars
  BY <1>1, <1>10 DEF vars, pathVars, relayVars, historyVars
<1> QED BY <1>3, <1>4, <1>5, <1>6, <1>7, <1>8, <1>9, <1>10 DEF Next, RelayStep, ConnectionStep

\* Without data channels nothing travels on one.
NoLinks == \A d \in Devices : peer[d] = NoDevice /\ chan[d] = <<>>

LEMMA StepNoLinks == ASSUME ~P2P PROVE Typed /\ NoLinks /\ [Next]_vars => NoLinks'
<1> SUFFICES ASSUME Typed, NoLinks, [Next]_vars PROVE NoLinks'
  OBVIOUS
<1>0. \A d \in Devices : ~Linked(d)
  BY DEF NoLinks, Linked
<1>1. ASSUME NEW d \in Devices, ClientStep(d) PROVE UNCHANGED <<peer, chan>>
  <2>1. \A via \in Paths : \A t : Arrives(d, via, t) => via = "ws"
    BY DEF Arrives, Paths, NoLinks
  <2> QED BY <1>0, <1>1, <2>1 DEF ClientStep, FrameStep, Compose, OnHello, OnDelete, DeleteStored,
       ClipDecrypted, OnClip, OnDeleteFrame, SendFrame, Consume, pathVars
<1>2. ASSUME NEW d \in Devices, RelayStep(d) PROVE UNCHANGED <<peer, chan>>
  BY <1>2 DEF RelayStep, OnMessage, WindowSlides, RelayCloses, deviceVars, pathVars
<1>3. ASSUME NEW d \in Devices, ConnectionStep(d) PROVE NoLinks'
  <2>1. CASE Connect(d) \/ NetFails(d)
    BY <2>1 DEF Connect, NetFails, deviceVars, NoLinks
  <2>2. CASE ClientCloses(d) \/ Reload(d)
    BY <2>2 DEF ClientCloses, Reload, CutLink, NoLinks
  <2> QED BY <1>0, <1>3, <2>1, <2>2 DEF ConnectionStep, CloseLink, OpenLink
<1>4. CASE RelayRestarts \/ UNCHANGED vars
  BY <1>4 DEF RelayRestarts, vars, deviceVars, pathVars, NoLinks
<1> QED BY <1>1, <1>2, <1>3, <1>4 DEF Next, NoLinks

WireInOrder == \A d \in Devices : Orderly(wire[d])

LEMMA GreetingOrderly == ASSUME Typed PROVE Orderly(Greeting)
<1>1. /\ Greeting \in Seq(Sent \cup {Hello}) /\ Len(Greeting) = 1 + Len(recent) + Len(tombstones)
      /\ Greeting[1] = Hello
      /\ \A k \in DOMAIN recent : Greeting[1 + k] = Clip(recent[k])
      /\ \A k \in DOMAIN tombstones : Greeting[1 + Len(recent) + k] = Delete(tombstones[k])
  BY GreetingIs
<1>2. /\ Len(recent) \in Nat /\ DOMAIN recent = 1 .. Len(recent)
      /\ Len(tombstones) \in Nat /\ DOMAIN tombstones = 1 .. Len(tombstones)
      /\ DOMAIN Greeting = 1 .. 1 + Len(recent) + Len(tombstones)
  BY <1>1, SeqIs DEF Typed, RelayTypes
<1> SUFFICES ASSUME NEW j \in DOMAIN Greeting, NEW k \in DOMAIN Greeting, j < k,
                    Greeting[k].type = "clip"
             PROVE  \A m : Greeting[j] # Delete(m)
  BY DEF Orderly
<1>3. k <= 1 + Len(recent)
  <2> SUFFICES ASSUME ~(k <= 1 + Len(recent)) PROVE FALSE
    OBVIOUS
  <2>1. k - (1 + Len(recent)) \in DOMAIN tombstones /\ 1 + Len(recent) + (k - (1 + Len(recent))) = k
    BY <1>2
  <2>2. Greeting[k] = Delete(tombstones[k - (1 + Len(recent))])
    BY <1>1, <2>1
  <2> QED BY <2>2 DEF Delete
<1>4. CASE j = 1
  BY <1>1, <1>4, Frames
<1>5. CASE j # 1
  <2>1. j - 1 \in DOMAIN recent /\ 1 + (j - 1) = j
    BY <1>2, <1>3, <1>5
  <2>2. Greeting[j] = Clip(recent[j - 1])
    BY <1>1, <2>1
  <2> QED BY <2>2, Frames
<1> QED BY <1>4, <1>5

LEMMA StepWireInOrder ==
    Typed /\ Fresh /\ InOrder /\ Remembered /\ WireInOrder /\ [Next]_vars => WireInOrder'
<1> SUFFICES ASSUME Typed, Fresh, InOrder, Remembered, WireInOrder, [Next]_vars PROVE WireInOrder'
  OBVIOUS
<1>0. /\ wire \in [Devices -> Seq(Sent \cup {Hello})] /\ Orderly(<<>>)
      /\ \A d \in Devices : wire[d] \in Seq(Sent \cup {Hello})
  BY DEF Typed, PathTypes, Orderly
<1>1. ASSUME \A e \in Devices : wire'[e] = wire[e] \/ wire'[e] = <<>> PROVE WireInOrder'
  BY <1>0, <1>1 DEF WireInOrder
<1>2. ASSUME NEW d \in Devices, OnMessage(d), used[d] < FRAME_LIMIT PROVE WireInOrder'
  <2>1. PICK f : f = Head(up[d])
    OBVIOUS
  <2>2. /\ f \in Sent /\ f.m \in Clips /\ Ids(up[d]) = {f} \cup Ids(Tail(up[d])) /\ Broadcast(d, f)
        /\ f.type = "clip" => f = Clip(f.m)
    BY <1>2, <2>1, UpIds DEF OnMessage
  <2>3. \A e \in Devices : f.type = "clip" => Delete(f.m) \notin Ids(wire[e])
    BY <2>2 DEF InOrder, Waiting, Remembered
  <2>4. \A e \in Devices : Orderly(Append(wire[e], f))
    BY <1>0, <2>2, <2>3, AppendOrderly DEF WireInOrder
  <2>5. \A e \in Devices : wire'[e] = wire[e] \/ wire'[e] = Append(wire[e], f)
    BY <2>2, BroadcastIds
  <2> QED BY <2>4, <2>5 DEF WireInOrder
<1>3. ASSUME NEW d \in Devices, Connect(d) PROVE WireInOrder'
  BY <1>0, <1>3, GreetingOrderly DEF Connect, WireInOrder
<1>4. ASSUME NEW d \in Devices, NEW via \in Paths, NEW t, Arrives(d, via, t), Consume(d, via)
      PROVE  WireInOrder'
  <2>1. wire'[d] = wire[d] \/ (wire'[d] = Tail(wire[d]) /\ wire[d] # <<>>)
    BY <1>4, ConsumeIds DEF Paths
  <2>2. \A e \in Devices : e # d => wire'[e] = wire[e]
    BY <1>4, ConsumeIds
  <2>3. wire[d] # <<>> => Orderly(Tail(wire[d]))
    <3>1. wire[d] # <<>> => Tail(wire[d]) \in Seq(Sent \cup {Hello}) /\ Within(Tail(wire[d]), wire[d])
      BY <1>0, TailIs
    <3> QED BY <1>0, <3>1, WithinOrderly DEF WireInOrder
  <2> QED BY <2>1, <2>2, <2>3 DEF WireInOrder
<1>5. ASSUME NEW d \in Devices, ClientStep(d) PROVE WireInOrder'
  <2>1. \/ wire' = wire
        \/ \E via \in Paths : \E t : Arrives(d, via, t) /\ Consume(d, via)
    BY <1>5 DEF ClientStep, FrameStep, Compose, OnHello, OnDelete, DeleteStored, ClipDecrypted, OnClip,
                OnDeleteFrame, pathVars, Paths
  <2> QED BY <1>1, <1>4, <2>1
<1>6. ASSUME NEW d \in Devices, RelayStep(d), ~(OnMessage(d) /\ used[d] < FRAME_LIMIT)
      PROVE  WireInOrder'
  BY <1>1, <1>6 DEF RelayStep, OnMessage, WindowSlides, RelayCloses, pathVars
<1>7. ASSUME NEW d \in Devices, ConnectionStep(d), ~Connect(d) PROVE WireInOrder'
  BY <1>0, <1>1, <1>7 DEF ConnectionStep, NetFails, ClientCloses, Reload, CloseLink, OpenLink, pathVars
<1>8. CASE RelayRestarts \/ UNCHANGED vars
  BY <1>1, <1>8 DEF RelayRestarts, vars, pathVars
<1> QED BY <1>2, <1>3, <1>5, <1>6, <1>7, <1>8 DEF Next

\* d has been told, or will be, or has nothing to be told of.
Gone(d, m) == m \notin items[d] /\ Clip(m) \notin Ids(wire[d]) /\ decrypting[d][m] = 0

Reached(d, m) == <<d, m>> \in asked \/ Delete(m) \in Ids(wire[d]) \/ Gone(d, m)

Reaching == \A d \in Devices : net[d] => \A m \in deleted \ forgotten : Reached(d, m)

LEMMA QuietReaching ==
    ASSUME Reaching, asked \subseteq asked', deleted' \ forgotten' \subseteq deleted \ forgotten,
           \A d \in Devices : net'[d] => /\ net[d] /\ wire'[d] = wire[d]
                                         /\ items'[d] \subseteq items[d]
                                         /\ decrypting'[d] = decrypting[d]
    PROVE  Reaching'
  BY DEF Reaching, Reached, Gone

LEMMA FrameReaching ==
    ASSUME Typed, PROMPT, NoLinks, WireInOrder, Reaching, NEW d \in Devices,
           OnHello(d) \/ \E via \in Paths : FrameStep(d, via)
    PROVE  Reaching'
<1>0. /\ wire[d] \in Seq(Sent \cup {Hello}) /\ items \in [Devices -> SUBSET Clips]
      /\ decrypting \in [Devices -> [Clips -> Nat]]
  BY DEF Typed, PathTypes, DeviceTypes
<1>1. UNCHANGED <<net, asked, deleted, forgotten>>
  BY DEF OnHello, FrameStep, OnClip, OnDeleteFrame, historyVars
<1>2. deleted \subseteq Clips
  BY DEF Typed, HistoryTypes
<1>3. ASSUME NEW t, Arrives(d, "ws", t), Consume(d, "ws")
      PROVE  /\ \A e \in Devices : e # d => wire'[e] = wire[e]
             /\ Ids(wire'[d]) \subseteq Ids(wire[d])
             /\ Ids(wire[d]) = {Head(wire[d])} \cup Ids(wire'[d])
             /\ wire'[d] = Tail(wire[d]) /\ wire[d] # <<>> /\ Head(wire[d]).type = t
  BY <1>3, ConsumeIds DEF Paths
<1>4. CASE OnHello(d)
  <2>1. Arrives(d, "ws", "hello") /\ Consume(d, "ws") /\ UNCHANGED <<items, decrypting>>
    BY <1>4 DEF OnHello
  <2>2. \A m : Head(wire[d]) # Delete(m)
    BY <1>3, <2>1 DEF Delete
  <2> QED BY <1>1, <1>3, <2>1, <2>2 DEF Reaching, Reached, Gone
<1>5. ASSUME OnClip(d, "ws") PROVE Reaching'
  <2>1. Arrives(d, "ws", "clip") /\ Consume(d, "ws") /\ UNCHANGED items
    BY <1>5 DEF OnClip
  <2>2. PICK n \in Clips : n = Arg(d, "ws") /\ Head(wire[d]) = Clip(n)
    <3>1. Arg(d, "ws") \in Clips /\ Head(wire[d]) = [type |-> "clip", m |-> Arg(d, "ws")]
      BY <2>1, Arriving DEF Paths
    <3> QED BY <3>1 DEF Clip
  <2>3. (\A m : Head(wire[d]) # Delete(m)) /\ (\A m : Clip(m) \notin Ids(wire[d]) => m # n)
    BY <1>3, <2>1, <2>2, Frames
  <2>4. UNCHANGED decrypting \/ decrypting' = [decrypting EXCEPT ![d][n] = @ + 1]
    BY <1>5, <2>2 DEF OnClip
  <2>5. \A e \in Devices, m \in Clips : e # d \/ m # n => decrypting'[e][m] = decrypting[e][m]
    BY <1>0, <2>2, <2>4
  <2>6. ASSUME NEW m \in deleted \ forgotten, net[d] PROVE Reached(d, m)'
    <3>1. m \in Clips /\ Reached(d, m)
      BY <1>2, <2>6 DEF Reaching
    <3> QED BY <1>1, <1>3, <2>1, <2>3, <2>5, <3>1 DEF Reached, Gone
  <2>7. ASSUME NEW e \in Devices, e # d, NEW m \in deleted \ forgotten, net[e] PROVE Reached(e, m)'
    BY <1>1, <1>2, <1>3, <2>1, <2>5, <2>7 DEF Reaching, Reached, Gone
  <2> QED BY <1>1, <2>6, <2>7 DEF Reaching
<1>6. ASSUME OnDeleteFrame(d, "ws") PROVE Reaching'
  <2>1. Arrives(d, "ws", "delete") /\ Consume(d, "ws") /\ UNCHANGED decrypting
    BY <1>6 DEF OnDeleteFrame
  <2>2. PICK n \in Clips : n = Arg(d, "ws") /\ Head(wire[d]) = Delete(n)
    <3>1. Arg(d, "ws") \in Clips /\ Head(wire[d]) = [type |-> "delete", m |-> Arg(d, "ws")]
      BY <2>1, Arriving DEF Paths
    <3> QED BY <3>1 DEF Delete
  <2>3. items' = [items EXCEPT ![d] = @ \ {n}]
    BY <1>6, <2>2 DEF OnDeleteFrame
  <2>4. Clip(n) \notin Ids(wire'[d])
    <3>1. wire[d] # <<>> /\ wire'[d] = Tail(wire[d])
      BY <1>3, <2>1
    <3> QED BY <1>0, <2>2, <3>1, HeadOrderly DEF WireInOrder
  <2>5. decrypting[d][n] = 0
    BY <2>1 DEF Arrives
  <2>6. ASSUME NEW m \in deleted \ forgotten, net[d] PROVE Reached(d, m)'
    <3>1. Reached(d, m)
      BY <2>6 DEF Reaching
    <3>2. CASE m = n
      BY <1>0, <2>1, <2>3, <2>4, <2>5, <3>2 DEF Reached, Gone
    <3>3. CASE m # n
      <4>1. Delete(m) # Head(wire[d])
        BY <2>2, <3>3 DEF Delete
      <4> QED BY <1>0, <1>1, <1>3, <2>1, <2>3, <3>1, <4>1 DEF Reached, Gone
    <3> QED BY <3>2, <3>3
  <2>7. ASSUME NEW e \in Devices, e # d, NEW m \in deleted \ forgotten, net[e] PROVE Reached(e, m)'
    BY <1>0, <1>1, <1>3, <2>1, <2>3, <2>7 DEF Reaching, Reached, Gone
  <2> QED BY <1>1, <2>6, <2>7 DEF Reaching
<1>7. \A via \in Paths : \A t : Arrives(d, via, t) => via = "ws"
  BY DEF Arrives, Paths, NoLinks
<1> QED BY <1>4, <1>5, <1>6, <1>7 DEF FrameStep, OnClip, OnDeleteFrame

LEMMA MessageReaching ==
    ASSUME Typed, DeletesAsked, InRoom, InOrder, Remembered, Reaching, NEW d \in Devices,
           OnMessage(d), used[d] < FRAME_LIMIT
    PROVE  Reaching'
<1>1. PICK f : f = Head(up[d])
  OBVIOUS
<1>2. /\ f \in Sent /\ f.m \in Clips /\ Ids(up[d]) = {f} \cup Ids(Tail(up[d]))
      /\ f.type = "clip" => f = Clip(f.m)
      /\ f.type # "clip" => f = Delete(f.m)
  BY <1>1, UpIds DEF OnMessage
<1>3. /\ UNCHANGED <<net, asked, items, decrypting>> /\ Broadcast(d, f)
      /\ f.type = "clip" => UNCHANGED <<deleted, forgotten>>
      /\ f.type # "clip" => AddTombstone(f.m) /\ deleted' = deleted \cup {f.m}
  BY <1>1 DEF OnMessage, deviceVars
<1>4. \A e \in Devices : /\ Ids(wire[e]) \subseteq Ids(wire'[e]) /\ Ids(wire'[e]) \subseteq Ids(wire[e]) \cup {f}
                         /\ e # d /\ e \in sockets /\ net[e] => f \in Ids(wire'[e])
  BY <1>2, <1>3, BroadcastIds
<1>5. CASE f.type = "clip"
  <2>1. f.m \notin deleted /\ \A m : Clip(m) = f => m = f.m
    BY <1>2, <1>5, Frames DEF InOrder, Waiting
  <2> QED BY <1>3, <1>4, <1>5, <2>1 DEF Reaching, Reached, Gone
<1>6. CASE f.type # "clip"
  <2>1. \A m : Clip(m) # f
    BY <1>2, <1>6, Frames
  <2>2. /\ Ids(tombstones') \subseteq Ids(tombstones) \cup {f.m}
        /\ forgotten' = (forgotten \cup Ids(tombstones)) \ Ids(tombstones')
    BY <1>2, <1>3, <1>6, TombstoneTypes
  <2>3. ASSUME NEW e \in Devices, net[e] PROVE Reached(e, f.m)'
    <3>1. CASE e = d
      <4>1. <<d, f.m>> \in asked
        BY <1>2, <1>6 DEF DeletesAsked, Mine
      <4> QED BY <1>3, <3>1, <4>1 DEF Reached
    <3>2. CASE e # d
      <4>1. Delete(f.m) \in Ids(wire'[e])
        BY <1>2, <1>4, <1>6, <2>3, <3>2 DEF InRoom
      <4> QED BY <4>1 DEF Reached
    <3> QED BY <3>1, <3>2
  <2>4. ASSUME NEW e \in Devices, net[e], NEW m \in deleted' \ forgotten', m # f.m PROVE Reached(e, m)'
    <3>1. m \in deleted \ forgotten
      BY <1>3, <1>6, <2>2, <2>4 DEF Remembered
    <3> QED BY <1>3, <1>4, <2>1, <2>4, <3>1 DEF Reaching, Reached, Gone
  <2> QED BY <1>3, <2>3, <2>4 DEF Reaching
<1> QED BY <1>5, <1>6

LEMMA StepReaching ==
    ASSUME PROMPT, ~P2P
    PROVE  /\ Typed /\ DeletesAsked /\ InRoom /\ InOrder /\ Remembered /\ NoLinks /\ WireInOrder
           /\ Reaching /\ [Next]_vars
           => Reaching'
<1> SUFFICES ASSUME Typed, DeletesAsked, InRoom, InOrder, Remembered, NoLinks, WireInOrder, Reaching,
                    [Next]_vars
             PROVE  Reaching'
  OBVIOUS
<1>0. /\ net \in [Devices -> BOOLEAN] /\ wire \in [Devices -> Seq(Sent \cup {Hello})]
      /\ items \in [Devices -> SUBSET Clips] /\ decrypting \in [Devices -> [Clips -> Nat]]
      /\ asked \subseteq asked' /\ deleted \subseteq Clips
  BY AskedStays DEF Typed, DeviceTypes, PathTypes, HistoryTypes
<1>1. ASSUME NEW d \in Devices, Compose(d) PROVE Reaching'
  <2>1. PICK n \in Clips : n = Len(author) + 1
    BY <1>1 DEF Compose
  <2>2. /\ UNCHANGED <<net, asked, deleted, forgotten, wire, decrypting>>
        /\ items' = [items EXCEPT ![d] = @ \cup {n}]
    BY <1>1, <2>1 DEF Compose, historyVars
  <2>3. n \notin deleted
    <3>1. n > Len(author)
      BY <2>1 DEF Clips
    <3> QED BY <1>1, <3>1 DEF InOrder
  <2> QED BY <1>0, <2>2, <2>3 DEF Reaching, Reached, Gone
<1>2. ASSUME NEW d \in Devices, NEW n \in Clips, ClipDecrypted(d, n) PROVE Reaching'
  <2>1. /\ UNCHANGED <<net, asked, deleted, forgotten, wire>> /\ decrypting[d][n] > 0
        /\ items' = [items EXCEPT ![d] = @ \cup {n}]
        /\ decrypting' = [decrypting EXCEPT ![d][n] = @ - 1]
    BY <1>2 DEF ClipDecrypted, pathVars
  <2>2. ASSUME NEW e \in Devices, net[e], NEW m \in deleted \ forgotten PROVE Reached(e, m)'
    <3>1. Reached(e, m) /\ m \in Clips
      BY <1>0, <2>2 DEF Reaching
    <3>2. CASE e = d /\ m = n
      BY <2>1, <3>1, <3>2 DEF Reached, Gone
    <3>3. CASE ~(e = d /\ m = n)
      BY <1>0, <2>1, <3>1, <3>3 DEF Reached, Gone
    <3> QED BY <3>2, <3>3
  <2> QED BY <2>1, <2>2 DEF Reaching
<1>3. ASSUME NEW d \in Devices, Connect(d) PROVE Reaching'
  <2>1. /\ UNCHANGED <<asked, deleted, forgotten, items, decrypting>>
        /\ net' = [net EXCEPT ![d] = TRUE] /\ wire' = [wire EXCEPT ![d] = Greeting]
    BY <1>3 DEF Connect, historyVars
  <2>2. ASSUME NEW m \in deleted \ forgotten PROVE Reached(d, m)'
    <3>1. Delete(m) \in Ids(Greeting)
      BY <2>2, GreetingIds DEF Remembered
    <3> QED BY <1>0, <2>1, <3>1 DEF Reached
  <2>3. ASSUME NEW e \in Devices, e # d, net[e], NEW m \in deleted \ forgotten PROVE Reached(e, m)'
    BY <1>0, <2>1, <2>3 DEF Reaching, Reached, Gone
  <2> QED BY <1>0, <2>1, <2>2, <2>3 DEF Reaching
<1>4. ASSUME NEW d \in Devices, NEW n \in Clips, OnDelete(d, n) \/ DeleteStored(d, n) PROVE Reaching'
  <2>1. UNCHANGED <<net, wire, deleted, forgotten, decrypting>>
    BY <1>4 DEF OnDelete, DeleteStored, pathVars, historyVars
  <2>2. \A e \in Devices : items'[e] \subseteq items[e]
    BY <1>0, <1>4 DEF OnDelete, DeleteStored
  <2> QED BY <1>0, <2>1, <2>2, QuietReaching
<1>5. ASSUME NEW d \in Devices, RelayStep(d), ~(OnMessage(d) /\ used[d] < FRAME_LIMIT) PROVE Reaching'
  <2>1. UNCHANGED <<wire, items, decrypting, deleted>> /\ \A e \in Devices : net'[e] => net[e]
    BY <1>0, <1>5 DEF RelayStep, OnMessage, WindowSlides, RelayCloses, deviceVars, pathVars, historyVars
  <2>2. forgotten \subseteq forgotten'
    BY <1>5 DEF RelayStep, OnMessage, WindowSlides, RelayCloses, ForgetIfEmpty, historyVars
  <2> QED BY <1>0, <2>1, <2>2, QuietReaching
<1>6. ASSUME NEW d \in Devices,
             NetFails(d) \/ ClientCloses(d) \/ Reload(d) \/ CloseLink(d) \/ \E e \in Devices : OpenLink(d, e)
      PROVE  Reaching'
  <2>1. UNCHANGED <<items, deleted, forgotten>>
    BY <1>6 DEF NetFails, ClientCloses, Reload, CloseLink, OpenLink, deviceVars, historyVars
  <2>2. \A e \in Devices : net'[e] => net[e] /\ wire'[e] = wire[e] /\ decrypting'[e] = decrypting[e]
    <3>1. CASE NetFails(d)
      BY <1>0, <3>1 DEF NetFails, deviceVars
    <3>2. CASE ClientCloses(d)
      BY <1>0, <3>2 DEF ClientCloses
    <3>3. CASE Reload(d)
      BY <1>0, <3>3 DEF Reload
    <3>4. CASE CloseLink(d) \/ \E e \in Devices : OpenLink(d, e)
      BY <1>0, <3>4 DEF CloseLink, OpenLink, pathVars
    <3> QED BY <1>6, <3>1, <3>2, <3>3, <3>4
  <2> QED BY <1>0, <2>1, <2>2, QuietReaching
<1>7. CASE RelayRestarts
  <2>1. /\ UNCHANGED deleted /\ forgotten \subseteq forgotten' /\ \A e \in Devices : ~net'[e]
    BY <1>7 DEF RelayRestarts
  <2> QED BY <1>0, <2>1, QuietReaching
<1>8. CASE UNCHANGED vars
  BY <1>0, <1>8, QuietReaching DEF vars, deviceVars, pathVars, historyVars
<1> QED BY <1>1, <1>2, <1>3, <1>4, <1>5, <1>6, <1>7, <1>8, FrameReaching, MessageReaching
        DEF Next, ClientStep, RelayStep, ConnectionStep

LEMMA InitReaching == Init => Remembered /\ NoLinks /\ WireInOrder /\ Reaching
<1> SUFFICES ASSUME Init PROVE Remembered /\ NoLinks /\ WireInOrder /\ Reaching
  OBVIOUS
<1>1. Orderly(<<>>)
  BY DEF Orderly
<1> QED BY <1>1, NoneIs DEF Init, Remembered, NoLinks, WireInOrder, Reaching

\* A clip whose delete the relay has handled is in no other settled device's list,
\* however the devices came and went meanwhile, if no frame leaves between open and
\* hello, a clip is decrypted before the next frame is handled, and nothing takes a
\* data channel (ws-handlers.ts fan-out and greeting; rooms.ts addTombstone).
THEOREM DeletesReachAll == ASSUME ~EARLY, PROMPT, ~P2P PROVE Spec => []DeleteReachesAll
<1>1. Init => Remembered /\ NoLinks /\ WireInOrder /\ Reaching
  BY InitReaching
<1>2. /\ Typed /\ DeletesAsked /\ InRoom /\ Fresh /\ InOrder /\ Remembered /\ NoLinks /\ WireInOrder
      /\ Reaching /\ [Next]_vars
      => (Remembered /\ NoLinks /\ WireInOrder /\ Reaching)'
  BY StepRemembered, StepNoLinks, StepWireInOrder, StepReaching
<1>3. Reaching => DeleteReachesAll
  <2> SUFFICES ASSUME Reaching, NEW d \in Devices, Settled(d), NEW m \in items[d] \cap deleted,
                      m \notin forgotten
               PROVE  <<d, m>> \in asked
    BY DEF DeleteReachesAll
  <2>1. Ids(wire[d]) = {} /\ net[d]
    BY NoneIs DEF Settled
  <2> QED BY <2>1 DEF Reaching, Reached, Gone
<1> QED BY <1>1, <1>2, <1>3, BackfillInductive, OrderInductive, PTL DEF Spec

-----------------------------------------------------------------------------
(* Before and after. *)

Later(s, x) == {y \in Ids(s) : \E i, j \in DOMAIN s : i < j /\ s[i] = x /\ s[j] = y}

Earlier(s, x) == {y \in Ids(s) : \E i, j \in DOMAIN s : i < j /\ s[i] = y /\ s[j] = x}

LEMMA WithinLater ==
    ASSUME NEW r, NEW s, Within(r, s), NEW x
    PROVE  Later(r, x) \subseteq Later(s, x) /\ Earlier(r, x) \subseteq Earlier(s, x)
<1>1. PICK e \in [DOMAIN r -> DOMAIN s] :
          /\ \A i \in DOMAIN r : r[i] = s[e[i]]
          /\ \A i, j \in DOMAIN r : i < j => e[i] < e[j]
  BY DEF Within
<1>2. Ids(r) \subseteq Ids(s)
  BY WithinIds
<1>3. ASSUME NEW i \in DOMAIN r, NEW j \in DOMAIN r, i < j
      PROVE  e[i] \in DOMAIN s /\ e[j] \in DOMAIN s /\ e[i] < e[j] /\ r[i] = s[e[i]] /\ r[j] = s[e[j]]
  BY <1>1, <1>3
<1> QED BY <1>2, <1>3 DEF Later, Earlier

LEMMA AppendLater ==
    ASSUME NEW T, NEW s \in Seq(T), NEW y \in T, y \notin Ids(s), NEW x
    PROVE  /\ Later(Append(s, y), x) \subseteq Later(s, x) \cup {y}
           /\ Later(Append(s, y), y) = {}
           /\ x \in Ids(s) => Later(s, x) \cup {y} \subseteq Later(Append(s, y), x)
           /\ x # y => Earlier(Append(s, y), x) \subseteq Earlier(s, x)
           /\ Earlier(Append(s, y), y) \subseteq Ids(s)
<1>1. PICK r : r = Append(s, y)
  OBVIOUS
<1>2. /\ DOMAIN r = 1 .. Len(s) + 1 /\ r[Len(s) + 1] = y
      /\ \A i \in 1 .. Len(s) : r[i] = s[i]
      /\ Ids(r) = Ids(s) \cup {y}
      /\ Len(s) \in Nat /\ DOMAIN s = 1 .. Len(s)
  BY <1>1, AppendIs, SeqIs
<1>3. ASSUME NEW i \in DOMAIN r, NEW j \in DOMAIN r, i < j
      PROVE  /\ i \in DOMAIN s /\ r[i] = s[i] /\ s[i] \in Ids(s) /\ r[i] # y
             /\ j = Len(s) + 1 \/ (j \in DOMAIN s /\ r[j] = s[j] /\ r[j] # y)
             /\ j = Len(s) + 1 => r[j] = y
  <2>1. i \in DOMAIN s /\ (j = Len(s) + 1 \/ j \in DOMAIN s)
    BY <1>2, <1>3
  <2>2. \A k \in DOMAIN s : r[k] = s[k] /\ s[k] \in Ids(s) /\ r[k] # y
    BY <1>2 DEF Ids
  <2> QED BY <1>2, <2>1, <2>2
<1>4. Later(r, x) \subseteq Later(s, x) \cup {y}
  <2> SUFFICES ASSUME NEW z \in Later(r, x), z # y PROVE z \in Later(s, x)
    OBVIOUS
  <2>1. PICK i \in DOMAIN r, j \in DOMAIN r : i < j /\ r[i] = x /\ r[j] = z
    BY DEF Later
  <2>2. i \in DOMAIN s /\ j \in DOMAIN s /\ s[i] = x /\ s[j] = z
    BY <1>3, <2>1
  <2> QED BY <2>1, <2>2 DEF Later, Ids
<1>5. Later(r, y) = {}
  BY <1>3 DEF Later
<1>6. ASSUME x \in Ids(s) PROVE Later(s, x) \cup {y} \subseteq Later(r, x)
  <2>1. y \in Later(r, x)
    <3>1. PICK i \in DOMAIN s : s[i] = x
      BY <1>6 DEF Ids
    <3>2. i \in DOMAIN r /\ Len(s) + 1 \in DOMAIN r /\ i < Len(s) + 1 /\ r[i] = x
      BY <1>2, <3>1
    <3> QED BY <1>2, <3>2 DEF Later
  <2>2. ASSUME NEW z \in Later(s, x) PROVE z \in Later(r, x)
    <3>1. PICK i \in DOMAIN s, j \in DOMAIN s : i < j /\ s[i] = x /\ s[j] = z
      BY DEF Later
    <3>2. i \in DOMAIN r /\ j \in DOMAIN r /\ r[i] = x /\ r[j] = z
      BY <1>2, <3>1
    <3> QED BY <1>2, <3>1, <3>2 DEF Later
  <2> QED BY <2>1, <2>2
<1>7. ASSUME x # y PROVE Earlier(r, x) \subseteq Earlier(s, x)
  <2> SUFFICES ASSUME NEW z \in Earlier(r, x) PROVE z \in Earlier(s, x)
    OBVIOUS
  <2>1. PICK i \in DOMAIN r, j \in DOMAIN r : i < j /\ r[i] = z /\ r[j] = x
    BY DEF Earlier
  <2>2. i \in DOMAIN s /\ j \in DOMAIN s /\ s[i] = z /\ s[j] = x
    BY <1>3, <1>7, <2>1
  <2> QED BY <2>1, <2>2 DEF Earlier, Ids
<1>8. Earlier(r, y) \subseteq Ids(s)
  BY <1>3 DEF Earlier
<1> QED BY <1>1, <1>4, <1>5, <1>6, <1>7, <1>8

LEMMA TailLater ==
    ASSUME NEW T, NEW s \in Seq(T), s # <<>>
    PROVE  /\ Ids(Tail(s)) \subseteq Later(s, Head(s))
           /\ \A x \in Ids(Tail(s)) : Head(s) \in Earlier(s, x)
<1>1. /\ Head(s) = s[1] /\ DOMAIN Tail(s) = 1 .. Len(s) - 1 /\ Len(s) >= 1
      /\ \A i \in 1 .. Len(s) - 1 : Tail(s)[i] = s[i + 1]
      /\ Len(s) \in Nat /\ DOMAIN s = 1 .. Len(s)
      /\ Ids(s) = {Head(s)} \cup Ids(Tail(s))
  BY TailIs, SeqIs
<1>2. ASSUME NEW i \in DOMAIN Tail(s)
      PROVE  Tail(s)[i] \in Later(s, Head(s)) /\ Head(s) \in Earlier(s, Tail(s)[i])
  <2>1. i + 1 \in DOMAIN s /\ 1 \in DOMAIN s /\ 1 < i + 1 /\ s[i + 1] = Tail(s)[i]
    BY <1>1
  <2>2. Tail(s)[i] \in Ids(s) /\ Head(s) \in Ids(s)
    BY <1>1 DEF Ids
  <2> QED BY <1>1, <2>1, <2>2 DEF Later, Earlier
<1> QED BY <1>2 DEF Ids

LEMMA DistinctLater ==
    ASSUME NEW T, NEW s \in Seq(T), Distinct(s), NEW x
    PROVE  x \notin Later(s, x) /\ x \notin Earlier(s, x)
<1>1. DOMAIN s = 1 .. Len(s) /\ Len(s) \in Nat
  BY SeqIs
<1> QED BY <1>1 DEF Later, Earlier, Distinct

\* A bounded FIFO loses its oldest.
LEMMA KeepLater ==
    ASSUME NEW T, NEW s \in Seq(T), NEW c \in Nat \ {0}, Distinct(s), NEW x \in Ids(KeepLast(s, c))
    PROVE  Later(s, x) \subseteq Later(KeepLast(s, c), x)
<1>1. Len(s) \in Nat /\ DOMAIN s = 1 .. Len(s)
  BY LenProperties
<1>2. CASE Len(s) > c
  <2>1. PICK r : r = SubSeq(s, Len(s) - c + 1, Len(s))
    OBVIOUS
  <2>2. /\ Len(r) = c /\ DOMAIN r = 1 .. c
        /\ \A i \in 1 .. c : r[i] = s[(Len(s) - c) + i] /\ (Len(s) - c) + i \in DOMAIN s
    <3>1. /\ r \in Seq(T) /\ Len(r) = IF Len(s) - c + 1 <= Len(s) THEN Len(s) - (Len(s) - c + 1) + 1 ELSE 0
          /\ \A i \in 1 .. Len(s) - (Len(s) - c + 1) + 1 : r[i] = s[(Len(s) - c + 1) + i - 1]
      <4>1. Len(s) - c + 1 \in 1 .. Len(s) + 1 /\ Len(s) \in (Len(s) - c + 1) - 1 .. Len(s)
        BY <1>1, <1>2
      <4> QED BY <2>1, <4>1, SubSeqProperties
    <3>2. Len(s) - (Len(s) - c + 1) + 1 = c /\ Len(s) - c + 1 <= Len(s)
      BY <1>1
    <3>3. Len(r) = c /\ DOMAIN r = 1 .. c
      BY <3>1, <3>2, LenProperties
    <3>4. ASSUME NEW i \in 1 .. c PROVE r[i] = s[(Len(s) - c) + i] /\ (Len(s) - c) + i \in DOMAIN s
      <4>1. (Len(s) - c + 1) + i - 1 = (Len(s) - c) + i /\ (Len(s) - c) + i \in DOMAIN s
        BY <1>1, <1>2
      <4> QED BY <3>1, <3>2, <4>1
    <3> QED BY <3>3, <3>4
  <2>3. KeepLast(s, c) = r
    BY <1>2, <2>1 DEF KeepLast
  <2>4. PICK k \in 1 .. c : r[k] = x
    BY <2>2, <2>3 DEF Ids
  <2>5. ASSUME NEW y \in Later(s, x) PROVE y \in Later(r, x)
    <3>1. PICK i \in DOMAIN s, j \in DOMAIN s : i < j /\ s[i] = x /\ s[j] = y
      BY DEF Later
    <3>2. i = (Len(s) - c) + k
      BY <2>2, <2>4, <3>1 DEF Distinct
    <3>3. j - (Len(s) - c) \in 1 .. c /\ k < j - (Len(s) - c) /\ (Len(s) - c) + (j - (Len(s) - c)) = j
      BY <1>1, <3>1, <3>2
    <3>4. r[j - (Len(s) - c)] = y
      BY <2>2, <3>1, <3>3
    <3> QED BY <2>2, <2>4, <3>3, <3>4 DEF Later, Ids
  <2> QED BY <2>3, <2>5
<1>3. CASE ~(Len(s) > c)
  BY <1>3 DEF KeepLast
<1> QED BY <1>2, <1>3

LEMMA KeepLoses ==
    ASSUME NEW T, NEW s \in Seq(T), NEW c \in Nat \ {0}, Len(s) <= c + 1,
           NEW x \in Ids(s), x \notin Ids(KeepLast(s, c))
    PROVE  Len(s) = c + 1 /\ x = s[1]
<1>1. Len(s) \in Nat /\ DOMAIN s = 1 .. Len(s)
  BY LenProperties
<1>2. Len(s) > c
  BY DEF KeepLast
<1>3. Len(s) = c + 1 /\ Len(s) - c + 1 = 2
  <2>1. Len(s) \in Nat /\ c \in Nat /\ Len(s) <= c + 1 /\ Len(s) > c
    BY <1>1, <1>2
  <2>2. Len(s) = c + 1
    BY <2>1
  <2> QED BY <2>1, <2>2
<1>4. PICK r : r = SubSeq(s, 2, Len(s))
  OBVIOUS
<1>5. KeepLast(s, c) = r
  BY <1>2, <1>3, <1>4 DEF KeepLast
<1>6. /\ r \in Seq(T) /\ Len(r) = c
      /\ \A i \in 1 .. c : r[i] = s[i + 1]
  <2>1. 2 \in 1 .. Len(s) + 1 /\ Len(s) \in 2 - 1 .. Len(s)
    BY <1>1, <1>3
  <2>2. /\ r \in Seq(T) /\ Len(r) = IF 2 <= Len(s) THEN Len(s) - 2 + 1 ELSE 0
        /\ \A i \in 1 .. Len(s) - 2 + 1 : r[i] = s[2 + i - 1]
    BY <1>4, <2>1, SubSeqProperties
  <2>3. Len(s) - 2 + 1 = c /\ 2 <= Len(s)
    BY <1>3
  <2>4. \A i \in 1 .. c : 2 + i - 1 = i + 1
    OBVIOUS
  <2> QED BY <2>2, <2>3, <2>4
<1>7. PICK k \in 1 .. Len(s) : s[k] = x
  BY <1>1 DEF Ids
<1>8. k = 1
  <2> SUFFICES ASSUME k # 1 PROVE FALSE
    OBVIOUS
  <2>1. k - 1 \in 1 .. c /\ (k - 1) + 1 = k
    BY <1>1, <1>3
  <2>2. r[k - 1] = x /\ DOMAIN r = 1 .. c
    BY <1>6, <1>7, <2>1, LenProperties
  <2> QED BY <1>5, <2>1, <2>2 DEF Ids
<1> QED BY <1>3, <1>7, <1>8

LEMMA CountIds ==
    ASSUME NEW T, NEW s \in Seq(T)
    PROVE  /\ IsFiniteSet(Ids(s)) /\ Cardinality(Ids(s)) \in Nat /\ Cardinality(Ids(s)) <= Len(s)
           /\ Distinct(s) => Cardinality(Ids(s)) = Len(s)
<1>1. Len(s) \in Nat /\ DOMAIN s = 1 .. Len(s)
  BY LenProperties
<1>2. PICK f : f = [i \in 1 .. Len(s) |-> s[i]]
  OBVIOUS
<1>3. f \in Surjection(1 .. Len(s), Ids(s))
  BY <1>1, <1>2 DEF Surjection, Ids
<1>4. IsFiniteSet(1 .. Len(s)) /\ Cardinality(1 .. Len(s)) = Len(s)
  <2>1. /\ IsFiniteSet(1 .. Len(s))
        /\ Cardinality(1 .. Len(s)) = IF 1 > Len(s) THEN 0 ELSE Len(s) - 1 + 1
    BY <1>1, FS_Interval
  <2> QED BY <1>1, <2>1
<1>5. /\ IsFiniteSet(Ids(s)) /\ Cardinality(Ids(s)) <= Len(s)
      /\ Cardinality(Ids(s)) = Len(s) <=> f \in Injection(1 .. Len(s), Ids(s))
  <2>1. /\ IsFiniteSet(Ids(s)) /\ Cardinality(Ids(s)) <= Cardinality(1 .. Len(s))
        /\ Cardinality(Ids(s)) = Cardinality(1 .. Len(s)) <=> f \in Injection(1 .. Len(s), Ids(s))
    BY <1>3, <1>4, FS_Surjection
  <2> QED BY <1>4, <2>1
<1>6. Distinct(s) => f \in Injection(1 .. Len(s), Ids(s))
  BY <1>1, <1>2, <1>3 DEF Distinct, Injection, IsInjective, Surjection
<1> QED BY <1>5, <1>6, FS_CardinalityType

LEMMA EmptyWithin == ASSUME NEW s PROVE Within(<<>>, s)
<1>1. PICK e : e = [i \in {} |-> 1]
  OBVIOUS
<1>2. DOMAIN <<>> = {}
  OBVIOUS
<1>3. e \in [DOMAIN <<>> -> DOMAIN s]
  BY <1>1, <1>2
<1> QED BY <1>2, <1>3 DEF Within

LEMMA AllIds ==
    ASSUME NEW T, NEW s \in Seq(T), NEW x \in Ids(s)
    PROVE  Ids(s) \subseteq Earlier(s, x) \cup {x} \cup Later(s, x)
<1>1. DOMAIN s = 1 .. Len(s) /\ Len(s) \in Nat
  BY SeqIs
<1>2. PICK k \in DOMAIN s : s[k] = x
  BY DEF Ids
<1>3. ASSUME NEW i \in DOMAIN s PROVE s[i] \in Earlier(s, x) \cup {x} \cup Later(s, x)
  <2>1. CASE i < k
    BY <1>2, <2>1 DEF Earlier, Ids
  <2>2. CASE i = k
    BY <1>2, <2>2
  <2>3. CASE k < i
    BY <1>2, <2>3 DEF Later, Ids
  <2> QED BY <1>1, <2>1, <2>2, <2>3
<1> QED BY <1>3 DEF Ids

-----------------------------------------------------------------------------
(* No clip is admitted twice. *)

ClipsOf(S) == {m \in Clips : Clip(m) \in S}

LEMMA FiniteClips ==
    ASSUME NEW S \in SUBSET Clips
    PROVE  IsFiniteSet(S) /\ Cardinality(S) \in Nat
<1>1. IsFiniteSet(1 .. MaxClips)
  BY Bounds, FS_Interval
<1>2. IsFiniteSet(S)
  BY <1>1, FS_Subset DEF Clips
<1> QED BY <1>2, FS_CardinalityType

LEMMA NearCount ==
    ASSUME Typed, Distinct(recent), NEW m \in Ids(recent)
    PROVE  /\ m \in Clips /\ Later(recent, m) \in SUBSET Clips /\ Earlier(recent, m) \in SUBSET Clips
           /\ Cardinality(Later(recent, m)) <= RECENT_CAP - 1
           /\ Cardinality(Earlier(recent, m)) <= RECENT_CAP - 1
<1>1. recent \in Seq(Clips) /\ Len(recent) <= RECENT_CAP /\ Len(recent) \in Nat
  BY SeqIs DEF Typed, RelayTypes
<1>2. Ids(recent) \in SUBSET Clips
  BY <1>1, SeqIs DEF Ids
<1>3. IsFiniteSet(Ids(recent)) /\ Cardinality(Ids(recent)) \in Nat /\ Cardinality(Ids(recent)) <= Len(recent)
  BY <1>1, CountIds
<1>4. PICK R : R = Ids(recent) \ {m}
  OBVIOUS
<1>5. IsFiniteSet(R) /\ Cardinality(R) = Cardinality(Ids(recent)) - 1
  BY <1>3, <1>4, FS_RemoveElement
<1>6. Cardinality(R) <= RECENT_CAP - 1
  BY <1>1, <1>3, <1>5, Bounds
<1>7. Later(recent, m) \in SUBSET R /\ Earlier(recent, m) \in SUBSET R
  <2>1. m \notin Later(recent, m) /\ m \notin Earlier(recent, m)
    BY <1>1, DistinctLater
  <2> QED BY <1>4, <2>1 DEF Later, Earlier
<1>8. /\ Cardinality(Later(recent, m)) <= Cardinality(R)
      /\ Cardinality(Earlier(recent, m)) <= Cardinality(R)
  BY <1>5, <1>7, FS_Subset
<1>9. Later(recent, m) \in SUBSET Clips /\ Earlier(recent, m) \in SUBSET Clips
  BY <1>2, <1>4, <1>7
<1>10. /\ Cardinality(Later(recent, m)) \in Nat /\ Cardinality(Earlier(recent, m)) \in Nat
       /\ Cardinality(R) \in Int
  BY <1>3, <1>5, <1>9, FiniteClips
<1> QED BY <1>2, <1>6, <1>8, <1>9, <1>10, Bounds

LEMMA NearSum ==
    ASSUME NEW A \in SUBSET Clips, NEW B \in SUBSET Clips,
           Cardinality(A) <= RECENT_CAP - 1, Cardinality(B) <= RECENT_CAP - 1
    PROVE  A \cup B \in SUBSET Clips /\ Cardinality(A \cup B) <= 2 * RECENT_CAP - 2
<1>1. /\ IsFiniteSet(A) /\ IsFiniteSet(B) /\ Cardinality(A) \in Nat /\ Cardinality(B) \in Nat
      /\ Cardinality(A \cap B) \in Nat
  BY FiniteClips
<1>2. Cardinality(A \cup B) = Cardinality(A) + Cardinality(B) - Cardinality(A \cap B)
  BY <1>1, FS_Union
<1> QED BY <1>1, <1>2, Bounds

LEMMA GreetingLater ==
    ASSUME Typed, Distinct(recent)
    PROVE  /\ ClipOnce(Greeting)
           /\ ClipsOf(Ids(Greeting)) = Ids(recent)
           /\ \A m : /\ ClipsOf(Later(Greeting, Clip(m))) \subseteq Later(recent, m)
                     /\ ClipsOf(Earlier(Greeting, Clip(m))) \subseteq Earlier(recent, m)
<1>1. /\ Greeting \in Seq(Sent \cup {Hello}) /\ Len(Greeting) = 1 + Len(recent) + Len(tombstones)
      /\ Greeting[1] = Hello
      /\ \A k \in DOMAIN recent : Greeting[1 + k] = Clip(recent[k])
      /\ \A k \in DOMAIN tombstones : Greeting[1 + Len(recent) + k] = Delete(tombstones[k])
  BY GreetingIs
<1>2. /\ Len(recent) \in Nat /\ DOMAIN recent = 1 .. Len(recent)
      /\ Len(tombstones) \in Nat /\ DOMAIN tombstones = 1 .. Len(tombstones)
      /\ DOMAIN Greeting = 1 .. 1 + Len(recent) + Len(tombstones)
      /\ Ids(recent) \subseteq Clips
  BY <1>1, SeqIs DEF Typed, RelayTypes, Ids
<1>3. ASSUME NEW i \in DOMAIN Greeting, Greeting[i].type = "clip"
      PROVE  i - 1 \in DOMAIN recent /\ Greeting[i] = Clip(recent[i - 1])
  <2>1. CASE i = 1
    BY <1>1, <1>3, <2>1 DEF Hello
  <2>2. CASE i # 1 /\ i <= 1 + Len(recent)
    <3>1. i - 1 \in DOMAIN recent /\ 1 + (i - 1) = i
      BY <1>2, <2>2
    <3> QED BY <1>1, <3>1
  <2>3. CASE ~(i <= 1 + Len(recent))
    <3>1. i - (1 + Len(recent)) \in DOMAIN tombstones /\ 1 + Len(recent) + (i - (1 + Len(recent))) = i
      BY <1>2, <2>3
    <3>2. Greeting[i] = Delete(tombstones[i - (1 + Len(recent))])
      BY <1>1, <3>1
    <3> QED BY <1>3, <3>2 DEF Delete
  <2> QED BY <2>1, <2>2, <2>3
<1>4. /\ \A m, n : Clip(m) = Clip(n) => m = n
      /\ \A m : Clip(m).type = "clip"
  BY DEF Clip
<1>5. ClipOnce(Greeting)
  <2> SUFFICES ASSUME NEW i \in DOMAIN Greeting, NEW j \in DOMAIN Greeting,
                      Greeting[i] = Greeting[j], Greeting[i].type = "clip"
               PROVE  i = j
    BY DEF ClipOnce
  <2>1. /\ i - 1 \in DOMAIN recent /\ Greeting[i] = Clip(recent[i - 1])
        /\ j - 1 \in DOMAIN recent /\ Greeting[j] = Clip(recent[j - 1])
    BY <1>3
  <2>2. i - 1 = j - 1
    BY <1>4, <2>1 DEF Distinct
  <2> QED BY <1>2, <2>2
<1>6. ClipsOf(Ids(Greeting)) = Ids(recent)
  <2>1. \A m : Clip(m) \in Ids(Greeting) <=> m \in Ids(recent)
    BY GreetingIds
  <2> QED BY <1>2, <2>1 DEF ClipsOf
<1>7. ASSUME NEW i \in DOMAIN Greeting, NEW j \in DOMAIN Greeting, i < j, NEW m, NEW n,
             Greeting[i] = Clip(m), Greeting[j] = Clip(n)
      PROVE  n \in Later(recent, m) /\ m \in Earlier(recent, n)
  <2>1. /\ i - 1 \in DOMAIN recent /\ recent[i - 1] = m
        /\ j - 1 \in DOMAIN recent /\ recent[j - 1] = n
    BY <1>3, <1>4, <1>7
  <2>2. i - 1 < j - 1
    BY <1>2, <1>7
  <2> QED BY <2>1, <2>2 DEF Later, Earlier, Ids
<1>8. ASSUME NEW m
      PROVE  /\ ClipsOf(Later(Greeting, Clip(m))) \subseteq Later(recent, m)
             /\ ClipsOf(Earlier(Greeting, Clip(m))) \subseteq Earlier(recent, m)
  BY <1>7 DEF ClipsOf, Later, Earlier
<1> QED BY <1>5, <1>6, <1>8

Admitted(d, m) == m \in shown[d] \/ decrypting[d][m] > 0

\* The ReplaySet knows what was admitted, as long as it can still come again.
Known ==
    \A d \in Devices :
        /\ Distinct(replay[d]) /\ ClipOnce(wire[d])
        /\ \A m \in Clips :
              /\ Admitted(d, m) /\ (m \in Ids(recent) \/ Clip(m) \in Ids(wire[d])) => m \in Ids(replay[d])
              /\ decrypting[d][m] > 0 => decrypting[d][m] = 1 /\ m \notin shown[d]

\* A socket carries clips in the order of the ring.
RingOrder ==
    /\ ~BACKFILL => recent = <<>>
    /\ \A d \in Devices : \A m \in Ids(recent) :
          ClipsOf(Later(wire[d], Clip(m))) \subseteq Later(recent, m)

\* What the ReplaySet r took after m, and what the wire w brings: clips the ring g
\* held before m then, or holds after m now.
NearRing(r, w, g, m) ==
    \E B \in SUBSET Clips :
        /\ Cardinality(B) <= RECENT_CAP - 1
        /\ Earlier(g, m) \subseteq B
        /\ Later(r, m) \cup ClipsOf(Ids(w)) \subseteq B \cup {m} \cup Later(g, m)

\* And before m comes again, they are few.
NearWire(r, w, m) ==
    \E B \in SUBSET Clips :
        /\ Cardinality(B) <= 2 * RECENT_CAP - 2
        /\ Later(r, m) \cup ClipsOf(Earlier(w, Clip(m))) \subseteq B

Near ==
    \A d \in Devices : \A m \in Ids(replay[d]) :
        /\ m \in Ids(recent) => NearRing(replay[d], wire[d], recent, m)
        /\ Clip(m) \in Ids(wire[d]) => NearWire(replay[d], wire[d], m)

\* A step that only loses keeps all that.
LEMMA LosingNear ==
    ASSUME Typed, Typed', Known, RingOrder, Near,
           recent' = recent \/ recent' = <<>>,
           \A d \in Devices :
               /\ Within(wire'[d], wire[d])
               /\ \/ replay'[d] = replay[d] /\ \A m \in Clips : Admitted(d, m)' => Admitted(d, m)
                  \/ replay'[d] = <<>> /\ \A m \in Clips : ~Admitted(d, m)'
               /\ \A m \in Clips : decrypting'[d][m] > 0 => decrypting'[d][m] = 1 /\ m \notin shown'[d]
    PROVE  (Known /\ RingOrder /\ Near)'
<1>1. Ids(<<>>) = {} /\ Distinct(<<>>)
  BY NoneIs DEF Distinct
<1>2. ASSUME NEW d \in Devices
      PROVE  /\ Ids(wire'[d]) \subseteq Ids(wire[d]) /\ (ClipOnce(wire[d]) => ClipOnce(wire'[d]))
             /\ \A m : /\ ClipsOf(Later(wire'[d], Clip(m))) \subseteq ClipsOf(Later(wire[d], Clip(m)))
                       /\ ClipsOf(Earlier(wire'[d], Clip(m))) \subseteq ClipsOf(Earlier(wire[d], Clip(m)))
             /\ ClipsOf(Ids(wire'[d])) \subseteq ClipsOf(Ids(wire[d]))
  <2>1. /\ wire'[d] \in Seq(Sent \cup {Hello}) /\ wire[d] \in Seq(Sent \cup {Hello})
        /\ Within(wire'[d], wire[d])
    BY DEF Typed, PathTypes
  <2>2. Ids(wire'[d]) \subseteq Ids(wire[d])
    BY <2>1, WithinIds
  <2>3. ClipOnce(wire[d]) => ClipOnce(wire'[d])
    BY <2>1, WithinOnce
  <2>4. \A m : /\ Later(wire'[d], Clip(m)) \subseteq Later(wire[d], Clip(m))
               /\ Earlier(wire'[d], Clip(m)) \subseteq Earlier(wire[d], Clip(m))
    BY <2>1, WithinLater
  <2> QED BY <2>2, <2>3, <2>4 DEF ClipsOf
<1>3. Known'
  BY <1>1, <1>2 DEF Known
<1>4. RingOrder'
  <2>1. CASE recent' = <<>>
    BY <1>1, <2>1 DEF RingOrder
  <2>2. CASE recent' = recent
    BY <1>2, <2>2 DEF RingOrder
  <2> QED BY <2>1, <2>2
<1>5. ASSUME NEW d \in Devices, NEW m \in Ids(replay'[d]), m \in Ids(recent')
      PROVE  NearRing(replay'[d], wire'[d], recent', m)
  <2>1. replay'[d] = replay[d] /\ recent' = recent
    BY <1>1, <1>5
  <2>2. NearRing(replay[d], wire[d], recent, m)
    BY <1>5, <2>1 DEF Near
  <2> QED BY <1>2, <2>1, <2>2 DEF NearRing
<1>6. ASSUME NEW d \in Devices, NEW m \in Ids(replay'[d]), Clip(m) \in Ids(wire'[d])
      PROVE  NearWire(replay'[d], wire'[d], m)
  <2>1. replay'[d] = replay[d] /\ Clip(m) \in Ids(wire[d])
    BY <1>1, <1>2, <1>6
  <2>2. NearWire(replay[d], wire[d], m)
    BY <1>6, <2>1 DEF Near
  <2> QED BY <1>2, <2>1, <2>2 DEF NearWire
<1> QED BY <1>3, <1>4, <1>5, <1>6 DEF Near

\* The ReplaySet has room for what can still come again.
LEMMA RoomToReplay ==
    ASSUME Typed, Single, Known, Near, REPLAY_CAP >= 2 * RECENT_CAP - 1, NEW d \in Devices,
           NEW n \in Clips, wire[d] # <<>>, Head(wire[d]) = Clip(n), n \notin Ids(replay[d]),
           NEW m \in Ids(replay[d]),
           m \in Ids(recent) \/ Clip(m) \in Ids(Tail(wire[d]))
    PROVE  m \in Ids(KeepLast(Append(replay[d], n), REPLAY_CAP))
<1> SUFFICES ASSUME m \notin Ids(KeepLast(Append(replay[d], n), REPLAY_CAP)) PROVE FALSE
  OBVIOUS
<1>1. PICK r : r = replay[d]
  OBVIOUS
<1>2. /\ r \in Seq(Clips) /\ Distinct(r) /\ Len(r) <= REPLAY_CAP /\ Len(r) \in Nat
      /\ m \in Ids(r) /\ n \notin Ids(r) /\ Ids(r) \subseteq Clips
  <2>1. r \in Seq(Clips) /\ Distinct(r) /\ Len(r) <= REPLAY_CAP /\ m \in Ids(r) /\ n \notin Ids(r)
    BY <1>1 DEF Typed, DeviceTypes, Known
  <2> QED BY <2>1, SeqIs DEF Ids
<1>3. PICK q : q = Append(r, n)
  OBVIOUS
<1>4. q \in Seq(Clips) /\ Len(q) = Len(r) + 1 /\ Ids(q) = Ids(r) \cup {n} /\ \A i \in 1 .. Len(r) : q[i] = r[i]
  BY <1>2, <1>3, AppendIs
<1>5. Len(q) = REPLAY_CAP + 1 /\ m = q[1]
  <2>1. Len(q) <= REPLAY_CAP + 1 /\ m \in Ids(q) /\ m \notin Ids(KeepLast(q, REPLAY_CAP))
    BY <1>1, <1>2, <1>3, <1>4, Bounds
  <2> QED BY <1>4, <2>1, KeepLoses, Bounds
<1>6. Len(r) = REPLAY_CAP /\ r # <<>> /\ m = Head(r)
  <2>1. Len(r) = REPLAY_CAP
    BY <1>2, <1>4, <1>5, Bounds
  <2>2. 1 \in 1 .. Len(r) /\ r # <<>>
    BY <2>1, Bounds, NoneIs
  <2>3. m = r[1] /\ Head(r) = r[1]
    BY <1>2, <1>4, <1>5, <2>2, TailIs
  <2> QED BY <2>1, <2>2, <2>3
<1>7. PICK S : S = (Ids(r) \ {m}) \cup {n}
  OBVIOUS
<1>8. S \in SUBSET Clips /\ Cardinality(S) = REPLAY_CAP
  <2>1. IsFiniteSet(Ids(r)) /\ Cardinality(Ids(r)) = REPLAY_CAP
    BY <1>2, <1>6, CountIds
  <2>2. IsFiniteSet(Ids(r) \ {m}) /\ Cardinality(Ids(r) \ {m}) = REPLAY_CAP - 1
    BY <1>2, <2>1, FS_RemoveElement
  <2>3. n \notin Ids(r) \ {m}
    BY <1>2
  <2>4. Cardinality((Ids(r) \ {m}) \cup {n}) = REPLAY_CAP - 1 + 1
    BY <2>2, <2>3, FS_AddElement
  <2> QED BY <1>2, <1>7, <2>4, Bounds
<1>9. Ids(r) \ {m} \subseteq Later(r, m)
  <2>1. Ids(r) = {m} \cup Ids(Tail(r)) /\ Ids(Tail(r)) \subseteq Later(r, m)
    BY <1>2, <1>6, TailIs, TailLater
  <2> QED BY <2>1
<1>10. PICK w : w = wire[d]
  OBVIOUS
<1>11. w \in Seq(Sent \cup {Hello}) /\ w # <<>> /\ Head(w) = Clip(n) /\ Clip(n) \in Ids(w)
  <2>1. w \in Seq(Sent \cup {Hello}) /\ w # <<>> /\ Head(w) = Clip(n)
    BY <1>10 DEF Typed, PathTypes
  <2> QED BY <2>1, TailIs
<1>12. ASSUME NEW B \in SUBSET Clips, Cardinality(B) <= 2 * RECENT_CAP - 2, S \subseteq B PROVE FALSE
  <2>1. IsFiniteSet(B) /\ Cardinality(B) \in Nat
    BY FiniteClips
  <2>2. Cardinality(S) <= Cardinality(B)
    BY <1>12, <2>1, FS_Subset
  <2> QED BY <1>8, <1>12, <2>1, <2>2, Bounds
<1>13. CASE Clip(m) \in Ids(Tail(w))
  <2>1. Clip(n) \in Earlier(w, Clip(m)) /\ Clip(m) \in Ids(w)
    BY <1>11, <1>13, TailLater, TailIs
  <2>2. NearWire(r, w, m)
    BY <1>1, <1>10, <2>1 DEF Near
  <2>3. PICK B \in SUBSET Clips : /\ Cardinality(B) <= 2 * RECENT_CAP - 2
                                  /\ Later(r, m) \cup ClipsOf(Earlier(w, Clip(m))) \subseteq B
    BY <2>2 DEF NearWire
  <2>4. S \subseteq B
    BY <1>7, <1>9, <2>1, <2>3 DEF ClipsOf
  <2> QED BY <1>12, <2>3, <2>4
<1>14. CASE m \in Ids(recent)
  <2>1. NearRing(r, w, recent, m)
    BY <1>1, <1>10, <1>14 DEF Near
  <2>2. PICK B \in SUBSET Clips :
            /\ Cardinality(B) <= RECENT_CAP - 1
            /\ Later(r, m) \cup ClipsOf(Ids(w)) \subseteq B \cup {m} \cup Later(recent, m)
    BY <2>1 DEF NearRing
  <2>3. Later(recent, m) \in SUBSET Clips /\ Cardinality(Later(recent, m)) <= RECENT_CAP - 1
    BY <1>14, NearCount DEF Single
  <2>4. /\ B \cup Later(recent, m) \in SUBSET Clips
        /\ Cardinality(B \cup Later(recent, m)) <= 2 * RECENT_CAP - 2
    BY <2>2, <2>3, NearSum
  <2>5. n \in ClipsOf(Ids(w)) /\ n # m
    BY <1>2, <1>11 DEF ClipsOf
  <2>6. S \subseteq B \cup Later(recent, m)
    BY <1>7, <1>9, <2>2, <2>5
  <2> QED BY <1>12, <2>4, <2>6
<1> QED BY <1>10, <1>13, <1>14

\* Steps at which nothing is admitted, shown, passed on or greeted.
LEMMA StillNear ==
    ASSUME Typed, Typed', Known, RingOrder, Near,
           recent' = recent \/ recent' = <<>>, UNCHANGED <<replay, decrypting, shown>>,
           \A d \in Devices : \/ wire'[d] = wire[d]
                              \/ wire'[d] = <<>>
                              \/ wire'[d] = Tail(wire[d]) /\ wire[d] # <<>>
    PROVE  (Known /\ RingOrder /\ Near)'
<1>1. \A d \in Devices : wire[d] \in Seq(Sent \cup {Hello})
  BY DEF Typed, PathTypes
<1>2. \A d \in Devices : Within(wire'[d], wire[d])
  BY <1>1, WithinSelf, EmptyWithin, TailIs
<1>3. \A d \in Devices, m \in Clips : decrypting'[d][m] > 0 => decrypting'[d][m] = 1 /\ m \notin shown'[d]
  BY DEF Known
<1>4. \A d \in Devices, m \in Clips : Admitted(d, m)' => Admitted(d, m)
  BY DEF Admitted
<1> QED BY <1>2, <1>3, <1>4, LosingNear

LEMMA ConsumeOne ==
    ASSUME Typed, NoLinks, NEW d \in Devices, NEW via \in Paths, NEW t, Arrives(d, via, t),
           Consume(d, via)
    PROVE  /\ via = "ws" /\ wire' = [wire EXCEPT ![d] = Tail(@)] /\ wire[d] # <<>>
           /\ \A e \in Devices : \/ wire'[e] = wire[e]
                                 \/ wire'[e] = Tail(wire[e]) /\ wire[e] # <<>>
<1>1. via = "ws" /\ wire[d] # <<>>
  BY DEF Arrives, NoLinks, Paths
<1>2. wire' = [wire EXCEPT ![d] = Tail(@)]
  BY <1>1 DEF Consume
<1> QED BY <1>1, <1>2 DEF Typed, PathTypes

LEMMA UserNear ==
    ASSUME Typed, Typed', Known, RingOrder, Near, NoLinks, NEW d \in Devices,
           \/ Compose(d) \/ OnHello(d)
           \/ \E m \in Clips : OnDelete(d, m) \/ DeleteStored(d, m)
           \/ \E via \in Paths : OnDeleteFrame(d, via)
    PROVE  (Known /\ RingOrder /\ Near)'
<1>1. UNCHANGED <<recent, replay, decrypting, shown>>
  BY DEF Compose, OnHello, OnDelete, DeleteStored, OnDeleteFrame, relayVars, historyVars
<1>2. \A e \in Devices : wire'[e] = wire[e] \/ (wire'[e] = Tail(wire[e]) /\ wire[e] # <<>>)
  <2>1. CASE Compose(d) \/ \E m \in Clips : OnDelete(d, m) \/ DeleteStored(d, m)
    <3>1. wire' = wire
      BY <2>1 DEF Compose, OnDelete, DeleteStored, pathVars
    <3> QED BY <3>1
  <2>2. CASE OnHello(d)
    BY <2>2, ConsumeOne DEF OnHello, Paths
  <2>3. ASSUME NEW via \in Paths, OnDeleteFrame(d, via)
        PROVE  \A e \in Devices : wire'[e] = wire[e] \/ (wire'[e] = Tail(wire[e]) /\ wire[e] # <<>>)
    BY <2>3, ConsumeOne DEF OnDeleteFrame
  <2> QED BY <2>1, <2>2, <2>3
<1> QED BY <1>1, <1>2, StillNear

\* Of the steps of the relay and of connections, these only lose.
LEMMA QuietNear ==
    ASSUME Typed, Typed', Known, RingOrder, Near, NEW d \in Devices,
           \/ WindowSlides(d) \/ RelayCloses(d)
           \/ OnMessage(d) /\ ~(used[d] < FRAME_LIMIT)
           \/ NetFails(d) \/ ClientCloses(d) \/ CloseLink(d)
           \/ \E e \in Devices : OpenLink(d, e)
           \/ RelayRestarts \/ UNCHANGED vars
    PROVE  (Known /\ RingOrder /\ Near)'
<1>1. UNCHANGED <<replay, decrypting, shown>>
  BY DEF WindowSlides, RelayCloses, OnMessage, NetFails, ClientCloses, CloseLink, OpenLink,
         RelayRestarts, vars, deviceVars, historyVars
<1>2. recent' = recent \/ recent' = <<>>
  BY DEF WindowSlides, RelayCloses, ForgetIfEmpty, OnMessage, NetFails, ClientCloses, CloseLink,
         OpenLink, RelayRestarts, vars, relayVars
<1>3. \A e \in Devices : wire'[e] = wire[e] \/ wire'[e] = <<>>
  <2>1. wire \in [Devices -> Seq(Sent \cup {Hello})]
    BY DEF Typed, PathTypes
  <2>2. \/ wire' = wire \/ wire' = [wire EXCEPT ![d] = <<>>]
        \/ wire' = [e \in Devices |-> <<>>]
    BY DEF WindowSlides, RelayCloses, OnMessage, NetFails, ClientCloses, CloseLink, OpenLink,
           RelayRestarts, vars, pathVars
  <2> QED BY <2>1, <2>2
<1> QED BY <1>1, <1>2, <1>3, StillNear

LEMMA ReloadNear ==
    ASSUME Typed, Typed', Known, RingOrder, Near, NEW d \in Devices, Reload(d)
    PROVE  (Known /\ RingOrder /\ Near)'
<1>1. /\ replay' = [replay EXCEPT ![d] = <<>>] /\ wire' = [wire EXCEPT ![d] = <<>>]
      /\ decrypting' = [decrypting EXCEPT ![d] = [m \in Clips |-> 0]]
      /\ shown' = [shown EXCEPT ![d] = {}] /\ recent' = recent
  BY DEF Reload, relayVars
<1>2. /\ replay \in [Devices -> Seq(Clips)] /\ wire \in [Devices -> Seq(Sent \cup {Hello})]
      /\ decrypting \in [Devices -> [Clips -> Nat]] /\ shown \in [Devices -> SUBSET Clips]
  BY DEF Typed, DeviceTypes, PathTypes, HistoryTypes
<1>3. ASSUME NEW e \in Devices
      PROVE  /\ Within(wire'[e], wire[e])
             /\ \/ replay'[e] = replay[e] /\ \A m \in Clips : Admitted(e, m)' => Admitted(e, m)
                \/ replay'[e] = <<>> /\ \A m \in Clips : ~Admitted(e, m)'
             /\ \A m \in Clips : decrypting'[e][m] > 0 => decrypting'[e][m] = 1 /\ m \notin shown'[e]
  <2>1. CASE e = d
    <3>1. wire'[e] = <<>> /\ replay'[e] = <<>> /\ shown'[e] = {} /\ \A m \in Clips : decrypting'[e][m] = 0
      BY <1>1, <1>2, <2>1
    <3> QED BY <3>1, EmptyWithin DEF Admitted
  <2>2. CASE e # d
    <3>1. wire'[e] = wire[e] /\ replay'[e] = replay[e] /\ shown'[e] = shown[e] /\ decrypting'[e] = decrypting[e]
      BY <1>1, <1>2, <2>2
    <3>2. Within(wire[e], wire[e])
      BY <1>2, WithinSelf
    <3> QED BY <3>1, <3>2 DEF Admitted, Known
  <2> QED BY <2>1, <2>2
<1> QED BY <1>1, <1>3, LosingNear

LEMMA ShowNear ==
    ASSUME Typed, Typed', Known, RingOrder, Near, NEW d \in Devices, NEW n \in Clips,
           ClipDecrypted(d, n)
    PROVE  (Known /\ RingOrder /\ Near)' /\ again' = again
<1>1. /\ UNCHANGED <<recent, replay, wire>> /\ decrypting[d][n] > 0
      /\ decrypting' = [decrypting EXCEPT ![d][n] = @ - 1]
      /\ shown' = [shown EXCEPT ![d] = @ \cup {n}]
  BY DEF ClipDecrypted, relayVars, pathVars
<1>2. decrypting \in [Devices -> [Clips -> Nat]] /\ shown \in [Devices -> SUBSET Clips]
  BY DEF Typed, DeviceTypes, HistoryTypes
<1>3. decrypting[d][n] = 1 /\ n \notin shown[d] /\ decrypting'[d][n] = 0
  BY <1>1, <1>2 DEF Known
<1>4. ASSUME NEW e \in Devices, NEW m \in Clips
      PROVE  /\ Admitted(e, m)' => Admitted(e, m)
             /\ decrypting'[e][m] > 0 => decrypting'[e][m] = 1 /\ m \notin shown'[e]
  <2>1. CASE e = d /\ m = n
    BY <1>1, <1>3, <2>1 DEF Admitted
  <2>2. CASE ~(e = d /\ m = n)
    <3>1. decrypting'[e][m] = decrypting[e][m] /\ (m \in shown'[e] <=> m \in shown[e])
      BY <1>1, <1>2, <2>2
    <3> QED BY <3>1 DEF Admitted, Known
  <2> QED BY <2>1, <2>2
<1>5. \A e \in Devices : Within(wire'[e], wire[e])
  BY <1>1, WithinSelf DEF Typed, PathTypes
<1>6. again' = again
  BY <1>3 DEF ClipDecrypted
<1> QED BY <1>1, <1>4, <1>5, <1>6, LosingNear

\* A clip is admitted: the ReplaySet takes it, and may forget one.
LEMMA AdmitNear ==
    ASSUME Typed, Single, Known, RingOrder, Near, REPLAY_CAP >= 2 * RECENT_CAP - 1,
           NEW d \in Devices, NEW n \in Clips, wire[d] # <<>>, Head(wire[d]) = Clip(n),
           n \notin Ids(replay[d]),
           wire' = [wire EXCEPT ![d] = Tail(@)],
           replay' = [replay EXCEPT ![d] = KeepLast(Append(@, n), REPLAY_CAP)],
           decrypting' = [decrypting EXCEPT ![d][n] = @ + 1],
           UNCHANGED <<recent, shown>>
    PROVE  (Known /\ RingOrder /\ Near)'
<1>1. PICK p, q, r, s, w : /\ p = replay[d] /\ q = Append(p, n) /\ r = KeepLast(q, REPLAY_CAP)
                           /\ s = wire[d] /\ w = Tail(s)
  OBVIOUS
<1>2. /\ p \in Seq(Clips) /\ s \in Seq(Sent \cup {Hello}) /\ Distinct(p) /\ ClipOnce(s)
      /\ n \notin Ids(p) /\ s # <<>> /\ Head(s) = Clip(n) /\ Clip(n).type = "clip"
  BY <1>1, Frames DEF Typed, DeviceTypes, PathTypes, Known
<1>3. /\ wire'[d] = w /\ replay'[d] = r
      /\ \A e \in Devices : e # d => wire'[e] = wire[e] /\ replay'[e] = replay[e]
  <2>1. wire \in [Devices -> Seq(Sent \cup {Hello})] /\ replay \in [Devices -> Seq(Clips)]
    BY DEF Typed, DeviceTypes, PathTypes
  <2> QED BY <1>1, <2>1
<1>4. /\ w \in Seq(Sent \cup {Hello}) /\ Ids(s) = {Clip(n)} \cup Ids(w) /\ Within(w, s)
      /\ ClipOnce(w) /\ Clip(n) \notin Ids(w)
  <2>1. w \in Seq(Sent \cup {Hello}) /\ Ids(s) = {Clip(n)} \cup Ids(w) /\ Within(w, s)
    BY <1>1, <1>2, TailIs
  <2>2. ClipOnce(w)
    BY <1>2, <2>1, WithinOnce
  <2>3. Clip(n) \notin Ids(w)
    BY <1>1, <1>2, HeadOnce
  <2> QED BY <2>1, <2>2, <2>3
<1>5. \A m : /\ Later(w, Clip(m)) \subseteq Later(s, Clip(m))
             /\ Earlier(w, Clip(m)) \subseteq Earlier(s, Clip(m))
  BY <1>4, WithinLater
<1>6. /\ Ids(w) \subseteq Later(s, Clip(n))
      /\ \A x \in Ids(w) : Clip(n) \in Earlier(s, x)
  BY <1>1, <1>2, TailLater
<1>7. q \in Seq(Clips) /\ Ids(q) = Ids(p) \cup {n} /\ Distinct(q)
  BY <1>1, <1>2, AppendIs, AppendOnce
<1>8. r \in Seq(Clips) /\ Within(r, q) /\ Ids(r) \subseteq Ids(p) \cup {n} /\ n \in Ids(r) /\ Distinct(r)
  <2>1. r \in Seq(Clips) /\ Within(r, q)
    BY <1>1, <1>7, KeepIs, Bounds
  <2>2. Ids(r) \subseteq Ids(p) \cup {n} /\ n \in Ids(r)
    BY <1>1, AdmitIds
  <2>3. Distinct(r)
    BY <1>7, <2>1, WithinOnce
  <2> QED BY <2>1, <2>2, <2>3
<1>9. /\ \A m : Later(r, m) \subseteq Later(p, m) \cup {n}
      /\ Later(r, n) = {}
  <2>1. \A m : Later(r, m) \subseteq Later(q, m)
    BY <1>8, WithinLater
  <2>2. (\A m : Later(q, m) \subseteq Later(p, m) \cup {n}) /\ Later(q, n) = {}
    BY <1>1, <1>2, AppendLater
  <2> QED BY <2>1, <2>2
<1>10. n \in ClipsOf(Ids(s)) /\ ClipsOf(Ids(w)) \subseteq ClipsOf(Ids(s))
  BY <1>4 DEF ClipsOf
<1>11. Known'
  <2>1. decrypting \in [Devices -> [Clips -> Nat]]
    BY DEF Typed, DeviceTypes
  <2>2. ~Admitted(d, n)
    BY <1>1, <1>2, <1>4 DEF Known
  <2>3. decrypting[d][n] = 0 /\ n \notin shown[d]
    BY <2>1, <2>2 DEF Admitted
  <2>4. /\ decrypting'[d][n] = 1
        /\ \A m \in Clips : m # n => decrypting'[d][m] = decrypting[d][m]
        /\ \A e \in Devices : e # d => decrypting'[e] = decrypting[e]
    BY <2>1, <2>3
  <2>5. ASSUME NEW m \in Clips, Admitted(d, m)', m \in Ids(recent) \/ Clip(m) \in Ids(w)
        PROVE  m \in Ids(r)
    <3>1. CASE m = n
      BY <1>8, <3>1
    <3>2. CASE m # n
      <4>1. Admitted(d, m) /\ (m \in Ids(recent) \/ Clip(m) \in Ids(s))
        BY <1>4, <2>4, <2>5, <3>2 DEF Admitted
      <4>2. m \in Ids(p)
        BY <1>1, <4>1 DEF Known
      <4> QED BY <1>1, <1>2, <2>5, <4>2, RoomToReplay
    <3> QED BY <3>1, <3>2
  <2>6. ASSUME NEW m \in Clips, decrypting'[d][m] > 0
        PROVE  decrypting'[d][m] = 1 /\ m \notin shown'[d]
    <3>1. CASE m = n
      BY <2>3, <2>4, <3>1
    <3>2. CASE m # n
      BY <2>4, <2>6, <3>2 DEF Known
    <3> QED BY <3>1, <3>2
  <2>7. ASSUME NEW e \in Devices, e # d
        PROVE  /\ Distinct(replay'[e]) /\ ClipOnce(wire'[e])
               /\ \A m \in Clips :
                     /\ Admitted(e, m)' /\ (m \in Ids(recent') \/ Clip(m) \in Ids(wire'[e])) => m \in Ids(replay'[e])
                     /\ decrypting'[e][m] > 0 => decrypting'[e][m] = 1 /\ m \notin shown'[e]
    <3>1. \A m \in Clips : Admitted(e, m)' <=> Admitted(e, m)
      BY <2>4, <2>7 DEF Admitted
    <3> QED BY <1>3, <2>4, <2>7, <3>1 DEF Known
  <2> QED BY <1>3, <1>4, <1>8, <2>5, <2>6, <2>7 DEF Known
<1>12. RingOrder'
  <2>1. \A m \in Ids(recent) : ClipsOf(Later(w, Clip(m))) \subseteq Later(recent, m)
    BY <1>1, <1>5 DEF RingOrder, ClipsOf
  <2> QED BY <1>3, <2>1 DEF RingOrder
<1>13. ASSUME NEW m \in Ids(r), m \in Ids(recent) PROVE NearRing(r, w, recent, m)
  <2>1. CASE m = n
    <3>1. Earlier(recent, n) \in SUBSET Clips /\ Cardinality(Earlier(recent, n)) <= RECENT_CAP - 1
      BY <1>13, <2>1, NearCount DEF Single
    <3>2. ClipsOf(Ids(w)) \subseteq Later(recent, n)
      BY <1>1, <1>6, <1>13, <2>1 DEF RingOrder, ClipsOf
    <3> QED BY <1>9, <2>1, <3>1, <3>2 DEF NearRing
  <2>2. CASE m # n
    <3>1. m \in Ids(p)
      BY <1>8, <2>2
    <3>2. PICK B \in SUBSET Clips :
              /\ Cardinality(B) <= RECENT_CAP - 1
              /\ Earlier(recent, m) \subseteq B
              /\ Later(p, m) \cup ClipsOf(Ids(s)) \subseteq B \cup {m} \cup Later(recent, m)
      BY <1>1, <1>13, <3>1 DEF Near, NearRing
    <3>3. Later(r, m) \cup ClipsOf(Ids(w)) \subseteq B \cup {m} \cup Later(recent, m)
      BY <1>9, <1>10, <3>2
    <3> QED BY <3>2, <3>3 DEF NearRing
  <2> QED BY <2>1, <2>2
<1>14. ASSUME NEW m \in Ids(r), Clip(m) \in Ids(w) PROVE NearWire(r, w, m)
  <2>1. m \in Ids(p) /\ Clip(m) \in Ids(s)
    BY <1>4, <1>8, <1>14
  <2>2. PICK B \in SUBSET Clips :
            /\ Cardinality(B) <= 2 * RECENT_CAP - 2
            /\ Later(p, m) \cup ClipsOf(Earlier(s, Clip(m))) \subseteq B
    BY <1>1, <2>1 DEF Near, NearWire
  <2>3. n \in ClipsOf(Earlier(s, Clip(m))) /\ ClipsOf(Earlier(w, Clip(m))) \subseteq ClipsOf(Earlier(s, Clip(m)))
    BY <1>5, <1>6, <1>14 DEF ClipsOf
  <2>4. Later(r, m) \cup ClipsOf(Earlier(w, Clip(m))) \subseteq B
    BY <1>9, <2>2, <2>3
  <2> QED BY <2>2, <2>4 DEF NearWire
<1>15. Near'
  <2>1. ASSUME NEW e \in Devices, NEW m \in Ids(replay'[e])
        PROVE  /\ m \in Ids(recent') => NearRing(replay'[e], wire'[e], recent', m)
               /\ Clip(m) \in Ids(wire'[e]) => NearWire(replay'[e], wire'[e], m)
    <3>1. CASE e = d
      BY <1>3, <1>13, <1>14, <2>1, <3>1
    <3>2. CASE e # d
      BY <1>3, <2>1, <3>2 DEF Near
    <3> QED BY <3>1, <3>2
  <2> QED BY <2>1 DEF Near
<1> QED BY <1>11, <1>12, <1>15

LEMMA ClipNear ==
    ASSUME Typed, Typed', Single, Known, RingOrder, Near, NoLinks, REPLAY_CAP >= 2 * RECENT_CAP - 1,
           NEW d \in Devices, NEW via \in Paths, OnClip(d, via)
    PROVE  (Known /\ RingOrder /\ Near)'
<1>1. PICK n : n = Arg(d, via)
  OBVIOUS
<1>2. /\ n \in Clips /\ via = "ws" /\ wire' = [wire EXCEPT ![d] = Tail(@)] /\ wire[d] # <<>>
      /\ \A e \in Devices : wire'[e] = wire[e] \/ (wire'[e] = Tail(wire[e]) /\ wire[e] # <<>>)
      /\ UNCHANGED <<recent, shown>>
  BY <1>1, Arriving, ConsumeOne DEF OnClip, relayVars, historyVars
<1>3. Head(wire[d]) = Clip(n)
  BY <1>1, <1>2, Arriving DEF OnClip, Clip
<1>4. CASE n \in Ids(replay[d])
  BY <1>1, <1>2, <1>4, StillNear DEF OnClip
<1>5. CASE n \notin Ids(replay[d])
  <2>1. /\ replay' = [replay EXCEPT ![d] = KeepLast(Append(@, n), REPLAY_CAP)]
        /\ decrypting' = [decrypting EXCEPT ![d][n] = @ + 1]
    BY <1>1, <1>5 DEF OnClip
  <2> QED BY <1>2, <1>3, <1>5, <2>1, AdmitNear
<1> QED BY <1>4, <1>5

\* What passing on a new clip does to the ring and to the sockets.
LEMMA RelayedLater ==
    ASSUME Typed, Single, RingOrder, NEW n \in Clips, n \notin Ids(recent), PushRecent(n)
    PROVE  /\ ~BACKFILL => recent' = <<>>
           /\ Ids(recent') \subseteq Ids(recent) \cup {n}
           /\ \A m \in Ids(recent') \ {n} : /\ Later(recent, m) \cup {n} \subseteq Later(recent', m)
                                            /\ Earlier(recent', m) \subseteq Earlier(recent, m)
<1>1. Ids(recent') \subseteq Ids(recent) \cup {n}
  BY PushIds
<1>2. CASE ~BACKFILL
  <2>1. recent' = <<>>
    BY <1>2 DEF PushRecent, RingOrder
  <2> QED BY <1>2, <2>1, NoneIs
<1>3. CASE BACKFILL
  <2>1. PICK q, r : q = Append(recent, n) /\ r = KeepLast(q, RECENT_CAP)
    OBVIOUS
  <2>2. recent \in Seq(Clips) /\ Distinct(recent) /\ recent' = r
    BY <1>3, <2>1 DEF Typed, RelayTypes, Single, PushRecent
  <2>3. q \in Seq(Clips) /\ Distinct(q)
    BY <2>1, <2>2, AppendIs, AppendOnce
  <2>4. Within(r, q)
    BY <2>1, <2>3, KeepIs, Bounds
  <2>5. ASSUME NEW m \in Ids(r), m # n
        PROVE  /\ Later(recent, m) \cup {n} \subseteq Later(r, m)
               /\ Earlier(r, m) \subseteq Earlier(recent, m)
    <3>1. m \in Ids(recent)
      BY <1>1, <2>2, <2>5
    <3>2. /\ Later(recent, m) \cup {n} \subseteq Later(q, m)
          /\ Earlier(q, m) \subseteq Earlier(recent, m)
      BY <2>1, <2>2, <2>5, <3>1, AppendLater
    <3>3. Later(q, m) \subseteq Later(r, m)
      BY <2>1, <2>3, <2>5, KeepLater, Bounds
    <3>4. Earlier(r, m) \subseteq Earlier(q, m)
      BY <2>4, WithinLater
    <3> QED BY <3>2, <3>3, <3>4
  <2> QED BY <1>1, <1>3, <2>2, <2>5
<1> QED BY <1>2, <1>3

LEMMA BroadcastLater ==
    ASSUME Typed, NEW d \in Devices, NEW n \in Clips, Broadcast(d, Clip(n)), NEW e \in Devices,
           Clip(n) \notin Ids(wire[e])
    PROVE  /\ ClipOnce(wire[e]) => ClipOnce(wire'[e])
           /\ Ids(wire'[e]) \subseteq Ids(wire[e]) \cup {Clip(n)}
           /\ ClipsOf(Ids(wire'[e])) \subseteq ClipsOf(Ids(wire[e])) \cup {n}
           /\ ClipsOf(Later(wire'[e], Clip(n))) = {}
           /\ \A m : m # n => /\ ClipsOf(Later(wire'[e], Clip(m))) \subseteq ClipsOf(Later(wire[e], Clip(m))) \cup {n}
                              /\ ClipsOf(Earlier(wire'[e], Clip(m))) \subseteq ClipsOf(Earlier(wire[e], Clip(m)))
<1>1. PICK w, x : w = wire[e] /\ x = Clip(n)
  OBVIOUS
<1>2. /\ w \in Seq(Sent \cup {Hello}) /\ x \in Sent \cup {Hello} /\ x \in Sent /\ x \notin Ids(w)
      /\ \A m : Clip(m) = x => m = n
  BY <1>1, Frames DEF Typed, PathTypes
<1>3. wire'[e] = w \/ wire'[e] = Append(w, x)
  BY <1>1, <1>2, BroadcastIds
<1>4. /\ Ids(Append(w, x)) = Ids(w) \cup {x}
      /\ ClipOnce(w) => ClipOnce(Append(w, x))
      /\ Later(Append(w, x), x) = {}
      /\ \A y : /\ Later(Append(w, x), y) \subseteq Later(w, y) \cup {x}
                /\ y # x => Earlier(Append(w, x), y) \subseteq Earlier(w, y)
  BY <1>2, AppendIs, AppendOnce, AppendLater
<1>5. Later(w, x) = {}
  BY <1>2 DEF Later, Ids
<1>6. CASE wire'[e] = w
  BY <1>1, <1>5, <1>6 DEF ClipsOf
<1>7. CASE wire'[e] = Append(w, x)
  <2>1. ClipsOf(Ids(w) \cup {x}) \subseteq ClipsOf(Ids(w)) \cup {n}
    BY <1>2 DEF ClipsOf
  <2>2. ASSUME NEW m, m # n
        PROVE  /\ ClipsOf(Later(Append(w, x), Clip(m))) \subseteq ClipsOf(Later(w, Clip(m))) \cup {n}
               /\ ClipsOf(Earlier(Append(w, x), Clip(m))) \subseteq ClipsOf(Earlier(w, Clip(m)))
    <3>1. /\ Later(Append(w, x), Clip(m)) \subseteq Later(w, Clip(m)) \cup {x}
          /\ Earlier(Append(w, x), Clip(m)) \subseteq Earlier(w, Clip(m))
      BY <1>2, <1>4, <2>2
    <3> QED BY <1>2, <3>1 DEF ClipsOf
  <2>3. ClipsOf({}) = {}
    BY DEF ClipsOf
  <2> QED BY <1>1, <1>4, <1>7, <2>1, <2>2, <2>3
<1> QED BY <1>3, <1>6, <1>7

LEMMA MessageNear ==
    ASSUME Typed, Fresh, Single, Known, RingOrder, Near, NEW d \in Devices, OnMessage(d),
           used[d] < FRAME_LIMIT, NEW n \in Clips, Head(up[d]) = Clip(n)
    PROVE  (Known /\ RingOrder /\ Near)'
<1>1. /\ up[d] # <<>> /\ Broadcast(d, Clip(n)) /\ PushRecent(n)
      /\ UNCHANGED <<replay, decrypting, shown>>
  BY Frames DEF OnMessage, deviceVars
<1>2. Unheard(n, d)
  <2>1. Clip(n) \in Ids(up[d])
    BY <1>1, UpIds
  <2> QED BY <2>1 DEF Fresh, Waiting
<1>3. /\ n \notin Ids(recent)
      /\ \A e \in Devices : Clip(n) \notin Ids(wire[e]) /\ n \notin Ids(replay[e]) /\ ~Admitted(e, n)
  <2>1. \A e \in Devices : ~(decrypting[e][n] > 0)
    BY <1>2 DEF Unheard, Unreached
  <2> QED BY <1>2, <2>1 DEF Unheard, Unreached, Admitted
<1>4. /\ ~BACKFILL => recent' = <<>>
      /\ Ids(recent') \subseteq Ids(recent) \cup {n}
      /\ \A m \in Ids(recent') \ {n} : /\ Later(recent, m) \cup {n} \subseteq Later(recent', m)
                                       /\ Earlier(recent', m) \subseteq Earlier(recent, m)
  BY <1>1, <1>3, RelayedLater
<1>5. ASSUME NEW e \in Devices
      PROVE  /\ ClipOnce(wire[e]) => ClipOnce(wire'[e])
             /\ Ids(wire'[e]) \subseteq Ids(wire[e]) \cup {Clip(n)}
             /\ ClipsOf(Ids(wire'[e])) \subseteq ClipsOf(Ids(wire[e])) \cup {n}
             /\ ClipsOf(Later(wire'[e], Clip(n))) = {}
             /\ \A m : m # n => /\ ClipsOf(Later(wire'[e], Clip(m))) \subseteq ClipsOf(Later(wire[e], Clip(m))) \cup {n}
                                /\ ClipsOf(Earlier(wire'[e], Clip(m))) \subseteq ClipsOf(Earlier(wire[e], Clip(m)))
  BY <1>1, <1>3, BroadcastLater
<1>6. \A e \in Devices : \A m : Clip(m) \in Ids(wire'[e]) => m = n \/ Clip(m) \in Ids(wire[e])
  BY <1>5 DEF Clip
<1>7. \A e \in Devices, m \in Clips : Admitted(e, m)' <=> Admitted(e, m)
  BY <1>1 DEF Admitted
<1>8. Known'
  BY <1>1, <1>3, <1>4, <1>5, <1>6, <1>7 DEF Known
<1>9. RingOrder'
  <2>1. ASSUME NEW e \in Devices, NEW m \in Ids(recent')
        PROVE  ClipsOf(Later(wire'[e], Clip(m))) \subseteq Later(recent', m)
    <3>1. CASE m = n
      BY <1>5, <3>1
    <3>2. CASE m # n
      <4>1. m \in Ids(recent) /\ Later(recent, m) \cup {n} \subseteq Later(recent', m)
        BY <1>4, <2>1, <3>2
      <4>2. ClipsOf(Later(wire[e], Clip(m))) \subseteq Later(recent, m)
        BY <4>1 DEF RingOrder
      <4>3. ClipsOf(Later(wire'[e], Clip(m))) \subseteq ClipsOf(Later(wire[e], Clip(m))) \cup {n}
        BY <1>5, <3>2
      <4> QED BY <4>1, <4>2, <4>3
    <3> QED BY <3>1, <3>2
  <2> QED BY <1>4, <2>1 DEF RingOrder
<1>10. ASSUME NEW e \in Devices, NEW m \in Ids(replay[e]), m \in Ids(recent')
       PROVE  NearRing(replay[e], wire'[e], recent', m)
  <2>1. /\ m # n /\ m \in Ids(recent) /\ Later(recent, m) \cup {n} \subseteq Later(recent', m)
        /\ Earlier(recent', m) \subseteq Earlier(recent, m)
    BY <1>3, <1>4, <1>10
  <2>2. PICK B \in SUBSET Clips :
            /\ Cardinality(B) <= RECENT_CAP - 1
            /\ Earlier(recent, m) \subseteq B
            /\ Later(replay[e], m) \cup ClipsOf(Ids(wire[e])) \subseteq B \cup {m} \cup Later(recent, m)
    BY <2>1 DEF Near, NearRing
  <2>3. Later(replay[e], m) \cup ClipsOf(Ids(wire'[e])) \subseteq B \cup {m} \cup Later(recent', m)
    BY <1>5, <2>1, <2>2
  <2> QED BY <2>1, <2>2, <2>3 DEF NearRing
<1>11. ASSUME NEW e \in Devices, NEW m \in Ids(replay[e]), Clip(m) \in Ids(wire'[e])
       PROVE  NearWire(replay[e], wire'[e], m)
  <2>1. m # n /\ Clip(m) \in Ids(wire[e])
    BY <1>3, <1>6, <1>11
  <2>2. NearWire(replay[e], wire[e], m)
    BY <2>1 DEF Near
  <2>3. ClipsOf(Earlier(wire'[e], Clip(m))) \subseteq ClipsOf(Earlier(wire[e], Clip(m)))
    BY <1>5, <2>1
  <2> QED BY <2>2, <2>3 DEF NearWire
<1> QED BY <1>1, <1>8, <1>9, <1>10, <1>11 DEF Near

LEMMA ConnectNear ==
    ASSUME Typed, Single, Known, RingOrder, Near, NEW d \in Devices, Connect(d)
    PROVE  (Known /\ RingOrder /\ Near)'
<1>1. /\ wire' = [wire EXCEPT ![d] = Greeting] /\ UNCHANGED <<recent, replay, decrypting, shown>>
  BY DEF Connect, historyVars
<1>2. wire \in [Devices -> Seq(Sent \cup {Hello})]
  BY DEF Typed, PathTypes
<1>3. wire'[d] = Greeting /\ \A e \in Devices : e # d => wire'[e] = wire[e]
  BY <1>1, <1>2
<1>4. /\ ClipOnce(Greeting)
      /\ ClipsOf(Ids(Greeting)) = Ids(recent)
      /\ \A m : /\ ClipsOf(Later(Greeting, Clip(m))) \subseteq Later(recent, m)
                /\ ClipsOf(Earlier(Greeting, Clip(m))) \subseteq Earlier(recent, m)
  BY GreetingLater DEF Single
<1>5. \A m : Clip(m) \in Ids(Greeting) => m \in Ids(recent)
  BY GreetingIds
<1>6. \A e \in Devices, m \in Clips : Admitted(e, m)' <=> Admitted(e, m)
  BY <1>1 DEF Admitted
<1>7. Known'
  <2>1. ASSUME NEW e \in Devices
        PROVE  /\ Distinct(replay'[e]) /\ ClipOnce(wire'[e])
               /\ \A m \in Clips :
                     /\ Admitted(e, m)' /\ (m \in Ids(recent') \/ Clip(m) \in Ids(wire'[e])) => m \in Ids(replay'[e])
                     /\ decrypting'[e][m] > 0 => decrypting'[e][m] = 1 /\ m \notin shown'[e]
    <3>1. CASE e = d
      BY <1>1, <1>3, <1>4, <1>5, <1>6, <3>1 DEF Known
    <3>2. CASE e # d
      BY <1>1, <1>3, <1>6, <3>2 DEF Known
    <3> QED BY <3>1, <3>2
  <2> QED BY <2>1 DEF Known
<1>8. RingOrder'
  BY <1>1, <1>3, <1>4 DEF RingOrder
<1>9. ASSUME NEW m \in Ids(replay[d]), m \in Ids(recent)
      PROVE  NearRing(replay[d], Greeting, recent, m) /\ NearWire(replay[d], Greeting, m)
  <2>1. PICK B \in SUBSET Clips :
            /\ Cardinality(B) <= RECENT_CAP - 1
            /\ Earlier(recent, m) \subseteq B
            /\ Later(replay[d], m) \cup ClipsOf(Ids(wire[d])) \subseteq B \cup {m} \cup Later(recent, m)
    BY <1>9 DEF Near, NearRing
  <2>2. Ids(recent) \subseteq Earlier(recent, m) \cup {m} \cup Later(recent, m)
    <3>1. recent \in Seq(Clips)
      BY DEF Typed, RelayTypes
    <3> QED BY <1>9, <3>1, AllIds
  <2>3. NearRing(replay[d], Greeting, recent, m)
    BY <1>4, <2>1, <2>2 DEF NearRing
  <2>4. Later(recent, m) \in SUBSET Clips /\ Cardinality(Later(recent, m)) <= RECENT_CAP - 1
    BY <1>9, NearCount DEF Single
  <2>5. /\ B \cup Later(recent, m) \in SUBSET Clips
        /\ Cardinality(B \cup Later(recent, m)) <= 2 * RECENT_CAP - 2
    BY <2>1, <2>4, NearSum
  <2>6. m \notin Later(replay[d], m)
    <3>1. replay[d] \in Seq(Clips) /\ Distinct(replay[d])
      BY DEF Typed, DeviceTypes, Known
    <3> QED BY <3>1, DistinctLater
  <2>7. Later(replay[d], m) \cup ClipsOf(Earlier(Greeting, Clip(m))) \subseteq B \cup Later(recent, m)
    BY <1>4, <2>1, <2>6
  <2> QED BY <2>3, <2>5, <2>7 DEF NearWire
<1>10. ASSUME NEW e \in Devices, NEW m \in Ids(replay'[e])
       PROVE  /\ m \in Ids(recent') => NearRing(replay'[e], wire'[e], recent', m)
              /\ Clip(m) \in Ids(wire'[e]) => NearWire(replay'[e], wire'[e], m)
  <2>1. CASE e = d
    BY <1>1, <1>3, <1>5, <1>9, <1>10, <2>1
  <2>2. CASE e # d
    BY <1>1, <1>3, <1>10, <2>2 DEF Near
  <2> QED BY <2>1, <2>2
<1> QED BY <1>7, <1>8, <1>10 DEF Near

NoneAsked == asked = {}

LEMMA StepNoneAsked == ASSUME MaxDeletes = 0 PROVE NoneAsked /\ [Next]_vars => NoneAsked'
<1> SUFFICES ASSUME NoneAsked, [Next]_vars PROVE asked' = asked
  BY DEF NoneAsked
<1>1. ASSUME NEW d \in Devices, NEW m \in Clips, OnDelete(d, m) PROVE FALSE
  <2>1. Cardinality({<<d, m>>}) = 1
    BY FS_Singleton
  <2>2. asked \cup {<<d, m>>} = {<<d, m>>}
    BY DEF NoneAsked
  <2> QED BY <1>1, <2>1, <2>2 DEF OnDelete
<1>2. ASSUME NEW d \in Devices, ClientStep(d) PROVE asked' = asked
  BY <1>1, <1>2 DEF ClientStep, FrameStep, Compose, OnHello, DeleteStored, ClipDecrypted, OnClip,
                    OnDeleteFrame, historyVars
<1>3. ASSUME NEW d \in Devices, RelayStep(d) PROVE asked' = asked
  BY <1>3 DEF RelayStep, OnMessage, WindowSlides, RelayCloses, historyVars
<1>4. ASSUME NEW d \in Devices, ConnectionStep(d) PROVE asked' = asked
  BY <1>4 DEF ConnectionStep, Connect, NetFails, ClientCloses, Reload, CloseLink, OpenLink,
              historyVars
<1>5. RelayRestarts \/ UNCHANGED vars => asked' = asked
  BY DEF RelayRestarts, vars, historyVars
<1> QED BY <1>2, <1>3, <1>4, <1>5 DEF Next

NoneAgain == again = {}

LEMMA StepNear ==
    ASSUME ~P2P, REPLAY_CAP >= 2 * RECENT_CAP - 1, Typed, Typed', DeletesAsked, NoneAsked, Fresh, Single,
           NoLinks, Known, RingOrder, Near, NoneAgain, [Next]_vars
    PROVE  (Known /\ RingOrder /\ Near)' /\ NoneAgain'
<1>1. ASSUME NEW d \in Devices, NEW n \in Clips, ClipDecrypted(d, n)
      PROVE  (Known /\ RingOrder /\ Near)' /\ NoneAgain'
  BY <1>1, ShowNear DEF NoneAgain
<1>2. ASSUME NEW d \in Devices, ClientStep(d), ~\E n \in Clips : ClipDecrypted(d, n)
      PROVE  (Known /\ RingOrder /\ Near)' /\ again' = again
  <2>1. again' = again
    BY <1>2 DEF ClientStep, FrameStep, Compose, OnHello, OnDelete, DeleteStored, OnClip,
                OnDeleteFrame, historyVars
  <2>2. ASSUME NEW via \in Paths, OnClip(d, via) PROVE (Known /\ RingOrder /\ Near)'
    BY <2>2, ClipNear
  <2>3. CASE \/ Compose(d) \/ OnHello(d)
             \/ \E m \in Clips : OnDelete(d, m) \/ DeleteStored(d, m)
             \/ \E via \in Paths : OnDeleteFrame(d, via)
    BY <2>1, <2>3, UserNear
  <2> QED BY <1>2, <2>1, <2>2, <2>3 DEF ClientStep, FrameStep
<1>3. ASSUME NEW d \in Devices, OnMessage(d), used[d] < FRAME_LIMIT
      PROVE  (Known /\ RingOrder /\ Near)'
  <2>1. PICK n \in Clips : n = Head(up[d]).m
    BY <1>3, UpIds DEF OnMessage
  <2>2. Head(up[d]) = Clip(n)
    <3>1. Delete(n) \notin Ids(up[d])
      BY DEF DeletesAsked, Mine, NoneAsked
    <3>2. up[d] # <<>>
      BY <1>3 DEF OnMessage
    <3> QED BY <2>1, <3>1, <3>2, UpIds
  <2> QED BY <1>3, <2>2, MessageNear
<1>4. ASSUME NEW d \in Devices, RelayStep(d) PROVE (Known /\ RingOrder /\ Near)' /\ again' = again
  <2>1. again' = again
    BY <1>4 DEF RelayStep, OnMessage, WindowSlides, RelayCloses, historyVars
  <2>2. CASE WindowSlides(d) \/ RelayCloses(d) \/ (OnMessage(d) /\ ~(used[d] < FRAME_LIMIT))
    BY <2>1, <2>2, QuietNear
  <2> QED BY <1>3, <1>4, <2>1, <2>2 DEF RelayStep
<1>5. ASSUME NEW d \in Devices, ConnectionStep(d) PROVE (Known /\ RingOrder /\ Near)' /\ again' = again
  <2>1. again' = again
    BY <1>5 DEF ConnectionStep, Connect, NetFails, ClientCloses, Reload, CloseLink, OpenLink,
                historyVars
  <2>2. CASE Connect(d)
    BY <2>1, <2>2, ConnectNear
  <2>3. CASE Reload(d)
    BY <2>1, <2>3, ReloadNear
  <2>4. CASE NetFails(d) \/ ClientCloses(d) \/ CloseLink(d) \/ \E e \in Devices : OpenLink(d, e)
    BY <2>1, <2>4, QuietNear
  <2> QED BY <1>5, <2>1, <2>2, <2>3, <2>4 DEF ConnectionStep
<1>6. CASE RelayRestarts \/ UNCHANGED vars
  <2>1. again' = again
    BY <1>6 DEF RelayRestarts, vars, historyVars
  <2>2. CASE Devices = {}
    <3>1. (Known /\ RingOrder /\ Near)'
      BY <1>6, <2>2 DEF Known, RingOrder, Near, RelayRestarts, vars, relayVars
    <3> QED BY <2>1, <3>1 DEF NoneAgain
  <2>3. ASSUME NEW d \in Devices PROVE (Known /\ RingOrder /\ Near)'
    BY <1>6, QuietNear
  <2> QED BY <2>1, <2>2, <2>3 DEF NoneAgain
<1> QED BY <1>1, <1>2, <1>4, <1>5, <1>6 DEF Next, NoneAgain

LEMMA InitNear == Init => NoneAsked /\ NoLinks /\ Known /\ RingOrder /\ Near /\ NoneAgain
<1> SUFFICES ASSUME Init PROVE NoneAsked /\ NoLinks /\ Known /\ RingOrder /\ Near /\ NoneAgain
  OBVIOUS
<1>1. /\ NoneAsked /\ NoneAgain /\ NoLinks /\ recent = <<>>
      /\ \A d \in Devices : wire[d] = <<>> /\ replay[d] = <<>> /\ shown[d] = {}
      /\ \A d \in Devices, m \in Clips : decrypting[d][m] = 0
  BY DEF Init, NoneAsked, NoneAgain, NoLinks
<1>2. Distinct(<<>>) /\ ClipOnce(<<>>) /\ Ids(<<>>) = {}
  BY NoneIs DEF Distinct, ClipOnce
<1>3. \A d \in Devices, m \in Clips : ~Admitted(d, m)
  BY <1>1 DEF Admitted
<1> QED BY <1>1, <1>2, <1>3 DEF Known, RingOrder, Near

\* Where nobody deletes and nothing takes a data channel, no device emits a clip
\* twice until its page is reloaded, however live fan-out and backfill bring it, if
\* the ReplaySet holds one less than twice the ring (client.ts onClip,
\* replay-set.ts; rooms.ts pushRecent, ws-handlers.ts greeting).
THEOREM ForeignOnce ==
    ASSUME MaxDeletes = 0, ~P2P, REPLAY_CAP >= 2 * RECENT_CAP - 1
    PROVE  Spec => []ForeignClipOnce
<1>1. Init => NoneAsked /\ NoLinks /\ Known /\ RingOrder /\ Near /\ NoneAgain /\ Fresh /\ Single
  BY InitNear, InitFresh
<1>2. /\ Typed /\ Typed' /\ DeletesAsked /\ NoneAsked /\ NoLinks /\ Known /\ RingOrder /\ Near
      /\ NoneAgain /\ Fresh /\ Single /\ [Next]_vars
      => (NoneAsked /\ NoLinks /\ Known /\ RingOrder /\ Near /\ NoneAgain /\ Fresh /\ Single)'
  BY StepNoneAsked, StepNoLinks, StepNear, StepFresh, StepSingle
<1>3. NoneAgain => ForeignClipOnce
  BY DEF NoneAgain, ForeignClipOnce
<1> QED BY <1>1, <1>2, <1>3, BackfillInductive, PTL DEF Spec

-----------------------------------------------------------------------------
(* Nothing is lost while no connection breaks. *)

\* What a device sent in the limiter's window, has in its socket and has queued was
\* all composed.
Counted == \A d \in Devices : used[d] + Len(up[d]) + Len(queue[d]) <= Len(author)

Kept(m) == m \in Ids(recent) \/ \E a \in Devices : Waiting(a, m)

Unbroken ==
    faults = 0 =>
        /\ ghosts = {}
        /\ \A d \in Devices : /\ net[d] <=> ws[d] # "down"
                              /\ d \in sockets <=> ws[d] # "down"
                              /\ ws[d] = "down" => wire[d] = <<>>
        /\ \A m \in 1 .. Len(author) : Kept(m)

LEMMA Lengths ==
    ASSUME Typed
    PROVE  /\ Len(author) \in Nat /\ Len(author) <= MaxClips
           /\ \A d \in Devices : Len(up[d]) \in Nat /\ Len(queue[d]) \in Nat /\ used[d] \in Nat
<1>1. author \in Seq(Devices) /\ \A d \in Devices : up[d] \in Seq(Sent) /\ queue[d] \in Seq(Sent)
  BY DEF Typed, DeviceTypes, PathTypes, HistoryTypes
<1>2. \A d \in Devices : used[d] \in 0 .. FRAME_LIMIT
  BY DEF Typed, RelayTypes
<1>3. 0 .. FRAME_LIMIT \subseteq Nat
  BY Bounds
<1> QED BY <1>1, <1>2, <1>3, SeqIs DEF Typed, HistoryTypes

\* A step that sends nothing.
LEMMA NothingCounted ==
    ASSUME Typed, Typed', Counted, Len(author') = Len(author),
           \A d \in Devices : used'[d] <= used[d] /\ Len(up'[d]) <= Len(up[d]) /\ Len(queue'[d]) <= Len(queue[d])
    PROVE  Counted'
<1>1. /\ Len(author) \in Nat
      /\ \A d \in Devices : Len(up[d]) \in Nat /\ Len(queue[d]) \in Nat /\ used[d] \in Nat
  BY Lengths
<1>2. /\ Len(author') \in Nat
      /\ \A d \in Devices : Len(up'[d]) \in Nat /\ Len(queue'[d]) \in Nat /\ used'[d] \in Nat
  <2>1. author' \in Seq(Devices) /\ \A d \in Devices : up'[d] \in Seq(Sent) /\ queue'[d] \in Seq(Sent)
    BY DEF Typed, DeviceTypes, PathTypes, HistoryTypes
  <2>2. \A d \in Devices : used'[d] \in 0 .. FRAME_LIMIT
    BY DEF Typed, RelayTypes
  <2>3. 0 .. FRAME_LIMIT \subseteq Nat
    BY Bounds
  <2> QED BY <2>1, <2>2, <2>3, SeqIs
<1> SUFFICES ASSUME NEW d \in Devices PROVE used'[d] + Len(up'[d]) + Len(queue'[d]) <= Len(author')
  BY DEF Counted
<1>3. used[d] + Len(up[d]) + Len(queue[d]) <= Len(author)
  BY DEF Counted
<1>4. \A a, b, c, x, y, z, n \in Nat : x <= a /\ y <= b /\ z <= c /\ a + b + c <= n => x + y + z <= n
  OBVIOUS
<1> QED BY <1>1, <1>2, <1>3, <1>4

LEMMA ComposeCounted ==
    ASSUME Typed, Counted, NEW d \in Devices, Compose(d)
    PROVE  Counted'
<1>1. PICK n \in Clips : n = Len(author) + 1
  BY DEF Compose
<1>2. Len(author') = Len(author) + 1 /\ used' = used
  BY AppendIs DEF Compose, relayVars, Typed, HistoryTypes
<1>3. /\ up \in [Devices -> Seq(Sent)] /\ queue \in [Devices -> Seq(Sent)] /\ Clip(n) \in Sent
      /\ up[d] \in Seq(Sent) /\ queue[d] \in Seq(Sent)
  BY Frames DEF Typed, DeviceTypes, PathTypes
<1>4. /\ Len(author) \in Nat
      /\ \A e \in Devices : Len(up[e]) \in Nat /\ Len(queue[e]) \in Nat /\ used[e] \in Nat
  BY Lengths
<1>5. CASE SendFrame(d, Clip(n)) /\ UNCHANGED <<queue, pending>>
  <2>1. Len(Append(up[d], Clip(n))) = Len(up[d]) + 1
    BY <1>3, AppendIs
  <2>2. \A e \in Devices : Len(up'[e]) = Len(up[e]) \/ Len(up'[e]) = Len(up[e]) + 1
    BY <1>3, <1>5, <2>1, SendIds
  <2>3. ASSUME NEW e \in Devices PROVE used'[e] + Len(up'[e]) + Len(queue'[e]) <= Len(author')
    <3>1. used[e] + Len(up[e]) + Len(queue[e]) <= Len(author)
      BY DEF Counted
    <3>2. \A a, b, c, l \in Nat : a + b + c <= l => a + b + c <= l + 1 /\ a + (b + 1) + c <= l + 1
      OBVIOUS
    <3> QED BY <1>2, <1>4, <1>5, <2>2, <3>1, <3>2
  <2> QED BY <2>3 DEF Counted
<1>6. CASE Enqueue(d, Clip(n)) /\ UNCHANGED <<up, chan>>
  <2>1. PICK q : q = Append(queue[d], Clip(n))
    OBVIOUS
  <2>2. q \in Seq(Sent) /\ Len(q) = Len(queue[d]) + 1
    BY <1>3, <2>1, AppendIs
  <2>3. Len(KeepLast(q, MAX_QUEUE)) <= Len(q) /\ KeepLast(q, MAX_QUEUE) \in Seq(Sent)
    BY <2>2, KeepIs, Bounds
  <2>4. Len(KeepLast(q, MAX_QUEUE)) \in Nat
    BY <2>3, SeqIs
  <2>5. \A e \in Devices : queue'[e] = IF e = d THEN KeepLast(q, MAX_QUEUE) ELSE queue[e]
    BY <1>3, <1>6, <2>1 DEF Enqueue
  <2>6. ASSUME NEW e \in Devices PROVE used'[e] + Len(up'[e]) + Len(queue'[e]) <= Len(author')
    <3>1. used[e] + Len(up[e]) + Len(queue[e]) <= Len(author)
      BY DEF Counted
    <3>2. CASE e = d
      BY <1>2, <1>4, <1>6, <2>2, <2>3, <2>4, <2>5, <3>1, <3>2
    <3>3. CASE e # d
      BY <1>2, <1>4, <1>6, <2>5, <3>1, <3>3
    <3> QED BY <3>2, <3>3
  <2> QED BY <2>6 DEF Counted
<1> QED BY <1>1, <1>5, <1>6 DEF Compose

LEMMA HelloCounted ==
    ASSUME Typed, Counted, NEW d \in Devices, OnHello(d)
    PROVE  Counted'
<1>1. FlushQueue(d) /\ author' = author /\ used' = used
  BY DEF OnHello, relayVars
<1>2. up[d] \in Seq(Sent) /\ queue[d] \in Seq(Sent)
  BY DEF Typed, DeviceTypes, PathTypes
<1>3. /\ Len(author) \in Nat
      /\ \A e \in Devices : Len(up[e]) \in Nat /\ Len(queue[e]) \in Nat /\ used[e] \in Nat
  BY Lengths
<1>4. Len(up[d] \o queue[d]) = Len(up[d]) + Len(queue[d]) /\ Len(<<>>) = 0
  BY <1>2, ConcatIs, NoneIs
<1>5. ASSUME NEW e \in Devices PROVE used'[e] + Len(up'[e]) + Len(queue'[e]) <= Len(author')
  <2>1. used[e] + Len(up[e]) + Len(queue[e]) <= Len(author)
    BY DEF Counted
  <2>2. CASE e = d
    <3>1. Len(queue'[e]) = 0 /\ (Len(up'[e]) = Len(up[e]) \/ Len(up'[e]) = Len(up[e]) + Len(queue[e]))
      BY <1>1, <1>4, <2>2, FlushIds
    <3>2. \A a, b, c, n \in Nat : a + b + c <= n => a + b + 0 <= n /\ a + (b + c) + 0 <= n
      OBVIOUS
    <3> QED BY <1>1, <1>3, <2>1, <3>1, <3>2
  <2>3. CASE e # d
    <3>1. up'[e] = up[e] /\ queue'[e] = queue[e]
      BY <1>1, <2>3, FlushIds
    <3> QED BY <1>1, <2>1, <3>1
  <2> QED BY <2>2, <2>3
<1> QED BY <1>5 DEF Counted

LEMMA MessageCounted ==
    ASSUME Typed, Counted, NEW d \in Devices, OnMessage(d)
    PROVE  Counted'
<1>1. author' = author /\ queue' = queue /\ up[d] # <<>>
  BY DEF OnMessage, deviceVars
<1>2. /\ up \in [Devices -> Seq(Sent)] /\ used \in [Devices -> 0 .. FRAME_LIMIT]
      /\ up[d] \in Seq(Sent)
  BY DEF Typed, PathTypes, RelayTypes
<1>3. /\ Len(author) \in Nat
      /\ \A e \in Devices : Len(up[e]) \in Nat /\ Len(queue[e]) \in Nat /\ used[e] \in Nat
  BY Lengths
<1>4. Len(Tail(up[d])) = Len(up[d]) - 1 /\ Len(<<>>) = 0
  BY <1>1, <1>2, TailIs, NoneIs
<1>5. \/ used' = [used EXCEPT ![d] = @ + 1] /\ up' = [up EXCEPT ![d] = Tail(@)]
      \/ used' = used /\ up' = [up EXCEPT ![d] = <<>>]
  BY DEF OnMessage
<1>6. \/ used'[d] = used[d] + 1 /\ up'[d] = Tail(up[d])
      \/ used'[d] = used[d] /\ up'[d] = <<>>
  BY <1>2, <1>5
<1>7. \A e \in Devices : e # d => used'[e] = used[e] /\ up'[e] = up[e]
  BY <1>2, <1>5
<1>8. ASSUME NEW e \in Devices PROVE used'[e] + Len(up'[e]) + Len(queue'[e]) <= Len(author')
  <2>1. used[e] + Len(up[e]) + Len(queue[e]) <= Len(author)
    BY DEF Counted
  <2>2. CASE e = d
    <3>1. \A a, b, c, n \in Nat : a + b + c <= n => (a + 1) + (b - 1) + c <= n /\ a + 0 + c <= n
      OBVIOUS
    <3> QED BY <1>1, <1>3, <1>4, <1>6, <2>1, <2>2, <3>1
  <2>3. CASE e # d
    BY <1>1, <1>7, <2>1, <2>3
  <2> QED BY <2>2, <2>3
<1> QED BY <1>8 DEF Counted

LEMMA StepCounted ==
    ASSUME Typed, Typed', Counted, DeletesAsked, NoneAsked, [Next]_vars
    PROVE  Counted'
<1>1. /\ Len(author) \in Nat /\ Len(<<>>) = 0
      /\ \A d \in Devices : Len(up[d]) \in Nat /\ Len(queue[d]) \in Nat /\ used[d] \in Nat
  BY Lengths, NoneIs
<1>2. /\ used \in [Devices -> 0 .. FRAME_LIMIT]
      /\ up \in [Devices -> Seq(Sent)] /\ queue \in [Devices -> Seq(Sent)]
  BY DEF Typed, DeviceTypes, PathTypes, RelayTypes
<1>3. ASSUME UNCHANGED <<author, used, up, queue>> PROVE Counted'
  BY <1>3 DEF Counted
<1>4. ASSUME NEW d \in Devices, ClientStep(d) PROVE Counted'
  <2>1. ASSUME NEW m \in Clips, OnDelete(d, m) \/ ClipDecrypted(d, m) PROVE Counted'
    BY <1>3, <2>1 DEF OnDelete, ClipDecrypted, pathVars, relayVars
  <2>2. ASSUME NEW m \in Clips, DeleteStored(d, m) PROVE FALSE
    BY <2>2 DEF DeleteStored, DeletesAsked, Mine, NoneAsked
  <2>3. ASSUME NEW via \in Paths, FrameStep(d, via) PROVE Counted'
    BY <1>3, <2>3 DEF FrameStep, OnClip, OnDeleteFrame, relayVars
  <2> QED BY <1>4, <2>1, <2>2, <2>3, ComposeCounted, HelloCounted DEF ClientStep
<1>5. ASSUME NEW d \in Devices, RelayStep(d) PROVE Counted'
  <2>1. CASE WindowSlides(d)
    <3>1. UNCHANGED <<author, up, queue>> /\ \E k \in 0 .. used[d] - 1 : used' = [used EXCEPT ![d] = k]
      BY <2>1 DEF WindowSlides, deviceVars, pathVars
    <3>2. \A e \in Devices : used'[e] <= used[e]
      BY <1>1, <1>2, <3>1
    <3> QED BY <1>1, <3>1, <3>2, NothingCounted
  <2>2. CASE RelayCloses(d)
    BY <1>3, <2>2 DEF RelayCloses, deviceVars, pathVars
  <2> QED BY <1>5, <2>1, <2>2, MessageCounted DEF RelayStep
<1>6. ASSUME NEW d \in Devices, ConnectionStep(d) PROVE Counted'
  <2>1. author' = author
    BY <1>6 DEF ConnectionStep, Connect, NetFails, ClientCloses, Reload, CloseLink, OpenLink
  <2>2. used' = used \/ used' = [used EXCEPT ![d] = 0]
    BY <1>6 DEF ConnectionStep, Connect, NetFails, ClientCloses, Reload, CloseLink, OpenLink, relayVars
  <2>3. up' = up \/ up' = [up EXCEPT ![d] = <<>>]
    BY <1>6 DEF ConnectionStep, Connect, NetFails, ClientCloses, Reload, CloseLink, OpenLink, pathVars
  <2>4. queue' = queue \/ queue' = [queue EXCEPT ![d] = <<>>]
    BY <1>6 DEF ConnectionStep, Connect, NetFails, ClientCloses, Reload, CloseLink, OpenLink, deviceVars
  <2>5. \A e \in Devices : /\ used'[e] = used[e] \/ used'[e] = 0
                           /\ up'[e] = up[e] \/ up'[e] = <<>>
                           /\ queue'[e] = queue[e] \/ queue'[e] = <<>>
    BY <1>2, <2>2, <2>3, <2>4
  <2>6. \A e \in Devices : used'[e] <= used[e] /\ Len(up'[e]) <= Len(up[e]) /\ Len(queue'[e]) <= Len(queue[e])
    BY <1>1, <2>5
  <2> QED BY <2>1, <2>6, NothingCounted
<1>7. CASE RelayRestarts
  <2>1. UNCHANGED <<author, queue, used>> /\ up' = [d \in Devices |-> <<>>]
    BY <1>7 DEF RelayRestarts, deviceVars
  <2>2. \A e \in Devices : used'[e] <= used[e] /\ Len(up'[e]) <= Len(up[e]) /\ Len(queue'[e]) <= Len(queue[e])
    BY <1>1, <2>1
  <2> QED BY <2>1, <2>2, NothingCounted
<1>8. CASE UNCHANGED vars
  BY <1>3, <1>8 DEF vars, deviceVars, pathVars, relayVars
<1> QED BY <1>4, <1>5, <1>6, <1>7, <1>8 DEF Next

\* A ring with a place for every clip loses none.
LEMMA RingKeeps ==
    ASSUME Typed, Single, BACKFILL, RECENT_CAP >= MaxClips, NEW n \in Clips, n \notin Ids(recent),
           PushRecent(n)
    PROVE  Ids(recent') = Ids(recent) \cup {n}
<1>1. PICK q : q = Append(recent, n)
  OBVIOUS
<1>2. recent \in Seq(Clips) /\ Distinct(recent)
  BY DEF Typed, RelayTypes, Single
<1>3. q \in Seq(Clips) /\ Distinct(q) /\ Ids(q) = Ids(recent) \cup {n}
  BY <1>1, <1>2, AppendIs, AppendOnce
<1>4. Cardinality(Ids(q)) = Len(q) /\ Len(q) \in Nat
  BY <1>3, CountIds, SeqIs
<1>5. Cardinality(Ids(q)) <= MaxClips
  <2>1. IsFiniteSet(1 .. MaxClips) /\ Cardinality(1 .. MaxClips) = MaxClips
    <3>1. /\ IsFiniteSet(1 .. MaxClips)
          /\ Cardinality(1 .. MaxClips) = IF 1 > MaxClips THEN 0 ELSE MaxClips - 1 + 1
      BY Bounds, FS_Interval
    <3> QED BY Bounds, <3>1
  <2>2. Ids(q) \in SUBSET (1 .. MaxClips)
    <3>1. DOMAIN q = 1 .. Len(q) /\ \A i \in 1 .. Len(q) : q[i] \in Clips
      BY <1>3, SeqIs
    <3>2. \A i \in DOMAIN q : q[i] \in 1 .. MaxClips
      BY <3>1 DEF Clips
    <3> QED BY <3>2 DEF Ids
  <2>3. Cardinality(Ids(q)) <= Cardinality(1 .. MaxClips)
    BY <2>1, <2>2, FS_Subset
  <2> QED BY <2>1, <2>3
<1>6. ~(Len(q) > RECENT_CAP)
  BY <1>4, <1>5, Bounds
<1>7. KeepLast(q, RECENT_CAP) = q
  BY <1>6 DEF KeepLast
<1> QED BY <1>1, <1>3, <1>7 DEF PushRecent

LEMMA ComposeUnbroken ==
    ASSUME Typed, Counted, Unbroken, NoLinks, MAX_QUEUE >= MaxClips, NEW d \in Devices, Compose(d)
    PROVE  Unbroken'
<1> SUFFICES ASSUME faults' = 0
             PROVE  /\ ghosts' = {}
                    /\ \A e \in Devices : /\ net'[e] <=> ws'[e] # "down"
                                          /\ e \in sockets' <=> ws'[e] # "down"
                                          /\ ws'[e] = "down" => wire'[e] = <<>>
                    /\ \A m \in 1 .. Len(author') : Kept(m)'
  BY DEF Unbroken
<1>1. PICK n \in Clips : n = Len(author) + 1
  BY DEF Compose
<1>2. UNCHANGED <<faults, ghosts, net, ws, sockets, wire, recent>> /\ Len(author') = Len(author) + 1
  BY AppendIs DEF Compose, relayVars, Typed, HistoryTypes
<1>3. /\ up \in [Devices -> Seq(Sent)] /\ queue \in [Devices -> Seq(Sent)] /\ Clip(n) \in Sent
      /\ up[d] \in Seq(Sent) /\ queue[d] \in Seq(Sent)
  BY Frames DEF Typed, DeviceTypes, PathTypes
<1>4. /\ \A e \in Devices : Ids(up[e]) \subseteq Ids(up'[e]) /\ Ids(queue[e]) \subseteq Ids(queue'[e])
      /\ Clip(n) \in Ids(up'[d]) \cup Ids(queue'[d])
  <2>1. CASE CanSend(d)
    <3>1. ~Linked(d) /\ net[d]
      BY <1>2, <2>1 DEF Unbroken, NoLinks, Linked, CanSend
    <3>2. up' = [up EXCEPT ![d] = Append(@, Clip(n))] /\ queue' = queue
      BY <1>1, <2>1, <3>1 DEF Compose, SendFrame
    <3>3. Ids(Append(up[d], Clip(n))) = Ids(up[d]) \cup {Clip(n)}
      BY <1>3, AppendIs
    <3> QED BY <1>3, <3>2, <3>3
  <2>2. CASE ~CanSend(d)
    <3>1. PICK q : q = Append(queue[d], Clip(n))
      OBVIOUS
    <3>2. queue' = [queue EXCEPT ![d] = KeepLast(q, MAX_QUEUE)] /\ up' = up
      BY <1>1, <2>2, <3>1 DEF Compose, Enqueue
    <3>3. Len(q) = Len(queue[d]) + 1 /\ Ids(q) = Ids(queue[d]) \cup {Clip(n)}
      BY <1>3, <3>1, AppendIs
    <3>4. ~(Len(q) > MAX_QUEUE)
      <4>1. used[d] + Len(up[d]) + Len(queue[d]) <= Len(author)
        BY DEF Counted
      <4>2. Len(author) \in Nat /\ Len(up[d]) \in Nat /\ Len(queue[d]) \in Nat /\ used[d] \in Nat
        BY Lengths
      <4>3. Len(author) + 1 <= MaxClips
        BY <1>1, Bounds DEF Clips
      <4> QED BY <3>3, <4>1, <4>2, <4>3, Bounds
    <3>5. KeepLast(q, MAX_QUEUE) = q
      BY <3>4 DEF KeepLast
    <3> QED BY <1>3, <3>2, <3>3, <3>5
  <2> QED BY <2>1, <2>2
<1>5. ASSUME NEW m \in 1 .. Len(author') PROVE Kept(m)'
  <2>1. CASE m = n
    BY <1>4, <2>1 DEF Kept, Waiting
  <2>2. CASE m # n
    <3>1. m \in 1 .. Len(author)
      BY <1>1, <1>2, <2>2, Lengths
    <3>2. Kept(m)
      BY <1>2, <3>1 DEF Unbroken
    <3> QED BY <1>2, <1>4, <3>2 DEF Kept, Waiting
  <2> QED BY <2>1, <2>2
<1> QED BY <1>2, <1>5 DEF Unbroken

\* Steps of a device that send nothing.
LEMMA QuietUnbroken ==
    ASSUME Typed, Unbroken, UNCHANGED <<author, faults, ghosts, sockets, net, ws, up, queue, recent>>,
           \A e \in Devices : wire[e] = <<>> => wire'[e] = <<>>
    PROVE  Unbroken'
<1>1. \A m : Kept(m) => Kept(m)'
  BY DEF Kept, Waiting
<1> QED BY <1>1 DEF Unbroken

LEMMA HelloUnbroken ==
    ASSUME Typed, Unbroken, NEW d \in Devices, OnHello(d)
    PROVE  Unbroken'
<1> SUFFICES ASSUME faults' = 0
             PROVE  /\ ghosts' = {}
                    /\ \A e \in Devices : /\ net'[e] <=> ws'[e] # "down"
                                          /\ e \in sockets' <=> ws'[e] # "down"
                                          /\ ws'[e] = "down" => wire'[e] = <<>>
                    /\ \A m \in 1 .. Len(author') : Kept(m)'
  BY DEF Unbroken
<1>1. /\ UNCHANGED <<author, faults, ghosts, sockets, net, recent>> /\ FlushQueue(d)
      /\ ws' = [ws EXCEPT ![d] = "greeted"]
      /\ wire[d] # <<>> /\ wire' = [wire EXCEPT ![d] = Tail(@)]
  BY DEF OnHello, Arrives, Consume, relayVars
<1>2. /\ up \in [Devices -> Seq(Sent)] /\ queue \in [Devices -> Seq(Sent)]
      /\ up[d] \in Seq(Sent) /\ queue[d] \in Seq(Sent)
      /\ ws \in [Devices -> {"down", "open", "greeted"}] /\ wire \in [Devices -> Seq(Sent \cup {Hello})]
  BY DEF Typed, DeviceTypes, PathTypes
<1>3. ws[d] # "down" /\ net[d]
  BY <1>1 DEF Unbroken
<1>4. Ids(up[d] \o queue[d]) = Ids(up[d]) \cup Ids(queue[d])
  BY <1>2, ConcatIs
<1>5. /\ up' = [up EXCEPT ![d] = @ \o queue[d]] /\ queue' = [queue EXCEPT ![d] = <<>>]
  BY <1>1, <1>3 DEF FlushQueue
<1>6. \A e \in Devices : \A m : Waiting(e, m) => Waiting(e, m)'
  BY <1>2, <1>4, <1>5 DEF Waiting
<1>7. \A m : Kept(m) => Kept(m)'
  BY <1>1, <1>6 DEF Kept
<1>8. \A e \in Devices : /\ ws'[e] = "down" <=> ws[e] = "down"
                         /\ e # d => wire'[e] = wire[e]
  BY <1>1, <1>2, <1>3
<1> QED BY <1>1, <1>3, <1>7, <1>8 DEF Unbroken

LEMMA MessageUnbroken ==
    ASSUME Typed, Fresh, Single, Counted, Unbroken, DeletesAsked, NoneAsked, BACKFILL,
           RECENT_CAP >= MaxClips, FRAME_LIMIT >= MaxClips, NEW d \in Devices, OnMessage(d)
    PROVE  Unbroken'
<1> SUFFICES ASSUME faults' = 0
             PROVE  /\ ghosts' = {}
                    /\ \A e \in Devices : /\ net'[e] <=> ws'[e] # "down"
                                          /\ e \in sockets' <=> ws'[e] # "down"
                                          /\ ws'[e] = "down" => wire'[e] = <<>>
                    /\ \A m \in 1 .. Len(author') : Kept(m)'
  BY DEF Unbroken
<1>1. /\ up[d] # <<>> /\ up \in [Devices -> Seq(Sent)] /\ up[d] \in Seq(Sent)
      /\ UNCHANGED <<author, faults, ghosts, sockets, ws, queue>>
  BY DEF OnMessage, deviceVars, Typed, PathTypes
<1>2. used[d] < FRAME_LIMIT
  <2>1. used[d] + Len(up[d]) + Len(queue[d]) <= Len(author)
    BY DEF Counted
  <2>2. /\ Len(author) \in Nat /\ Len(up[d]) \in Nat /\ Len(queue[d]) \in Nat /\ used[d] \in Nat
        /\ Len(author) <= MaxClips
    BY Lengths
  <2>3. Len(up[d]) >= 1
    BY <1>1, TailIs
  <2> QED BY <2>1, <2>2, <2>3, Bounds
<1>3. PICK n \in Clips : n = Head(up[d]).m
  BY <1>1, UpIds
<1>4. Head(up[d]) = Clip(n) /\ Clip(n) \in Ids(up[d]) /\ Ids(up[d]) = {Clip(n)} \cup Ids(Tail(up[d]))
  <2>1. Delete(n) \notin Ids(up[d])
    BY DEF DeletesAsked, Mine, NoneAsked
  <2> QED BY <1>1, <1>3, <2>1, UpIds
<1>5. /\ Broadcast(d, Clip(n)) /\ PushRecent(n) /\ up' = [up EXCEPT ![d] = Tail(@)] /\ net' = net
  BY <1>2, <1>4, Frames DEF OnMessage
<1>6. n \notin Ids(recent)
  BY <1>4 DEF Fresh, Waiting, Unheard
<1>7. Ids(recent') = Ids(recent) \cup {n}
  BY <1>5, <1>6, RingKeeps
<1>8. ASSUME NEW m \in 1 .. Len(author') PROVE Kept(m)'
  <2>1. Kept(m)
    BY <1>1, <1>8 DEF Unbroken
  <2>2. \A e \in Devices : Waiting(e, m) => Waiting(e, m)' \/ m = n
    <3>1. Clip(m) = Clip(n) => m = n
      BY DEF Clip
    <3>2. \A e \in Devices : Clip(m) \in Ids(up[e]) => Clip(m) \in Ids(up'[e]) \/ m = n
      BY <1>1, <1>4, <1>5, <3>1
    <3> QED BY <1>1, <3>2 DEF Waiting
  <2> QED BY <1>7, <2>1, <2>2 DEF Kept
<1>9. \A e \in Devices : wire'[e] = wire[e] \/ net[e]
  <2>1. Clip(n) \in Sent
    BY Frames
  <2> QED BY <1>5, <2>1, BroadcastIds
<1> QED BY <1>1, <1>5, <1>8, <1>9 DEF Unbroken

LEMMA ConnectUnbroken ==
    ASSUME Typed, Unbroken, NEW d \in Devices, Connect(d)
    PROVE  Unbroken'
<1>1. /\ UNCHANGED <<author, faults, queue, up, recent>> /\ ws[d] = "down"
      /\ ws' = [ws EXCEPT ![d] = "open"] /\ net' = [net EXCEPT ![d] = TRUE]
      /\ wire' = [wire EXCEPT ![d] = Greeting] /\ sockets' = sockets \cup {d}
      /\ ghosts' = IF d \in sockets THEN ghosts \cup {d} ELSE ghosts
  BY DEF Connect
<1>2. /\ ws \in [Devices -> {"down", "open", "greeted"}] /\ net \in [Devices -> BOOLEAN]
      /\ wire \in [Devices -> Seq(Sent \cup {Hello})]
  BY DEF Typed, DeviceTypes, PathTypes
<1>3. \A m : Kept(m) => Kept(m)'
  BY <1>1 DEF Kept, Waiting
<1>4. /\ ws'[d] = "open" /\ net'[d] /\ d \in sockets'
      /\ \A e \in Devices : e # d => /\ ws'[e] = ws[e] /\ net'[e] = net[e] /\ wire'[e] = wire[e]
                                     /\ e \in sockets' <=> e \in sockets
  BY <1>1, <1>2
<1>5. faults = 0 => ghosts' = {}
  BY <1>1 DEF Unbroken
<1> QED BY <1>1, <1>3, <1>4, <1>5 DEF Unbroken

LEMMA StepUnbroken ==
    ASSUME BACKFILL, ~P2P, RECENT_CAP >= MaxClips, MAX_QUEUE >= MaxClips, FRAME_LIMIT >= MaxClips,
           Typed, DeletesAsked, NoneAsked, NoLinks, Fresh, Single, Counted, Unbroken, [Next]_vars
    PROVE  Unbroken'
<1>0. /\ faults \in Nat /\ \A k : Fault(k) => faults' # 0
      /\ \A d \in Devices : ~Linked(d)
  <2>1. faults \in Nat
    BY Bounds DEF Typed, HistoryTypes
  <2> QED BY <2>1 DEF Fault, NoLinks, Linked
<1>1. ASSUME NEW d \in Devices, ClientStep(d) PROVE Unbroken'
  <2>1. ASSUME NEW m \in Clips, OnDelete(d, m) \/ ClipDecrypted(d, m) PROVE Unbroken'
    BY <2>1, QuietUnbroken DEF OnDelete, ClipDecrypted, pathVars, relayVars
  <2>2. ASSUME NEW m \in Clips, DeleteStored(d, m) PROVE FALSE
    BY <2>2 DEF DeleteStored, DeletesAsked, Mine, NoneAsked
  <2>3. ASSUME NEW via \in Paths, FrameStep(d, via) PROVE Unbroken'
    <3>1. PICK t : Arrives(d, via, t) /\ Consume(d, via)
      BY <2>3 DEF FrameStep, OnClip, OnDeleteFrame
    <3>2. \A e \in Devices : wire[e] = <<>> => wire'[e] = <<>>
      BY <3>1, ConsumeOne
    <3>3. UNCHANGED <<author, faults, ghosts, sockets, net, ws, up, queue, recent>>
      BY <2>3 DEF FrameStep, OnClip, OnDeleteFrame, relayVars
    <3> QED BY <3>2, <3>3, QuietUnbroken
  <2> QED BY <1>1, <2>1, <2>2, <2>3, ComposeUnbroken, HelloUnbroken DEF ClientStep
<1>2. ASSUME NEW d \in Devices, RelayStep(d) PROVE Unbroken'
  <2>1. CASE WindowSlides(d)
    BY <2>1, QuietUnbroken DEF WindowSlides, deviceVars, pathVars
  <2>2. CASE RelayCloses(d)
    <3>1. faults' = faults /\ (d \in ghosts \/ (d \in sockets /\ ~net[d]))
      BY <2>2 DEF RelayCloses
    <3> QED BY <3>1 DEF Unbroken
  <2> QED BY <1>2, <2>1, <2>2, MessageUnbroken DEF RelayStep
<1>3. ASSUME NEW d \in Devices, ConnectionStep(d) PROVE Unbroken'
  <2>1. CASE NetFails(d) \/ Reload(d) \/ CloseLink(d)
    BY <1>0, <2>1 DEF NetFails, Reload, CloseLink, Unbroken
  <2>2. CASE ClientCloses(d)
    <3>1. faults' = faults /\ ws[d] # "down" /\ ~net[d]
      BY <2>2 DEF ClientCloses
    <3> QED BY <3>1 DEF Unbroken
  <2>3. ASSUME NEW e \in Devices, OpenLink(d, e) PROVE FALSE
    BY <2>3 DEF OpenLink
  <2> QED BY <1>3, <2>1, <2>2, <2>3, ConnectUnbroken DEF ConnectionStep
<1>4. CASE RelayRestarts
  BY <1>0, <1>4 DEF RelayRestarts, Unbroken
<1>5. CASE UNCHANGED vars
  BY <1>5, QuietUnbroken DEF vars, deviceVars, pathVars, relayVars
<1> QED BY <1>1, <1>2, <1>3, <1>4, <1>5 DEF Next

LEMMA InitUnbroken == Init => Counted /\ Unbroken
<1> SUFFICES ASSUME Init PROVE Counted /\ Unbroken
  OBVIOUS
<1>1. Len(author) = 0 /\ \A d \in Devices : used[d] = 0 /\ Len(up[d]) = 0 /\ Len(queue[d]) = 0
  BY NoneIs DEF Init
<1>2. Counted
  BY <1>1 DEF Counted
<1>3. Unbroken
  <2>1. 1 .. Len(author) = {}
    BY <1>1
  <2> QED BY <2>1 DEF Init, Unbroken
<1> QED BY <1>2, <1>3

\* Where nobody deletes, nothing takes a data channel and no capacity is below the
\* number of clips, everybody has every clip once all is quiet, whoever was offline
\* when it was sent or had not joined yet, as long as no connection ever broke
\* (client.ts send and flushQueue; ws-handlers.ts onMessage and greeting; rooms.ts
\* pushRecent).
THEOREM EverybodyHasAll ==
    ASSUME BACKFILL, ~P2P, MaxDeletes = 0, RECENT_CAP >= MaxClips, MAX_QUEUE >= MaxClips,
           FRAME_LIMIT >= MaxClips
    PROVE  Spec => []AllHaveAll
<1>1. Init => NoneAsked /\ NoLinks /\ Fresh /\ Single /\ Greeted /\ Counted /\ Unbroken
  BY InitNear, InitFresh, InitInOrder, InitUnbroken
<1>2. /\ Typed /\ Typed' /\ DeletesAsked /\ NoneAsked /\ NoLinks /\ Fresh /\ Single /\ Greeted
      /\ Counted /\ Unbroken /\ [Next]_vars
      => (NoneAsked /\ NoLinks /\ Fresh /\ Single /\ Greeted /\ Counted /\ Unbroken)'
  BY StepNoneAsked, StepNoLinks, StepFresh, StepSingle, StepGreeted, StepCounted, StepUnbroken
<1>3. Greeted /\ Unbroken /\ RingShown => AllHaveAll
  <2> SUFFICES ASSUME Greeted, Unbroken, RingShown, faults = 0,
                      \A d \in Devices : Settled(d) /\ up[d] = <<>> /\ chan[d] = <<>>,
                      NEW m \in 1 .. Len(author), ~\E e \in Devices : <<e, m>> \in asked,
                      NEW d \in Devices
               PROVE  m \in items[d]
    BY DEF AllHaveAll
  <2>1. \A a \in Devices : Ids(queue[a]) = {} /\ Ids(up[a]) = {}
    BY NoneIs DEF Settled, Greeted
  <2>2. m \in Ids(recent)
    BY <2>1 DEF Unbroken, Kept, Waiting
  <2> QED BY <2>2 DEF RingShown
<1> QED BY <1>1, <1>2, <1>3, BackfillInductive, RingIsShown, PTL DEF Spec
=============================================================================
