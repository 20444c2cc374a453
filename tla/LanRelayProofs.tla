--------------------------- MODULE LanRelayProofs ---------------------------
(***************************************************************************)
(* Proofs about LanRelay, for any devices, delays, limits and events.      *)
(*                                                                         *)
(* That nobody is missing once everything is handled follows from where an *)
(* announcement is on its way: Says(e), e will announce itself or has a    *)
(* frame before it that will make it; a frame from e to d; an announcement *)
(* being decrypted.  Two facts are invariant of two devices with sockets   *)
(* that work.  A frame that unsettles the roster of d, the hello that      *)
(* starts it or a departure, is followed by an announcement of e           *)
(* (Followed).  And d lists e, does not mean to prune it, and will have    *)
(* its next heartbeat before the entry expires, or an announcement is on   *)
(* its way (Listed).                                                       *)
(***************************************************************************)
EXTENDS LanRelay, SequenceTheorems, FiniteSetTheorems, WellFoundedInduction, TLAPS

\* The sockets, as the device, the network and the relay see them.
Ties ==
    \A d \in Devices :
        /\ net[d] => ws[d] /\ d \in sockets
        /\ ~net[d] => wire[d] = <<>>
        /\ ~ws[d] => heartbeat[d] = Off

\* Nobody hears of itself.
FrameFor(d) == {f \in Frame : f.type = "presence" => f.of # d}

Wiring == wire \in [Devices -> Seq(Frame)] /\ \A d \in Devices : wire[d] \in Seq(FrameFor(d))

NotOneself == \A d \in Devices : decrypting[d][d] = 0

Seats ==
    /\ sockets \in SUBSET Devices /\ ghosts \in SUBSET Devices
    /\ IsFiniteSet(sockets) /\ IsFiniteSet(ghosts)
    /\ Cardinality(sockets) + Cardinality(ghosts) <= maxPeers

\* The hits of a socket: the oldest first, not too many, in the window.
Hits(h) ==
    /\ h \in Seq(0 .. frameWindowMs)
    /\ Len(h) <= frameLimit
    /\ \A i, j \in DOMAIN h : i <= j => h[j] <= h[i]

HitsOK ==
    /\ typeHits \in [Devices -> Seq(0 .. frameWindowMs)]
    /\ \A d \in Devices : Hits(typeHits[d])

Switches ==
    /\ ws \in [Devices -> BOOLEAN] /\ net \in [Devices -> BOOLEAN] /\ ended \in [Devices -> BOOLEAN]

Counts == events \in 0 .. MaxEvents /\ lossy \in BOOLEAN

RelayInv ==
    PresenceTypeOK /\ Switches /\ Wiring /\ NotOneself /\ Seats /\ HitsOK /\ Counts /\ Ties

\* e will announce itself: it is about to, or will handle a frame that makes it.
Says(e) ==
    \/ announcing[e] > 0
    \/ \E k \in DOMAIN wire[e] :
        \/ wire[e][k].type \in {"peer-joined", "peer-left"}
        \/ wire[e][k].type = "hello" /\ heartbeat[e] = Off

Announcement(e) == [type |-> "presence", of |-> e]

Coming(d, e) ==
    \/ Says(e) \/ decrypting[d][e] > 0
    \/ \E k \in DOMAIN wire[d] : wire[d][k] = Announcement(e)

Unsettling(f) == f.type \in {"hello", "peer-left"}

Followed(d, e) ==
    \A k \in DOMAIN wire[d] : Unsettling(wire[d][k]) =>
        Says(e) \/ \E j \in DOMAIN wire[d] : j > k /\ wire[d][j] = Announcement(e)

Sound(d, e) == e \in Roster(d) /\ e \notin stale[d] /\ age[d][e] + heartbeat[e] <= heartbeatMs

Listed(d, e) == heartbeat[d] # Off /\ heartbeat[e] # Off => Coming(d, e) \/ Sound(d, e)

RostersOK ==
    ~lossy => \A d, e \in Devices :
        d # e /\ net[d] /\ net[e] => Followed(d, e) /\ Listed(d, e)

IInv == RelayInv /\ RostersOK

-----------------------------------------------------------------------------
(* Types: presence. *)

LEMMA Delays ==
    /\ heartbeatMs \in Nat \ {0} /\ sweepMs \in Nat \ {0}
    /\ ttlMs \in Nat /\ pruneDelayMs \in Nat \ {0}
    /\ Old \in Nat /\ Off = -1
  BY PresenceAssumption DEF PresenceAssumption, Old, Off

LEMMA AnnounceTyped ==
    ASSUME announcing \in [Devices -> Nat], NEW d \in Devices, Announce(d)
    PROVE  /\ announcing' \in [Devices -> Nat]
           /\ announcing'[d] > 0
           /\ \A e \in Devices : announcing[e] > 0 => announcing'[e] > 0
  BY DEF Announce

\* An entry that is forgotten, or older.
LEMMA ForgetTyped ==
    ASSUME PresenceTypeOK, NEW d \in Devices, NEW S, Forget(d, S)
    PROVE  /\ age' \in [Devices -> [Devices -> Off .. Old]]
           /\ \A x, e \in Devices :
                age'[x][e] = IF x = d /\ e \in S THEN Off ELSE age[x][e]
<1>1. /\ age \in [Devices -> [Devices -> Off .. Old]]
      /\ age' = [age EXCEPT ![d] = [e \in Devices |-> IF e \in S THEN Off ELSE age[d][e]]]
  BY DEF PresenceTypeOK, Forget
<1> DEFINE r == [e \in Devices |-> IF e \in S THEN Off ELSE age[d][e]]
<1>2. r \in [Devices -> Off .. Old] /\ \A e \in Devices : r[e] = IF e \in S THEN Off ELSE age[d][e]
  BY <1>1, Delays
<1> HIDE DEF r
<1>3. age' = [age EXCEPT ![d] = r]
  BY <1>1 DEF r
<1>4. age' \in [Devices -> [Devices -> Off .. Old]]
  BY <1>1, <1>2, <1>3
<1>5. ASSUME NEW x \in Devices, NEW e \in Devices
      PROVE  age'[x][e] = IF x = d /\ e \in S THEN Off ELSE age[x][e]
  BY <1>1, <1>2, <1>3
<1> QED BY <1>4, <1>5

\* The values of PresenceTypeOK, and its last conjunct.
PresenceValues ==
    /\ age \in [Devices -> [Devices -> Off .. Old]]
    /\ stale \in [Devices -> SUBSET Devices]
    /\ heartbeat \in [Devices -> Off .. heartbeatMs]
    /\ sweep \in [Devices -> Off .. sweepMs]
    /\ prune \in [Devices -> Off .. pruneDelayMs]
    /\ announcing \in [Devices -> Nat]
    /\ decrypting \in [Devices -> [Devices -> Nat]]

Entries == \A d, e \in Devices : (d = e => age[d][e] = Off) /\ (e \in stale[d] => age[d][e] # Off)

LEMMA PresenceIs == PresenceTypeOK <=> PresenceValues /\ Entries
<1>1. ASSUME PresenceTypeOK PROVE PresenceValues /\ Entries
  BY <1>1 DEF PresenceTypeOK, PresenceValues, Entries, Roster
<1>2. ASSUME PresenceValues, Entries PROVE PresenceTypeOK
  BY <1>2 DEF PresenceTypeOK, PresenceValues, Entries, Roster
<1> QED BY <1>1, <1>2

LEMMA PresenceIsNext == ASSUME PresenceValues', Entries' PROVE PresenceTypeOK'
  BY DEF PresenceTypeOK, PresenceValues, Entries, Roster

LEMMA OnPeerChangeTyped ==
    ASSUME PresenceTypeOK, NEW d \in Devices, NEW left, OnPeerChange(d, left)
    PROVE  PresenceTypeOK'
<1>1. PresenceValues'
  <2>1. announcing' \in [Devices -> Nat]
    BY PresenceIs, AnnounceTyped DEF PresenceValues, OnPeerChange
  <2>2. Roster(d) \in SUBSET Devices
    BY DEF Roster
  <2>3. pruneDelayMs \in Off .. pruneDelayMs
    BY Delays
  <2> QED BY <2>1, <2>2, <2>3, PresenceIs DEF PresenceValues, OnPeerChange
<1>2. Entries'
  <2>1. PresenceValues /\ Entries /\ age' = age
    BY PresenceIs DEF OnPeerChange
  <2>2. stale' = stale \/ stale' = [stale EXCEPT ![d] = Roster(d)]
    BY DEF OnPeerChange
  <2> QED BY <2>1, <2>2 DEF PresenceValues, Entries, Roster
<1> QED BY <1>1, <1>2, PresenceIsNext

LEMMA StartTyped ==
    ASSUME PresenceTypeOK, NEW d \in Devices, Start(d) PROVE PresenceTypeOK'
<1>1. CASE UNCHANGED presenceVars
  BY <1>1, PresenceIs DEF presenceVars, PresenceTypeOK, Roster
<1>2. CASE /\ Announce(d)
           /\ heartbeat' = [heartbeat EXCEPT ![d] = heartbeatMs]
           /\ sweep' = [sweep EXCEPT ![d] = sweepMs]
           /\ UNCHANGED <<age, stale, prune, decrypting>>
  <2>1. announcing' \in [Devices -> Nat]
    BY <1>2, PresenceIs, AnnounceTyped DEF PresenceValues
  <2>2. heartbeatMs \in Off .. heartbeatMs /\ sweepMs \in Off .. sweepMs
    BY Delays
  <2> QED BY <1>2, <2>1, <2>2 DEF PresenceTypeOK, Roster
<1> QED BY <1>1, <1>2 DEF Start

LEMMA StopTyped ==
    ASSUME PresenceTypeOK, NEW d \in Devices, Stop(d) PROVE PresenceTypeOK'
<1>1. PresenceValues /\ Entries
  BY PresenceIs
<1>2. /\ age' \in [Devices -> [Devices -> Off .. Old]]
      /\ \A x, e \in Devices : age'[x][e] = IF x = d /\ e \in Devices THEN Off ELSE age[x][e]
  BY ForgetTyped DEF Stop
<1>3. PresenceValues'
  <2>1. Off \in Off .. heartbeatMs /\ Off \in Off .. sweepMs /\ Off \in Off .. pruneDelayMs
    BY Delays
  <2> QED BY <1>1, <1>2, <2>1 DEF PresenceValues, Stop
<1>4. Entries'
  <2>1. stale' = [stale EXCEPT ![d] = {}]
    BY DEF Stop
  <2> QED BY <1>1, <1>2, <2>1 DEF Entries, PresenceValues
<1> QED BY <1>3, <1>4, PresenceIsNext

LEMMA HandlePresenceTyped ==
    ASSUME PresenceTypeOK, NEW d \in Devices, NEW e \in Devices, HandlePresence(d, e)
    PROVE  /\ PresenceTypeOK'
           /\ decrypting'[d][e] > 0
           /\ \A x, y \in Devices : decrypting[x][y] > 0 => decrypting'[x][y] > 0
           /\ \A x \in Devices : x # d \/ x # e => decrypting'[x][x] = decrypting[x][x]
<1>1. decrypting \in [Devices -> [Devices -> Nat]]
  BY DEF PresenceTypeOK
<1>2. decrypting' = [decrypting EXCEPT ![d][e] = @ + 1]
  BY DEF HandlePresence
<1>3. decrypting' \in [Devices -> [Devices -> Nat]]
  BY <1>1, <1>2
<1>4. /\ decrypting'[d][e] > 0
      /\ \A x, y \in Devices : decrypting[x][y] > 0 => decrypting'[x][y] > 0
  BY <1>1, <1>2
<1>5. \A x \in Devices : x # d \/ x # e => decrypting'[x][x] = decrypting[x][x]
  BY <1>1, <1>2
<1>6. PresenceTypeOK'
  BY <1>3 DEF PresenceTypeOK, HandlePresence, Roster
<1> QED BY <1>4, <1>5, <1>6

LEMMA DecryptedTyped ==
    ASSUME PresenceTypeOK, NEW d \in Devices, NEW e \in Devices, d # e, Decrypted(d, e)
    PROVE  PresenceTypeOK'
<1>1. PresenceValues /\ Entries
  BY PresenceIs
<1>2. /\ decrypting' = [decrypting EXCEPT ![d][e] = @ - 1] /\ decrypting[d][e] > 0
      /\ age' = [age EXCEPT ![d][e] = 0]
      /\ stale' = [stale EXCEPT ![d] = @ \ {e}]
  BY DEF Decrypted
<1>3. decrypting' \in [Devices -> [Devices -> Nat]]
  BY <1>1, <1>2 DEF PresenceValues
<1>4. age' \in [Devices -> [Devices -> Off .. Old]]
  <2>1. 0 \in Off .. Old
    BY Delays
  <2> QED BY <1>1, <1>2, <2>1 DEF PresenceValues
<1>5. PresenceValues'
  BY <1>1, <1>2, <1>3, <1>4 DEF PresenceValues, Decrypted
<1>6. Entries'
  <2> SUFFICES ASSUME NEW x \in Devices, NEW y \in Devices
               PROVE  (x = y => age'[x][y] = Off) /\ (y \in stale'[x] => age'[x][y] # Off)
    BY DEF Entries
  <2>1. CASE x = d /\ y = e
    BY <1>1, <1>2, <2>1 DEF PresenceValues
  <2>2. CASE ~(x = d /\ y = e)
    <3>1. age'[x][y] = age[x][y]
      BY <1>1, <1>2, <2>2 DEF PresenceValues
    <3>2. stale'[x] \subseteq stale[x]
      BY <1>1, <1>2 DEF PresenceValues
    <3> QED BY <1>1, <3>1, <3>2 DEF Entries
  <2> QED BY <2>1, <2>2
<1> QED BY <1>5, <1>6, PresenceIsNext

LEMMA HeartbeatTyped ==
    ASSUME PresenceTypeOK, NEW d \in Devices, Heartbeat(d) PROVE PresenceTypeOK'
<1>1. announcing' \in [Devices -> Nat]
  BY PresenceIs, AnnounceTyped DEF PresenceValues, Heartbeat
<1>2. heartbeatMs \in Off .. heartbeatMs
  BY Delays
<1> QED BY <1>1, <1>2 DEF PresenceTypeOK, Heartbeat, Roster

LEMMA SweepTyped ==
    ASSUME PresenceTypeOK, NEW d \in Devices, Sweep(d) PROVE PresenceTypeOK'
<1>1. PresenceValues /\ Entries
  BY PresenceIs
<1>2. /\ age' \in [Devices -> [Devices -> Off .. Old]]
      /\ \A x, e \in Devices : age'[x][e] = IF x = d /\ e \in Expired(d) THEN Off ELSE age[x][e]
  BY ForgetTyped DEF Sweep
<1>3. stale' = [stale EXCEPT ![d] = @ \ Expired(d)]
  BY DEF Sweep
<1>4. PresenceValues'
  <2>1. sweepMs \in Off .. sweepMs
    BY Delays
  <2> QED BY <1>1, <1>2, <1>3, <2>1 DEF PresenceValues, Sweep
<1>5. Entries'
  BY <1>1, <1>2, <1>3 DEF Entries, PresenceValues
<1> QED BY <1>4, <1>5, PresenceIsNext

LEMMA PruneTyped ==
    ASSUME PresenceTypeOK, NEW d \in Devices, Prune(d) PROVE PresenceTypeOK'
<1>1. PresenceValues /\ Entries
  BY PresenceIs
<1>2. /\ age' \in [Devices -> [Devices -> Off .. Old]]
      /\ \A x, e \in Devices : age'[x][e] = IF x = d /\ e \in stale[d] THEN Off ELSE age[x][e]
  BY ForgetTyped DEF Prune
<1>3. stale' = [stale EXCEPT ![d] = {}]
  BY DEF Prune
<1>4. PresenceValues'
  <2>1. Off \in Off .. pruneDelayMs
    BY Delays
  <2> QED BY <1>1, <1>2, <1>3, <2>1 DEF PresenceValues, Prune
<1>5. Entries'
  BY <1>1, <1>2, <1>3 DEF Entries, PresenceValues
<1> QED BY <1>4, <1>5, PresenceIsNext

\* A timer of one unit less.
LEMMA CountdownTyped ==
    ASSUME NEW n \in Nat, NEW timer \in [Devices -> Off .. n]
    PROVE  Countdown(timer) \in [Devices -> Off .. n]
<1> SUFFICES ASSUME NEW d \in Devices
             PROVE  (IF timer[d] > 0 THEN timer[d] - 1 ELSE timer[d]) \in Off .. n
  BY DEF Countdown
<1>1. timer[d] \in Off .. n /\ Off = -1
  BY Delays
<1> QED BY <1>1

\* The entries one unit older.
LEMMA ElapseAges ==
    ASSUME PresenceTypeOK, Elapse
    PROVE  /\ age' \in [Devices -> [Devices -> Off .. Old]]
           /\ \A d, e \in Devices :
                /\ age[d][e] = Off <=> age'[d][e] = Off
                /\ age'[d][e] <= age[d][e] + 1
<1>1. age \in [Devices -> [Devices -> Off .. Old]]
  BY DEF PresenceTypeOK
<1> DEFINE Next1(a) == IF a \in {Off, Old} THEN a ELSE a + 1
<1>2. age' = [d \in Devices |-> [e \in Devices |-> Next1(age[d][e])]]
  BY DEF Elapse
<1>3. ASSUME NEW a \in Off .. Old
      PROVE  Next1(a) \in Off .. Old /\ (a = Off <=> Next1(a) = Off) /\ Next1(a) <= a + 1
  BY Delays
<1> HIDE DEF Next1
<1> QED BY <1>1, <1>2, <1>3

LEMMA ElapseTyped == ASSUME PresenceTypeOK, Elapse PROVE PresenceTypeOK'
<1>1. PresenceValues /\ Entries
  BY PresenceIs
<1>2. PresenceValues'
  <2>1. /\ heartbeat' \in [Devices -> Off .. heartbeatMs]
        /\ sweep' \in [Devices -> Off .. sweepMs]
        /\ prune' \in [Devices -> Off .. pruneDelayMs]
    BY <1>1, Delays, CountdownTyped DEF PresenceValues, Elapse
  <2> QED BY <1>1, <2>1, ElapseAges DEF PresenceValues, Elapse
<1>3. Entries'
  <2>1. stale' = stale
    BY DEF Elapse
  <2> QED BY <1>1, <2>1, ElapseAges DEF Entries
<1> QED BY <1>2, <1>3, PresenceIsNext

-----------------------------------------------------------------------------
(* Types: the window. *)

Less == {p \in Nat \X Nat : p[1] < p[2]}

LEMMA LessWF == IsWellFoundedOn(Less, Nat)
  BY NatLessThanWellFounded DEF OpToRel, Less

\* What is shifted out ends somewhere.
LEMMA FirstKeptIs ==
    ASSUME NEW T, NEW s \in Seq(T), NEW old \in SUBSET DOMAIN s
    PROVE  LET k == FirstKept(s, old) IN k \in 1 .. Len(s) + 1 /\ k \notin old
<1>1. Len(s) \in Nat /\ DOMAIN s = 1 .. Len(s)
  BY LenProperties
<1> DEFINE Kept == (1 .. Len(s) + 1) \ old
<1>2. Kept \subseteq Nat /\ Kept # {}
  <2>1. Len(s) + 1 \in 1 .. Len(s) + 1 /\ Len(s) + 1 \notin 1 .. Len(s)
    BY <1>1
  <2> QED BY <1>1, <2>1
<1>3. PICK k \in Kept : \A j \in Kept : ~(<<j, k>> \in Less)
  <2> HIDE DEF Kept, Less
  <2> QED BY <1>2, LessWF, WFMin
<1>4. \A j \in Kept : j >= k
  <2> SUFFICES ASSUME NEW j \in Kept, ~(j >= k) PROVE FALSE
    OBVIOUS
  <2>1. j \in Nat /\ k \in Nat /\ j < k
    BY <1>1
  <2>2. <<j, k>> \in Less
    BY <2>1 DEF Less
  <2> QED BY <1>3, <2>2
<1>5. k \in 1 .. Len(s) + 1 /\ k \notin old /\ 1 .. k - 1 \subseteq old
  BY <1>1, <1>4
<1> QED BY <1>5 DEF FirstKept

LEMMA RelayLimits ==
    /\ maxPeers \in Nat /\ frameLimit \in Nat /\ frameWindowMs \in Nat /\ MaxEvents \in Nat
  BY RelayAssumption DEF RelayAssumption

LEMMA NoHits == Hits(<<>>)
  BY EmptySeq, RelayLimits DEF Hits

LEMMA AdmitHits ==
    ASSUME NEW h, Hits(h), Len(h) < frameLimit PROVE Hits(Append(h, 0))
<1>1. /\ h \in Seq(0 .. frameWindowMs) /\ Len(h) \in Nat /\ DOMAIN h = 1 .. Len(h)
      /\ \A i \in 1 .. Len(h) : h[i] \in 0 .. frameWindowMs
  BY LenProperties DEF Hits
<1>2. PICK a : a = Append(h, 0)
  OBVIOUS
<1>3. /\ a \in Seq(0 .. frameWindowMs) /\ Len(a) = Len(h) + 1
      /\ a[Len(h) + 1] = 0 /\ \A i \in 1 .. Len(h) : a[i] = h[i]
      /\ DOMAIN a = 1 .. Len(h) + 1
  BY <1>1, <1>2, RelayLimits, AppendProperties, LenProperties
<1>4. \A i, j \in DOMAIN a : i <= j => a[j] <= a[i]
  <2> SUFFICES ASSUME NEW i \in DOMAIN a, NEW j \in DOMAIN a, i <= j PROVE a[j] <= a[i]
    OBVIOUS
  <2>1. CASE j = Len(h) + 1
    BY <1>1, <1>3, <2>1
  <2>2. CASE j # Len(h) + 1
    <3>1. i \in DOMAIN h /\ j \in DOMAIN h
      BY <1>1, <1>3, <2>2
    <3> QED BY <1>1, <1>3, <3>1 DEF Hits
  <2> QED BY <2>1, <2>2
<1>5. Len(a) <= frameLimit
  BY <1>1, <1>3, RelayLimits
<1> QED BY <1>2, <1>3, <1>4, <1>5 DEF Hits

LEMMA OlderHits ==
    ASSUME NEW h, Hits(h) PROVE Hits(Older(ShiftWhile(h, Leaving(h))))
<1>1. /\ h \in Seq(0 .. frameWindowMs) /\ Len(h) \in Nat /\ DOMAIN h = 1 .. Len(h)
      /\ \A i \in 1 .. Len(h) : h[i] \in 0 .. frameWindowMs
  BY LenProperties DEF Hits
<1>2. PICK k : k = FirstKept(h, Leaving(h))
  OBVIOUS
<1>3. k \in 1 .. Len(h) + 1 /\ k \notin Leaving(h)
  <2>1. Leaving(h) \in SUBSET DOMAIN h
    BY DEF Leaving
  <2> QED BY <1>1, <1>2, <2>1, FirstKeptIs
<1>4. \A i \in k .. Len(h) : h[i] < frameWindowMs
  BY <1>1, <1>3, RelayLimits DEF Leaving, Hits
<1>5. PICK r : r = ShiftWhile(h, Leaving(h))
  OBVIOUS
<1>6. /\ r \in Seq(0 .. frameWindowMs) /\ Len(r) = Len(h) + 1 - k
      /\ \A i \in 1 .. Len(r) : r[i] = h[k + i - 1]
  <2>1. r = SubSeq(h, k, Len(h))
    BY <1>2, <1>5 DEF ShiftWhile
  <2>2. \A i \in k .. Len(h) : h[i] \in 0 .. frameWindowMs
    BY <1>1, <1>3
  <2>3. /\ r \in Seq(0 .. frameWindowMs) /\ Len(r) = IF k <= Len(h) THEN Len(h) - k + 1 ELSE 0
        /\ \A i \in 1 .. Len(h) - k + 1 : r[i] = h[k + i - 1]
    BY <1>1, <1>3, <2>1, <2>2, SubSeqProperties
  <2>4. Len(r) = Len(h) + 1 - k
    BY <1>1, <1>3, <2>3
  <2> QED BY <1>1, <1>3, <2>3, <2>4
<1>7. Len(r) \in Nat /\ DOMAIN r = 1 .. Len(r)
  BY <1>6, LenProperties
<1>8. PICK o : o = Older(r)
  OBVIOUS
<1>9. o = [i \in 1 .. Len(r) |-> r[i] + 1]
  BY <1>7, <1>8 DEF Older
<1>10. ASSUME NEW i \in 1 .. Len(r)
       PROVE  /\ k + i - 1 \in k .. Len(h) /\ o[i] = h[k + i - 1] + 1
              /\ o[i] \in 0 .. frameWindowMs
  <2>1. k + i - 1 \in k .. Len(h)
    BY <1>1, <1>3, <1>6, <1>7
  <2>2. o[i] = h[k + i - 1] + 1
    BY <1>6, <1>9
  <2>3. h[k + i - 1] \in 0 .. frameWindowMs /\ h[k + i - 1] < frameWindowMs
    BY <1>1, <1>3, <1>4, <2>1
  <2> QED BY <2>1, <2>2, <2>3, RelayLimits
<1>11. o \in Seq(0 .. frameWindowMs) /\ Len(o) = Len(r) /\ DOMAIN o = 1 .. Len(r)
  <2>1. o \in [1 .. Len(r) -> 0 .. frameWindowMs]
    BY <1>9, <1>10
  <2>2. o \in Seq(0 .. frameWindowMs)
    BY <1>7, <2>1, SeqDef
  <2> QED BY <1>7, <2>1, <2>2, LenProperties
<1>12. ASSUME NEW i \in DOMAIN o, NEW j \in DOMAIN o, i <= j PROVE o[j] <= o[i]
  <2>1. o[i] = h[k + i - 1] + 1 /\ o[j] = h[k + j - 1] + 1
    BY <1>10, <1>11
  <2>2. k + i - 1 \in DOMAIN h /\ k + j - 1 \in DOMAIN h /\ k + i - 1 <= k + j - 1
    BY <1>1, <1>3, <1>10, <1>11, <1>12
  <2>3. h[k + j - 1] <= h[k + i - 1]
    BY <2>2 DEF Hits
  <2>4. h[k + i - 1] \in Int /\ h[k + j - 1] \in Int
    BY <1>1, <2>2
  <2> QED BY <2>1, <2>3, <2>4
<1>13. Len(o) <= frameLimit
  BY <1>1, <1>3, <1>6, <1>11, RelayLimits DEF Hits
<1> QED BY <1>5, <1>8, <1>11, <1>12, <1>13 DEF Hits

-----------------------------------------------------------------------------
(* Types: the relay and the sockets. *)

Wires == [Devices -> Seq(Frame)]

LEMMA BroadcastIs ==
    ASSUME wire \in Wires, NEW S, NEW f \in Frame
    PROVE  /\ Broadcast(S, f) \in Wires
           /\ \A e \in Devices :
                Broadcast(S, f)[e] = IF e \in S /\ net[e] THEN Append(wire[e], f) ELSE wire[e]
<1>1. ASSUME NEW e \in Devices
      PROVE  (IF e \in S /\ net[e] THEN Append(wire[e], f) ELSE wire[e]) \in Seq(Frame)
  <2>1. wire[e] \in Seq(Frame)
    BY DEF Wires
  <2>2. Append(wire[e], f) \in Seq(Frame)
    BY <2>1, AppendProperties
  <2> QED BY <2>1, <2>2
<1> QED BY <1>1 DEF Broadcast, Wires

LEMMA AppendIs ==
    ASSUME NEW w \in Seq(Frame), NEW f \in Frame
    PROVE  /\ DOMAIN Append(w, f) = 1 .. Len(w) + 1 /\ DOMAIN w = 1 .. Len(w) /\ Len(w) \in Nat
           /\ Append(w, f)[Len(w) + 1] = f
           /\ \A k \in DOMAIN w : Append(w, f)[k] = w[k]
  BY AppendProperties, LenProperties

LEMMA TailIs ==
    ASSUME NEW w \in Seq(Frame), w # <<>>
    PROVE  /\ Head(w) = w[1] /\ Head(w) \in Frame /\ 1 \in DOMAIN w
           /\ \A k \in DOMAIN Tail(w) : k + 1 \in DOMAIN w /\ Tail(w)[k] = w[k + 1]
           /\ \A k \in DOMAIN w : k # 1 => k - 1 \in DOMAIN Tail(w) /\ Tail(w)[k - 1] = w[k]
           /\ DOMAIN w \subseteq Nat
<1>1. /\ Len(w) \in Nat /\ DOMAIN w = 1 .. Len(w) /\ Len(w) # 0
      /\ Head(w) \in Frame /\ Tail(w) \in Seq(Frame) /\ Len(Tail(w)) = Len(w) - 1
      /\ \A i \in 1 .. Len(Tail(w)) : Tail(w)[i] = w[i + 1]
  BY HeadTailProperties, LenProperties
<1>2. DOMAIN Tail(w) = 1 .. Len(w) - 1
  BY <1>1, LenProperties
<1>3. Head(w) = w[1]
  OBVIOUS
<1> QED BY <1>1, <1>2, <1>3

LEMMA WiresTyped ==
    /\ Wiring => wire \in Wires
    /\ \A d \in Devices : FrameFor(d) \subseteq Frame
  BY DEF Wiring, Wires, FrameFor

\* What a broadcast leaves in order.
LEMMA BroadcastWiring ==
    ASSUME Wiring, NEW S, NEW f \in Frame, \A e \in S : e \in Devices => f \in FrameFor(e)
    PROVE  /\ Broadcast(S, f) \in Wires
           /\ \A d \in Devices : Broadcast(S, f)[d] \in Seq(FrameFor(d))
<1>1. wire \in Wires
  BY WiresTyped
<1>2. ASSUME NEW d \in Devices PROVE Broadcast(S, f)[d] \in Seq(FrameFor(d))
  <2>1. wire[d] \in Seq(FrameFor(d))
    BY DEF Wiring
  <2>2. CASE d \in S /\ net[d]
    <3>1. Broadcast(S, f)[d] = Append(wire[d], f) /\ f \in FrameFor(d)
      BY <1>1, <2>2, BroadcastIs
    <3> QED BY <2>1, <3>1, AppendProperties
  <2>3. CASE ~(d \in S /\ net[d])
    BY <1>1, <2>1, <2>3, BroadcastIs
  <2> QED BY <2>2, <2>3
<1> QED BY <1>1, <1>2, BroadcastIs

\* One queue is emptied, or filled afresh.
LEMMA ResetWiring ==
    ASSUME NEW w \in Wires, \A d \in Devices : w[d] \in Seq(FrameFor(d)),
           NEW d \in Devices, NEW q \in Seq(FrameFor(d)), wire' = [w EXCEPT ![d] = q]
    PROVE  Wiring'
<1>1. q \in Seq(Frame)
  BY WiresTyped, SeqMonotonic
<1>2. wire' \in [Devices -> Seq(Frame)]
  BY <1>1 DEF Wires
<1>3. \A e \in Devices : wire'[e] = IF e = d THEN q ELSE w[e]
  BY DEF Wires
<1>4. \A e \in Devices : wire'[e] \in Seq(FrameFor(e))
  BY <1>3
<1> QED BY <1>2, <1>4 DEF Wiring

LEMMA SeatsTaken ==
    ASSUME Seats, ~Full, NEW d \in Devices, d \in sockets => d \notin ghosts,
           sockets' = sockets \cup {d},
           ghosts' = IF d \in sockets THEN ghosts \cup {d} ELSE ghosts
    PROVE  Seats'
<1>1. /\ Cardinality(sockets) \in Nat /\ Cardinality(ghosts) \in Nat /\ maxPeers \in Nat
      /\ Cardinality(sockets) + Cardinality(ghosts) < maxPeers
  BY FS_CardinalityType, RelayLimits DEF Seats, Full
<1>2. CASE d \in sockets
  <2>1. sockets' = sockets /\ ghosts' = ghosts \cup {d} /\ d \notin ghosts
    BY <1>2
  <2>2. IsFiniteSet(ghosts)
    BY DEF Seats
  <2>3. /\ IsFiniteSet(ghosts \cup {d})
        /\ Cardinality(ghosts \cup {d}) = Cardinality(ghosts) + 1
    BY <2>1, <2>2, FS_AddElement
  <2>4. /\ sockets \in SUBSET Devices /\ IsFiniteSet(sockets)
        /\ ghosts \cup {d} \in SUBSET Devices
    BY DEF Seats
  <2>5. Cardinality(sockets) + Cardinality(ghosts \cup {d}) <= maxPeers
    BY <1>1, <2>3
  <2> QED BY <2>1, <2>3, <2>4, <2>5 DEF Seats
<1>3. CASE d \notin sockets
  <2>1. IsFiniteSet(sockets') /\ Cardinality(sockets') = Cardinality(sockets) + 1
    BY <1>3, FS_AddElement DEF Seats
  <2> QED BY <1>1, <1>3, <2>1 DEF Seats
<1> QED BY <1>2, <1>3

LEMMA SeatsLeft ==
    ASSUME Seats, NEW d,
           \/ ghosts' = ghosts \ {d} /\ sockets' = sockets
           \/ sockets' = sockets \ {d} /\ ghosts' = ghosts
    PROVE  Seats'
<1>1. /\ IsFiniteSet(sockets') /\ Cardinality(sockets') <= Cardinality(sockets)
      /\ IsFiniteSet(ghosts') /\ Cardinality(ghosts') <= Cardinality(ghosts)
  BY FS_Subset DEF Seats
<1>2. /\ Cardinality(sockets) \in Nat /\ Cardinality(ghosts) \in Nat /\ maxPeers \in Nat
      /\ Cardinality(sockets') \in Nat /\ Cardinality(ghosts') \in Nat
  BY <1>1, FS_CardinalityType, RelayLimits DEF Seats
<1> QED BY <1>1, <1>2 DEF Seats

-----------------------------------------------------------------------------
(* RelayInv, action by action. *)

LEMMA ConnectRelay ==
    ASSUME RelayInv, NEW d \in Devices, Connect(d) PROVE RelayInv'
<1> DEFINE f == [type |-> "peer-joined", of |-> d]
           h == [type |-> "hello", of |-> d]
           w == Broadcast(sockets \ {d}, f)
<1>1. /\ ~ws[d] /\ ~Full /\ (d \in sockets => d \notin ghosts)
      /\ ws' = [ws EXCEPT ![d] = TRUE] /\ net' = [net EXCEPT ![d] = TRUE]
      /\ sockets' = sockets \cup {d}
      /\ ghosts' = IF d \in sockets THEN ghosts \cup {d} ELSE ghosts
      /\ typeHits' = [typeHits EXCEPT ![d] = <<>>]
      /\ wire' = [w EXCEPT ![d] = <<h>>]
      /\ UNCHANGED <<presenceVars, ended, events, lossy>>
  BY DEF Connect, OnConnection, countVars
<1>2. PresenceTypeOK' /\ NotOneself' /\ Counts'
  BY <1>1 DEF RelayInv, presenceVars, PresenceTypeOK, Roster, NotOneself, Counts
<1>3. Switches'
  BY <1>1 DEF RelayInv, Switches
<1>4. f \in Frame /\ h \in FrameFor(d) /\ \A e \in Devices : f \in FrameFor(e)
  BY DEF Frame, FrameFor
<1>5. w \in Wires /\ \A e \in Devices : w[e] \in Seq(FrameFor(e))
  <2> HIDE DEF f
  <2> QED BY <1>4, BroadcastWiring DEF RelayInv
<1>6. <<h>> \in Seq(FrameFor(d))
  BY <1>4
<1>7. Wiring'
  <2> HIDE DEF h, w
  <2> QED BY <1>1, <1>5, <1>6, ResetWiring
<1>8. Seats'
  BY <1>1, SeatsTaken DEF RelayInv
<1>9. HitsOK'
  <2>1. <<>> \in Seq(0 .. frameWindowMs)
    BY EmptySeq
  <2> QED BY <1>1, <2>1, NoHits DEF RelayInv, HitsOK
<1>10. Ties'
  <2>1. \A e \in Devices : e # d => wire'[e] = w[e]
    BY <1>1, <1>5 DEF Wires
  <2>2. \A e \in Devices : ~net[e] => w[e] = wire[e]
    <3> HIDE DEF f
    <3> QED BY <1>4, BroadcastIs, WiresTyped DEF RelayInv
  <2> QED BY <1>1, <2>1, <2>2 DEF RelayInv, Ties, Switches, presenceVars
<1> QED BY <1>2, <1>3, <1>7, <1>8, <1>9, <1>10 DEF RelayInv

\* Stop(d), with the relay as it is.
LEMMA StopRelay ==
    ASSUME RelayInv, NEW d \in Devices, Stop(d), UNCHANGED relayVars, Switches', Counts',
           \A e \in Devices : net'[e] => net[e] /\ ws'[e],
           \A e \in Devices : ~net'[e] => wire[e] = <<>>,
           \A e \in Devices : ~ws'[e] => ~ws[e] \/ e = d
    PROVE  RelayInv'
<1>1. PresenceTypeOK'
  BY StopTyped DEF RelayInv
<1>2. NotOneself'
  BY DEF RelayInv, NotOneself, Stop
<1>3. Wiring' /\ Seats' /\ HitsOK'
  BY DEF RelayInv, Wiring, Seats, HitsOK, relayVars
<1>4. Ties'
  <2>1. /\ heartbeat' = [heartbeat EXCEPT ![d] = Off]
        /\ wire' = wire /\ sockets' = sockets
    BY DEF Stop, relayVars
  <2>2. heartbeat \in [Devices -> Off .. heartbeatMs]
    BY DEF RelayInv, PresenceTypeOK
  <2> QED BY <2>1, <2>2 DEF RelayInv, Ties
<1> QED BY <1>1, <1>2, <1>3, <1>4 DEF RelayInv

LEMMA ConnectFailsRelay ==
    ASSUME RelayInv, NEW d \in Devices, ConnectFails(d) PROVE RelayInv'
<1>1. Stop(d) /\ UNCHANGED <<ws, net, ended>> /\ UNCHANGED relayVars /\ UNCHANGED <<events, lossy>>
  BY DEF ConnectFails, socketVars, countVars
<1>2. Switches' /\ Counts'
  BY <1>1 DEF RelayInv, Switches, Counts
<1> QED BY <1>1, <1>2, StopRelay DEF RelayInv, Ties

LEMMA ClientClosesRelay ==
    ASSUME RelayInv, NEW d \in Devices, ClientCloses(d) PROVE RelayInv'
<1>1. /\ ws[d] /\ ~net[d] /\ ws' = [ws EXCEPT ![d] = FALSE]
      /\ Stop(d) /\ UNCHANGED <<net, ended>> /\ UNCHANGED relayVars /\ UNCHANGED <<events, lossy>>
  BY DEF ClientCloses, countVars
<1>2. Switches' /\ Counts'
  BY <1>1 DEF RelayInv, Switches, Counts
<1>3. \A e \in Devices : e # d => ws'[e] = ws[e]
  BY <1>1 DEF RelayInv, Switches
<1> QED BY <1>1, <1>2, <1>3, StopRelay DEF RelayInv, Ties

\* The path of d is cut: nothing is on it.
LEMMA CutWiring ==
    ASSUME Wiring, NEW d \in Devices, wire' = [wire EXCEPT ![d] = <<>>]
    PROVE  Wiring' /\ \A e \in Devices : wire'[e] = IF e = d THEN <<>> ELSE wire[e]
<1>1. <<>> \in Seq(FrameFor(d))
  BY EmptySeq
<1>2. wire \in Wires /\ \A e \in Devices : wire[e] \in Seq(FrameFor(e))
  BY WiresTyped DEF Wiring
<1>3. Wiring'
  BY <1>1, <1>2, ResetWiring
<1>4. \A e \in Devices : wire'[e] = IF e = d THEN <<>> ELSE wire[e]
  BY <1>2 DEF Wires
<1> QED BY <1>3, <1>4

LEMMA DisconnectRelay ==
    ASSUME RelayInv, NEW d \in Devices, Disconnect(d) PROVE RelayInv'
<1>1. /\ ended' = [ended EXCEPT ![d] = TRUE]
      /\ ws' = [ws EXCEPT ![d] = FALSE] /\ net' = [net EXCEPT ![d] = FALSE]
      /\ wire' = [wire EXCEPT ![d] = <<>>]
      /\ Stop(d) /\ UNCHANGED <<sockets, ghosts, typeHits, events, lossy>>
  BY DEF Disconnect, countVars
<1>2. Switches' /\ Counts' /\ Seats' /\ HitsOK'
  BY <1>1 DEF RelayInv, Switches, Counts, Seats, HitsOK
<1>3. PresenceTypeOK' /\ NotOneself'
  BY <1>1, StopTyped DEF RelayInv, NotOneself, Stop
<1>4. Wiring' /\ \A e \in Devices : wire'[e] = IF e = d THEN <<>> ELSE wire[e]
  BY <1>1, CutWiring DEF RelayInv
<1>5. Ties'
  <2>1. heartbeat' = [heartbeat EXCEPT ![d] = Off] /\ heartbeat \in [Devices -> Off .. heartbeatMs]
    BY <1>1 DEF Stop, RelayInv, PresenceTypeOK
  <2> QED BY <1>1, <1>4, <2>1 DEF RelayInv, Ties, Switches
<1> QED BY <1>2, <1>3, <1>4, <1>5 DEF RelayInv

LEMMA NetFailsRelay ==
    ASSUME RelayInv, NEW d \in Devices, NetFails(d) PROVE RelayInv'
<1>1. /\ net' = [net EXCEPT ![d] = FALSE]
      /\ wire' = [wire EXCEPT ![d] = <<>>]
      /\ UNCHANGED <<presenceVars, ws, ended, sockets, ghosts, typeHits, lossy>>
      /\ events < MaxEvents /\ events' = events + 1
  BY DEF NetFails, Event
<1>2. Switches' /\ Seats' /\ HitsOK'
  BY <1>1 DEF RelayInv, Switches, Seats, HitsOK
<1>3. Counts'
  BY <1>1, RelayLimits DEF RelayInv, Counts
<1>4. PresenceTypeOK' /\ NotOneself'
  BY <1>1 DEF RelayInv, presenceVars, PresenceTypeOK, Roster, NotOneself
<1>5. Wiring' /\ \A e \in Devices : wire'[e] = IF e = d THEN <<>> ELSE wire[e]
  BY <1>1, CutWiring DEF RelayInv
<1>6. Ties'
  BY <1>1, <1>5 DEF RelayInv, Ties, Switches, presenceVars
<1> QED BY <1>2, <1>3, <1>4, <1>5, <1>6 DEF RelayInv

LEMMA RelayClosesRelay ==
    ASSUME RelayInv, NEW d \in Devices, RelayCloses(d) PROVE RelayInv'
<1> DEFINE f == [type |-> "peer-left", of |-> d]
<1>1. /\ \/ ghosts' = ghosts \ {d} /\ sockets' = sockets
         \/ sockets' = sockets \ {d} /\ ghosts' = ghosts /\ ~net[d]
      /\ wire' = Broadcast(sockets', f)
      /\ UNCHANGED <<presenceVars, ws, net, ended, typeHits, events, lossy>>
  BY DEF RelayCloses, socketVars, countVars
<1>2. Switches' /\ HitsOK' /\ Counts'
  BY <1>1 DEF RelayInv, Switches, HitsOK, Counts
<1>3. Seats'
  BY <1>1, SeatsLeft DEF RelayInv
<1>4. PresenceTypeOK' /\ NotOneself'
  BY <1>1 DEF RelayInv, presenceVars, PresenceTypeOK, Roster, NotOneself
<1>5. f \in Frame /\ \A e \in Devices : f \in FrameFor(e)
  BY DEF Frame, FrameFor
<1>6. PICK S : S = sockets'
  OBVIOUS
<1> HIDE DEF f
<1>7. /\ Broadcast(S, f) \in Wires
      /\ \A e \in Devices : Broadcast(S, f)[e] \in Seq(FrameFor(e))
      /\ \A e \in Devices : ~net[e] => Broadcast(S, f)[e] = wire[e]
  BY <1>5, BroadcastWiring, BroadcastIs, WiresTyped DEF RelayInv
<1>8. wire' = Broadcast(S, f)
  BY <1>1, <1>6
<1>9. Wiring'
  BY <1>7, <1>8 DEF Wiring, Wires
<1>10. Ties'
  BY <1>1, <1>7, <1>8 DEF RelayInv, Ties, presenceVars
<1> QED BY <1>2, <1>3, <1>4, <1>9, <1>10 DEF RelayInv

\* What is left of the queue of d when its first frame has been taken.
LEMMA TakenWiring ==
    ASSUME Wiring, NEW d \in Devices, wire[d] # <<>>, wire' = [wire EXCEPT ![d] = Tail(@)]
    PROVE  /\ Wiring'
           /\ Head(wire[d]) \in FrameFor(d)
           /\ \A e \in Devices : wire'[e] = IF e = d THEN Tail(wire[d]) ELSE wire[e]
<1>1. wire \in Wires /\ \A e \in Devices : wire[e] \in Seq(FrameFor(e))
  BY WiresTyped DEF Wiring
<1>2. Tail(wire[d]) \in Seq(FrameFor(d)) /\ Head(wire[d]) \in FrameFor(d)
  BY <1>1, HeadTailProperties
<1>3. wire' = [wire EXCEPT ![d] = Tail(wire[d])]
  OBVIOUS
<1>4. Wiring'
  BY <1>1, <1>2, <1>3, ResetWiring
<1>5. \A e \in Devices : wire'[e] = IF e = d THEN Tail(wire[d]) ELSE wire[e]
  BY <1>1, <1>3 DEF Wires
<1> QED BY <1>2, <1>4, <1>5

LEMMA HandleFrameRelay ==
    ASSUME RelayInv, NEW d \in Devices, HandleFrame(d) PROVE RelayInv'
<1>1. PICK f : /\ f = Head(wire[d])
               /\ \/ f.type = "hello" /\ Start(d)
                  \/ f.type = "peer-joined" /\ OnPeerChange(d, FALSE)
                  \/ f.type = "peer-left" /\ OnPeerChange(d, TRUE)
                  \/ f.type = "presence" /\ HandlePresence(d, f.of)
  BY DEF HandleFrame
<1>2. /\ wire[d] # <<>> /\ wire' = [wire EXCEPT ![d] = Tail(@)]
      /\ UNCHANGED <<ws, net, ended, sockets, ghosts, typeHits, events, lossy>>
  BY DEF HandleFrame, socketVars, countVars
<1>3. /\ Wiring' /\ f \in FrameFor(d)
      /\ \A e \in Devices : wire'[e] = IF e = d THEN Tail(wire[d]) ELSE wire[e]
  BY <1>1, <1>2, TakenWiring DEF RelayInv
<1>4. Switches' /\ Seats' /\ HitsOK' /\ Counts'
  BY <1>2 DEF RelayInv, Switches, Seats, HitsOK, Counts
<1>5. net[d]
  BY <1>2 DEF RelayInv, Ties
<1>6. PresenceTypeOK' /\ NotOneself' /\ \A e \in Devices : e # d => heartbeat'[e] = heartbeat[e]
  <2>1. CASE Start(d)
    <3>1. PresenceTypeOK'
      BY <2>1, StartTyped DEF RelayInv
    <3>2. heartbeat \in [Devices -> Off .. heartbeatMs]
      BY DEF RelayInv, PresenceTypeOK
    <3>3. decrypting' = decrypting /\ \A e \in Devices : e # d => heartbeat'[e] = heartbeat[e]
      BY <2>1, <3>2 DEF Start, presenceVars
    <3> QED BY <3>1, <3>3 DEF RelayInv, NotOneself
  <2>2. CASE \E left \in BOOLEAN : OnPeerChange(d, left)
    <3>1. PresenceTypeOK'
      BY <2>2, OnPeerChangeTyped DEF RelayInv
    <3>2. decrypting' = decrypting /\ heartbeat' = heartbeat
      BY <2>2 DEF OnPeerChange
    <3> QED BY <3>1, <3>2 DEF RelayInv, NotOneself
  <2>3. CASE f.type = "presence" /\ HandlePresence(d, f.of)
    <3>1. f.of \in Devices /\ f.of # d
      BY <1>3, <2>3 DEF FrameFor, Frame
    <3>2. PresenceTypeOK' /\ \A x \in Devices : decrypting'[x][x] = decrypting[x][x]
      BY <2>3, <3>1, HandlePresenceTyped DEF RelayInv
    <3>3. heartbeat' = heartbeat
      BY <2>3 DEF HandlePresence
    <3> QED BY <3>2, <3>3 DEF RelayInv, NotOneself
  <2> QED BY <1>1, <2>1, <2>2, <2>3
<1>7. Ties'
  BY <1>2, <1>3, <1>5, <1>6 DEF RelayInv, Ties
<1> QED BY <1>3, <1>4, <1>6, <1>7 DEF RelayInv

LEMMA AdmitOK ==
    ASSUME HitsOK, NEW d \in Devices, Admitted(d), Admit(d) PROVE HitsOK'
<1>1. Hits(typeHits[d]) /\ Len(typeHits[d]) < frameLimit
  BY DEF HitsOK, Admitted
<1>2. PICK h : h = Append(typeHits[d], 0)
  OBVIOUS
<1>3. Hits(h) /\ h \in Seq(0 .. frameWindowMs)
  <2>1. Hits(h)
    BY <1>1, <1>2, AdmitHits
  <2> QED BY <2>1 DEF Hits
<1>4. typeHits' = [typeHits EXCEPT ![d] = h]
  BY <1>2 DEF Admit
<1> QED BY <1>3, <1>4 DEF HitsOK

LEMMA AnnouncedRelay ==
    ASSUME RelayInv, NEW d \in Devices, Announced(d) PROVE RelayInv'
<1> DEFINE f == [type |-> "presence", of |-> d]
           w == Broadcast(sockets \ {d}, f)
<1>1. /\ announcing[d] > 0 /\ announcing' = [announcing EXCEPT ![d] = @ - 1]
      /\ \/ UNCHANGED <<wire, typeHits>> /\ (lossy' = lossy \/ lossy' = TRUE)
         \/ Admitted(d) /\ Admit(d) /\ wire' = w /\ lossy' = lossy
      /\ UNCHANGED <<age, stale, heartbeat, sweep, prune, decrypting, ws, net, ended, sockets,
                     ghosts, events>>
  BY DEF Announced, socketVars
<1>2. PresenceTypeOK' /\ NotOneself'
  <2>1. announcing' \in [Devices -> Nat]
    BY <1>1 DEF RelayInv, PresenceTypeOK
  <2> QED BY <1>1, <2>1 DEF RelayInv, PresenceTypeOK, Roster, NotOneself
<1>3. Switches' /\ Seats' /\ Counts'
  BY <1>1 DEF RelayInv, Switches, Seats, Counts
<1>4. HitsOK'
  <2>1. CASE UNCHANGED typeHits
    BY <2>1 DEF RelayInv, HitsOK
  <2>2. CASE Admitted(d) /\ Admit(d)
    BY <2>2, AdmitOK DEF RelayInv
  <2> QED BY <1>1, <2>1, <2>2
<1>5. /\ w \in Wires
      /\ \A e \in Devices : w[e] \in Seq(FrameFor(e))
      /\ \A e \in Devices : ~net[e] => w[e] = wire[e]
  <2>1. f \in Frame /\ \A e \in Devices : e # d => f \in FrameFor(e)
    BY DEF Frame, FrameFor
  <2> HIDE DEF f
  <2> QED BY <2>1, BroadcastWiring, BroadcastIs, WiresTyped DEF RelayInv
<1>6. Wiring' /\ \A e \in Devices : ~net[e] => wire'[e] = wire[e]
  <2> HIDE DEF w
  <2> QED BY <1>1, <1>5 DEF RelayInv, Wiring, Wires
<1>7. Ties'
  BY <1>1, <1>6 DEF RelayInv, Ties
<1> QED BY <1>2, <1>3, <1>4, <1>6, <1>7 DEF RelayInv

\* Steps of presence alone that start or stop no heartbeat.
LEMMA PresenceRelay ==
    ASSUME RelayInv, PresenceTypeOK', NotOneself', UNCHANGED <<socketVars, relayVars>>, Counts',
           \A d \in Devices : heartbeat[d] = Off => heartbeat'[d] = Off
    PROVE  RelayInv'
<1>1. Switches' /\ Wiring' /\ Seats' /\ HitsOK'
  BY DEF RelayInv, Switches, Wiring, Seats, HitsOK, socketVars, relayVars
<1>2. Ties'
  BY DEF RelayInv, Ties, socketVars, relayVars
<1> QED BY <1>1, <1>2 DEF RelayInv

LEMMA DecryptedRelay ==
    ASSUME RelayInv, NEW d \in Devices, NEW e \in Devices, PresenceDecrypted(d, e)
    PROVE  d # e /\ RelayInv'
<1>1. Decrypted(d, e) /\ UNCHANGED <<socketVars, relayVars, countVars>>
  BY DEF PresenceDecrypted
<1>2. d # e
  BY <1>1 DEF Decrypted, RelayInv, NotOneself
<1>3. PresenceTypeOK'
  BY <1>1, <1>2, DecryptedTyped DEF RelayInv
<1>4. NotOneself'
  <2>1. decrypting' = [decrypting EXCEPT ![d][e] = @ - 1] /\ decrypting \in [Devices -> [Devices -> Nat]]
    BY <1>1 DEF Decrypted, RelayInv, PresenceTypeOK
  <2>2. \A x \in Devices : decrypting'[x][x] = decrypting[x][x]
    BY <1>2, <2>1
  <2> QED BY <2>2 DEF RelayInv, NotOneself
<1>5. heartbeat' = heartbeat /\ Counts'
  BY <1>1 DEF Decrypted, RelayInv, Counts, countVars
<1> QED BY <1>1, <1>2, <1>3, <1>4, <1>5, PresenceRelay

LEMMA TimerRelay ==
    ASSUME RelayInv, NEW d \in Devices, TimerFires(d) PROVE RelayInv'
<1>1. /\ Heartbeat(d) \/ Sweep(d) \/ Prune(d)
      /\ UNCHANGED <<socketVars, relayVars, countVars>>
  BY DEF TimerFires
<1>2. PresenceTypeOK'
  BY <1>1, HeartbeatTyped, SweepTyped, PruneTyped DEF RelayInv
<1>3. decrypting' = decrypting /\ NotOneself' /\ Counts'
  BY <1>1 DEF Heartbeat, Sweep, Prune, RelayInv, NotOneself, Counts, countVars
<1>4. \A e \in Devices : heartbeat[e] = Off => heartbeat'[e] = Off
  <2>1. heartbeat \in [Devices -> Off .. heartbeatMs] /\ Off = -1
    BY Delays DEF RelayInv, PresenceTypeOK
  <2> QED BY <1>1, <2>1 DEF Heartbeat, Sweep, Prune
<1> QED BY <1>1, <1>2, <1>3, <1>4, PresenceRelay

LEMMA ChatRelay ==
    ASSUME RelayInv, NEW d \in Devices, Chat(d) PROVE RelayInv'
<1>1. /\ events < MaxEvents /\ events' = events + 1
      /\ (Admitted(d) /\ Admit(d)) \/ UNCHANGED typeHits
      /\ UNCHANGED <<presenceVars, socketVars, wire, sockets, ghosts, lossy>>
  BY DEF Chat, Event
<1>2. HitsOK'
  <2>1. CASE UNCHANGED typeHits
    BY <2>1 DEF RelayInv, HitsOK
  <2>2. CASE Admitted(d) /\ Admit(d)
    BY <2>2, AdmitOK DEF RelayInv
  <2> QED BY <1>1, <2>1, <2>2
<1>3. Counts'
  BY <1>1, RelayLimits DEF RelayInv, Counts
<1>4. PresenceTypeOK' /\ NotOneself'
  BY <1>1 DEF RelayInv, presenceVars, PresenceTypeOK, Roster, NotOneself
<1>5. Switches' /\ Wiring' /\ Seats' /\ Ties'
  BY <1>1 DEF RelayInv, Switches, Wiring, Seats, Ties, presenceVars, socketVars
<1> QED BY <1>2, <1>3, <1>4, <1>5 DEF RelayInv

LEMMA RenameRelay ==
    ASSUME RelayInv, NEW d \in Devices, Rename(d) PROVE RelayInv'
<1>1. /\ events < MaxEvents /\ events' = events + 1 /\ Announce(d) /\ lossy' = lossy
      /\ UNCHANGED <<age, stale, heartbeat, sweep, prune, decrypting, socketVars, relayVars>>
  BY DEF Rename, Event
<1>2. PresenceTypeOK' /\ NotOneself'
  <2>1. announcing' \in [Devices -> Nat]
    BY <1>1, AnnounceTyped DEF RelayInv, PresenceTypeOK
  <2> QED BY <1>1, <2>1 DEF RelayInv, PresenceTypeOK, Roster, NotOneself
<1>3. Counts'
  BY <1>1, RelayLimits DEF RelayInv, Counts
<1> QED BY <1>1, <1>2, <1>3, PresenceRelay

LEMMA TickRelay == ASSUME RelayInv, Tick PROVE RelayInv'
<1>1. /\ Elapse
      /\ typeHits' = [d \in Devices |-> Older(ShiftWhile(typeHits[d], Leaving(typeHits[d])))]
      /\ UNCHANGED <<socketVars, wire, sockets, ghosts, countVars>>
  BY DEF Tick
<1>2. HitsOK'
  <2>1. ASSUME NEW d \in Devices PROVE Hits(typeHits'[d])
    <3>1. Hits(typeHits[d])
      BY DEF RelayInv, HitsOK
    <3> QED BY <1>1, <3>1, OlderHits
  <2>2. \A d \in Devices : typeHits'[d] \in Seq(0 .. frameWindowMs)
    BY <2>1 DEF Hits
  <2> QED BY <1>1, <2>1, <2>2 DEF HitsOK
<1>3. PresenceTypeOK' /\ NotOneself'
  BY <1>1, ElapseTyped DEF RelayInv, NotOneself, Elapse
<1>4. Switches' /\ Wiring' /\ Seats' /\ Counts'
  BY <1>1 DEF RelayInv, Switches, Wiring, Seats, Counts, socketVars, countVars
<1>5. Ties'
  <2>1. \A d \in Devices : heartbeat[d] = Off => heartbeat'[d] = Off
    <3>1. heartbeat' = Countdown(heartbeat) /\ Off = -1
      BY <1>1, Delays DEF Elapse
    <3> QED BY <3>1 DEF Countdown
  <2> QED BY <1>1, <2>1 DEF RelayInv, Ties, socketVars
<1> QED BY <1>2, <1>3, <1>4, <1>5 DEF RelayInv

LEMMA RelayNextOK == ASSUME RelayInv, [Next]_vars PROVE RelayInv'
<1>1. CASE Tick
  BY <1>1, TickRelay
<1>2. CASE \E d \in Devices : Connection(d)
  BY <1>2, ConnectRelay, ConnectFailsRelay, ClientClosesRelay, DisconnectRelay, NetFailsRelay,
     RelayClosesRelay DEF Connection
<1>3. CASE \E d \in Devices : Client(d)
  BY <1>3, HandleFrameRelay, AnnouncedRelay, TimerRelay, ChatRelay, RenameRelay, DecryptedRelay
     DEF Client
<1>4. CASE UNCHANGED vars
  <2>1. UNCHANGED <<presenceVars, socketVars, relayVars, countVars>>
    BY <1>4 DEF vars
  <2>2. PresenceTypeOK' /\ NotOneself' /\ Counts' /\ heartbeat' = heartbeat
    BY <2>1 DEF RelayInv, PresenceTypeOK, Roster, NotOneself, Counts, presenceVars, countVars
  <2> QED BY <2>1, <2>2, PresenceRelay
<1> QED BY <1>1, <1>2, <1>3, <1>4 DEF Next

LEMMA RelayInitOK == Init => RelayInv
<1> SUFFICES ASSUME Init PROVE RelayInv
  OBVIOUS
<1>1. PresenceTypeOK /\ NotOneself
  BY Delays DEF Init, PresenceInit, PresenceTypeOK, Roster, NotOneself
<1>2. Switches /\ Counts
  <2>1. 0 \in 0 .. MaxEvents
    BY RelayLimits
  <2>2. Switches
    BY DEF Init, Switches
  <2> QED BY <2>1, <2>2 DEF Init, Counts
<1>3. Wiring /\ Ties
  BY EmptySeq DEF Init, PresenceInit, Wiring, Ties
<1>4. Seats
  BY FS_EmptySet, RelayLimits DEF Init, Seats
<1>5. HitsOK
  <2>1. <<>> \in Seq(0 .. frameWindowMs)
    BY EmptySeq
  <2> QED BY <2>1, NoHits DEF Init, HitsOK
<1> QED BY <1>1, <1>2, <1>3, <1>4, <1>5 DEF RelayInv

-----------------------------------------------------------------------------
(* The rosters of two devices with sockets that work. *)

Pair(d, e) == d \in Devices /\ e \in Devices /\ d # e /\ net[d] /\ net[e]

PairOK(d, e) == Followed(d, e) /\ Listed(d, e)

\* The queue of x is as before, or one frame longer.
Grows(x) == wire'[x] = wire[x] \/ \E f \in Frame : wire'[x] = Append(wire[x], f)

LEMMA GrowsKeeps ==
    ASSUME RelayInv, NEW x \in Devices, Grows(x)
    PROVE  \A k \in DOMAIN wire[x] : k \in DOMAIN wire'[x] /\ wire'[x][k] = wire[x][k]
<1>1. wire[x] \in Seq(Frame)
  BY DEF RelayInv, Wiring
<1>2. CASE wire'[x] = wire[x]
  BY <1>2
<1>3. CASE \E f \in Frame : wire'[x] = Append(wire[x], f)
  <2>1. PICK f \in Frame : wire'[x] = Append(wire[x], f)
    BY <1>3
  <2>2. /\ DOMAIN Append(wire[x], f) = 1 .. Len(wire[x]) + 1
        /\ DOMAIN wire[x] = 1 .. Len(wire[x]) /\ Len(wire[x]) \in Nat
        /\ \A k \in DOMAIN wire[x] : Append(wire[x], f)[k] = wire[x][k]
    BY <1>1, AppendIs
  <2>3. DOMAIN wire[x] \subseteq DOMAIN Append(wire[x], f)
    BY <2>2
  <2> QED BY <2>1, <2>2, <2>3
<1> QED BY <1>2, <1>3 DEF Grows

LEMMA SaysStays ==
    ASSUME RelayInv, NEW e \in Devices, Grows(e), Says(e),
           announcing[e] > 0 => announcing'[e] > 0, heartbeat[e] = Off => heartbeat'[e] = Off
    PROVE  Says(e)'
<1>1. \A k \in DOMAIN wire[e] : k \in DOMAIN wire'[e] /\ wire'[e][k] = wire[e][k]
  BY GrowsKeeps
<1> QED BY <1>1 DEF Says

\* Every frame in the queue of d was there, or is the last one.
LEMMA GrownIs ==
    ASSUME RelayInv, NEW d \in Devices, Grows(d), NEW k \in DOMAIN wire'[d]
    PROVE  \/ k \in DOMAIN wire[d] /\ wire'[d][k] = wire[d][k]
           \/ \E f \in Frame : wire'[d] = Append(wire[d], f) /\ wire'[d][k] = f
<1>1. wire[d] \in Seq(Frame)
  BY DEF RelayInv, Wiring
<1>2. CASE wire'[d] = wire[d]
  BY <1>2
<1>3. CASE \E f \in Frame : wire'[d] = Append(wire[d], f)
  <2>1. PICK f \in Frame : wire'[d] = Append(wire[d], f)
    BY <1>3
  <2>2. /\ DOMAIN Append(wire[d], f) = 1 .. Len(wire[d]) + 1
        /\ DOMAIN wire[d] = 1 .. Len(wire[d]) /\ Len(wire[d]) \in Nat
        /\ Append(wire[d], f)[Len(wire[d]) + 1] = f
        /\ \A j \in DOMAIN wire[d] : Append(wire[d], f)[j] = wire[d][j]
    BY <1>1, AppendIs
  <2>3. CASE k = Len(wire[d]) + 1
    BY <2>1, <2>2, <2>3
  <2>4. CASE k # Len(wire[d]) + 1
    <3>1. k \in DOMAIN wire[d]
      BY <2>1, <2>2, <2>4
    <3> QED BY <2>1, <2>2, <3>1
  <2> QED BY <2>3, <2>4
<1> QED BY <1>2, <1>3 DEF Grows

\* A step that unsettles nothing between d and e: queues grow, d is sent nothing
\* unsettling unless e will say so, and what d knew of e is as good as it was.
LEMMA QuietKeeps ==
    ASSUME RelayInv, NEW d \in Devices, NEW e \in Devices, PairOK(d, e),
           Grows(d), Grows(e),
           \A f \in Frame : wire'[d] = Append(wire[d], f) /\ Unsettling(f) => Says(e)',
           announcing[e] > 0 => announcing'[e] > 0,
           heartbeat[e] = Off <=> heartbeat'[e] = Off,
           heartbeat[d] = Off <=> heartbeat'[d] = Off,
           decrypting[d][e] > 0 => decrypting'[d][e] > 0,
           heartbeat[e] # Off /\ Sound(d, e) => Says(e)' \/ Sound(d, e)'
    PROVE  PairOK(d, e)'
<1>1. Says(e) => Says(e)'
  BY SaysStays
<1>2. \A k \in DOMAIN wire[d] : k \in DOMAIN wire'[d] /\ wire'[d][k] = wire[d][k]
  BY GrowsKeeps
<1>3. Announcement(e)' = Announcement(e)
  BY DEF Announcement
<1>4. Followed(d, e)'
  <2> SUFFICES ASSUME NEW k \in DOMAIN wire'[d], Unsettling(wire'[d][k]), ~Says(e)'
               PROVE  \E j \in DOMAIN wire'[d] : j > k /\ wire'[d][j] = Announcement(e)
    BY <1>3 DEF Followed, Unsettling
  <2>1. k \in DOMAIN wire[d] /\ wire'[d][k] = wire[d][k]
    BY GrownIs
  <2>2. PICK j \in DOMAIN wire[d] : j > k /\ wire[d][j] = Announcement(e)
    BY <1>1, <2>1 DEF PairOK, Followed
  <2> QED BY <1>2, <2>2
<1>5. Coming(d, e) => Coming(d, e)'
  BY <1>1, <1>2, <1>3 DEF Coming
<1>6. Listed(d, e)'
  BY <1>5 DEF PairOK, Listed, Coming
<1> QED BY <1>4, <1>6 DEF PairOK

\* What Sound is about.
LEMMA SoundStays ==
    ASSUME NEW d \in Devices, NEW e \in Devices, Sound(d, e),
           age'[d][e] = age[d][e], heartbeat'[e] = heartbeat[e],
           e \in stale'[d] => e \in stale[d]
    PROVE  Sound(d, e)'
  BY DEF Sound, Roster

LEMMA GrowsAtBroadcast ==
    ASSUME RelayInv, NEW S, NEW f \in Frame, wire' = Broadcast(S, f), NEW x \in Devices
    PROVE  /\ Grows(x)
           /\ wire'[x] = IF x \in S /\ net[x] THEN Append(wire[x], f) ELSE wire[x]
<1>1. wire \in Wires
  BY WiresTyped DEF RelayInv
<1>2. wire'[x] = IF x \in S /\ net[x] THEN Append(wire[x], f) ELSE wire[x]
  BY <1>1, BroadcastIs
<1> QED BY <1>2 DEF Grows

LEMMA NotLonger ==
    ASSUME NEW w \in Seq(Frame), NEW f \in Frame PROVE w # Append(w, f)
<1>1. Len(Append(w, f)) = Len(w) + 1 /\ Len(w) \in Nat
  BY AppendProperties, LenProperties
<1> QED BY <1>1

LEMMA SaysSettles == ASSUME NEW d, NEW e, Says(e)' PROVE PairOK(d, e)'
  BY DEF PairOK, Followed, Listed, Coming

LEMMA PairWas ==
    ASSUME RostersOK, ~lossy, NEW d, NEW e, Pair(d, e) PROVE PairOK(d, e)
  BY DEF RostersOK, Pair, PairOK

LEMMA ConnectPair ==
    ASSUME RelayInv, RostersOK, NEW x \in Devices, Connect(x), ~lossy', NEW d, NEW e, Pair(d, e)'
    PROVE  PairOK(d, e)'
<1> DEFINE f == [type |-> "peer-joined", of |-> x]
           h == [type |-> "hello", of |-> x]
           w == Broadcast(sockets \ {x}, f)
<1>1. /\ ~ws[x] /\ net' = [net EXCEPT ![x] = TRUE]
      /\ wire' = [w EXCEPT ![x] = <<h>>]
      /\ UNCHANGED <<age, stale, heartbeat, announcing, decrypting, lossy>>
  BY DEF Connect, OnConnection, countVars, presenceVars
<1>2. d \in Devices /\ e \in Devices /\ d # e /\ net'[d] /\ net'[e]
  BY DEF Pair
<1>3. \A y \in Devices : y # x => (net'[y] <=> net[y])
  BY <1>1 DEF RelayInv, Switches
<1>4. f \in Frame /\ ~Unsettling(f)
  BY DEF Frame, Unsettling
<1>5. w \in Wires
  <2> HIDE DEF f
  <2> QED BY <1>4, BroadcastIs, WiresTyped DEF RelayInv
<1>6. ASSUME NEW y \in Devices, y # x, net[y]
      PROVE  wire'[y] = Append(wire[y], f) /\ wire[y] \in Seq(Frame)
  <2>1. wire'[y] = w[y]
    BY <1>1, <1>5, <1>6 DEF Wires
  <2>2. y \in sockets
    BY <1>6 DEF RelayInv, Ties
  <2>3. w[y] = Append(wire[y], f)
    BY <1>6, <2>2 DEF Broadcast
  <2> QED BY <2>1, <2>3 DEF RelayInv, Wiring
<1>7. CASE e = x
  <2>1. wire'[e] = <<h>> /\ heartbeat'[e] = Off
    BY <1>1, <1>2, <1>5, <1>7 DEF Wires, RelayInv, Ties
  <2>2. 1 \in DOMAIN wire'[e] /\ wire'[e][1].type = "hello"
    BY <2>1
  <2> QED BY <2>1, <2>2, SaysSettles DEF Says
<1>8. CASE d = x
  <2>1. wire'[e] = Append(wire[e], f) /\ wire[e] \in Seq(Frame)
    BY <1>2, <1>3, <1>6, <1>8
  <2>2. /\ Len(wire[e]) + 1 \in DOMAIN wire'[e]
        /\ wire'[e][Len(wire[e]) + 1].type = "peer-joined"
    <3>1. PICK g \in Frame : g = f
      BY <1>4
    <3>2. /\ DOMAIN Append(wire[e], g) = 1 .. Len(wire[e]) + 1 /\ Len(wire[e]) \in Nat
          /\ Append(wire[e], g)[Len(wire[e]) + 1] = g
      BY <2>1, AppendIs
    <3>3. g.type = "peer-joined"
      BY <3>1
    <3> QED BY <2>1, <3>1, <3>2, <3>3
  <2> QED BY <2>2, SaysSettles DEF Says
<1>9. CASE d # x /\ e # x
  <2>1. Pair(d, e) /\ ~lossy
    BY <1>1, <1>2, <1>3, <1>9 DEF Pair
  <2>2. PairOK(d, e)
    BY <2>1, PairWas
  <2>3. wire'[d] = Append(wire[d], f) /\ wire'[e] = Append(wire[e], f) /\ wire[d] \in Seq(Frame)
    BY <1>2, <1>6, <1>9, <2>1 DEF Pair
  <2>4. Grows(d) /\ Grows(e)
    BY <1>4, <2>3 DEF Grows
  <2>5. \A g \in Frame : wire'[d] = Append(wire[d], g) => g = f
    <3>1. PICK p : p = f
      OBVIOUS
    <3>2. p \in Frame /\ wire[d] \in Seq(Frame) /\ wire'[d] = Append(wire[d], p)
      BY <1>4, <2>3, <3>1
    <3>3. ASSUME NEW g \in Frame, wire'[d] = Append(wire[d], g) PROVE g = p
      <4>1. /\ Append(wire[d], g)[Len(wire[d]) + 1] = g
            /\ Append(wire[d], p)[Len(wire[d]) + 1] = p
        BY <3>2, AppendIs
      <4> QED BY <3>2, <3>3, <4>1
    <3> QED BY <3>1, <3>3
  <2>6. Sound(d, e) => Sound(d, e)'
    BY <1>1, <1>2, SoundStays
  <2> QED BY <1>1, <1>2, <1>4, <2>2, <2>4, <2>5, <2>6, QuietKeeps
<1> QED BY <1>7, <1>8, <1>9

\* Stop(x) is nothing to the others.
LEMMA StopPair ==
    ASSUME RelayInv, RostersOK, NEW x \in Devices, Stop(x), ~lossy, NEW d, NEW e, Pair(d, e),
           d # x, e # x, wire'[d] = wire[d], wire'[e] = wire[e]
    PROVE  PairOK(d, e)'
<1>1. d \in Devices /\ e \in Devices /\ PairOK(d, e)
  BY PairWas DEF Pair
<1>2. /\ heartbeat'[d] = heartbeat[d] /\ heartbeat'[e] = heartbeat[e]
      /\ stale'[d] = stale[d] /\ announcing' = announcing /\ decrypting' = decrypting
  BY <1>1 DEF Stop, RelayInv, PresenceTypeOK
<1>3. age'[d][e] = age[d][e]
  BY <1>1, ForgetTyped DEF Stop, RelayInv
<1>4. Sound(d, e) => Sound(d, e)'
  BY <1>1, <1>2, <1>3, SoundStays
<1>5. Grows(d) /\ Grows(e)
  BY DEF Grows
<1>6. \A f \in Frame : wire'[d] # Append(wire[d], f)
  <2>1. wire[d] \in Seq(Frame)
    BY <1>1 DEF RelayInv, Wiring
  <2> QED BY <2>1, NotLonger
<1> QED BY <1>1, <1>2, <1>4, <1>5, <1>6, QuietKeeps

LEMMA LeavesPair ==
    ASSUME RelayInv, RostersOK, NEW x \in Devices, ~lossy', NEW d, NEW e, Pair(d, e)',
           ConnectFails(x) \/ ClientCloses(x) \/ Disconnect(x)
    PROVE  PairOK(d, e)'
<1>1. lossy' = lossy /\ Stop(x)
  BY DEF ConnectFails, ClientCloses, Disconnect, countVars
<1>2. d \in Devices /\ e \in Devices /\ d # e /\ net'[d] /\ net'[e]
  BY DEF Pair
<1>3. Pair(d, e) /\ d # x /\ e # x /\ wire'[d] = wire[d] /\ wire'[e] = wire[e]
  <2>1. CASE ConnectFails(x) \/ ClientCloses(x)
    <3>1. net' = net /\ wire' = wire /\ ~net[x]
      BY <2>1 DEF ConnectFails, ClientCloses, socketVars, relayVars, RelayInv, Ties
    <3> QED BY <1>2, <3>1 DEF Pair
  <2>2. CASE Disconnect(x)
    <3>1. net' = [net EXCEPT ![x] = FALSE] /\ wire' = [wire EXCEPT ![x] = <<>>]
      BY <2>2 DEF Disconnect
    <3>2. d # x /\ e # x /\ net[d] /\ net[e]
      BY <1>2, <3>1 DEF RelayInv, Switches
    <3>3. wire'[d] = wire[d] /\ wire'[e] = wire[e]
      BY <1>2, <3>1, <3>2 DEF RelayInv, Wiring
    <3> QED BY <1>2, <3>2, <3>3 DEF Pair
  <2> QED BY <2>1, <2>2
<1> QED BY <1>1, <1>3, StopPair

\* A step that leaves queues and rosters alone, and lets an announcement begin at most.
LEMMA SilentPair ==
    ASSUME RelayInv, RostersOK, ~lossy, NEW d, NEW e, Pair(d, e),
           wire'[d] = wire[d], wire'[e] = wire[e],
           UNCHANGED <<age, stale, heartbeat, decrypting>>, announcing[e] > 0 => announcing'[e] > 0
    PROVE  PairOK(d, e)'
<1>1. d \in Devices /\ e \in Devices /\ PairOK(d, e)
  BY PairWas DEF Pair
<1>2. Sound(d, e) => Sound(d, e)'
  BY <1>1, SoundStays
<1>3. Grows(d) /\ Grows(e)
  BY DEF Grows
<1>4. \A f \in Frame : wire'[d] # Append(wire[d], f)
  <2>1. wire[d] \in Seq(Frame)
    BY <1>1 DEF RelayInv, Wiring
  <2> QED BY <2>1, NotLonger
<1> QED BY <1>1, <1>2, <1>3, <1>4, QuietKeeps

LEMMA NetFailsPair ==
    ASSUME RelayInv, RostersOK, NEW x \in Devices, NetFails(x), ~lossy', NEW d, NEW e, Pair(d, e)'
    PROVE  PairOK(d, e)'
<1>1. /\ net' = [net EXCEPT ![x] = FALSE] /\ wire' = [wire EXCEPT ![x] = <<>>]
      /\ lossy' = lossy /\ UNCHANGED <<age, stale, heartbeat, announcing, decrypting>>
  BY DEF NetFails, presenceVars
<1>2. d \in Devices /\ e \in Devices /\ d # e /\ net'[d] /\ net'[e]
  BY DEF Pair
<1>3. d # x /\ e # x /\ net[d] /\ net[e]
  BY <1>1, <1>2 DEF RelayInv, Switches
<1>4. Pair(d, e) /\ wire'[d] = wire[d] /\ wire'[e] = wire[e]
  BY <1>1, <1>2, <1>3 DEF Pair, RelayInv, Wiring
<1> QED BY <1>1, <1>4, SilentPair

LEMMA RelayClosesPair ==
    ASSUME RelayInv, RostersOK, NEW x \in Devices, RelayCloses(x), ~lossy', NEW d, NEW e, Pair(d, e)'
    PROVE  PairOK(d, e)'
<1> DEFINE f == [type |-> "peer-left", of |-> x]
<1>1. PICK S : /\ S = sockets' /\ wire' = Broadcast(S, f)
               /\ net' = net /\ \A y \in sockets : net[y] => y \in S
  BY DEF RelayCloses, socketVars
<1>2. e \in Devices /\ net[e]
  BY <1>1 DEF Pair
<1>3. e \in S /\ wire[e] \in Seq(Frame)
  BY <1>1, <1>2 DEF RelayInv, Ties, Wiring
<1>4. PICK g \in Frame : g = f
  BY DEF Frame
<1>5. g.type = "peer-left" /\ wire' = Broadcast(S, g)
  BY <1>1, <1>4
<1>6. wire'[e] = Append(wire[e], g)
  BY <1>2, <1>3, <1>5, GrowsAtBroadcast
<1>7. /\ DOMAIN Append(wire[e], g) = 1 .. Len(wire[e]) + 1 /\ Len(wire[e]) \in Nat
      /\ Append(wire[e], g)[Len(wire[e]) + 1] = g
  BY <1>3, AppendIs
<1>8. Len(wire[e]) + 1 \in DOMAIN wire'[e] /\ wire'[e][Len(wire[e]) + 1].type = "peer-left"
  BY <1>5, <1>6, <1>7
<1> QED BY <1>8, SaysSettles DEF Says

\* The frame taken from the queue of d, if it unsettled the roster of d, was followed.
LEMMA HandleOwnPair ==
    ASSUME RelayInv, NEW d \in Devices, NEW e \in Devices, d # e, PairOK(d, e), HandleFrame(d)
    PROVE  PairOK(d, e)'
<1>1. PICK f : /\ f = Head(wire[d])
               /\ \/ f.type = "hello" /\ Start(d)
                  \/ f.type = "peer-joined" /\ OnPeerChange(d, FALSE)
                  \/ f.type = "peer-left" /\ OnPeerChange(d, TRUE)
                  \/ f.type = "presence" /\ HandlePresence(d, f.of)
  BY DEF HandleFrame
<1>2. /\ wire[d] # <<>> /\ wire' = [wire EXCEPT ![d] = Tail(@)]
  BY DEF HandleFrame
<1>3. /\ wire'[d] = Tail(wire[d]) /\ wire'[e] = wire[e]
      /\ f \in Frame
  BY <1>1, <1>2, TakenWiring, WiresTyped DEF RelayInv
<1>4. wire[d] \in Seq(Frame)
  BY DEF RelayInv, Wiring
<1>5. /\ f = wire[d][1] /\ 1 \in DOMAIN wire[d] /\ DOMAIN wire[d] \subseteq Nat
      /\ \A k \in DOMAIN wire'[d] : k + 1 \in DOMAIN wire[d] /\ wire'[d][k] = wire[d][k + 1]
      /\ \A k \in DOMAIN wire[d] :
            k # 1 => k - 1 \in DOMAIN wire'[d] /\ wire'[d][k - 1] = wire[d][k]
      /\ DOMAIN wire'[d] \subseteq Nat
  <2>1. Tail(wire[d]) \in Seq(Frame)
    BY <1>2, <1>4, HeadTailProperties
  <2>2. DOMAIN Tail(wire[d]) \subseteq Nat
    BY <2>1, LenProperties
  <2> QED BY <1>1, <1>2, <1>3, <1>4, <2>2, TailIs
<1>6. /\ heartbeat'[e] = heartbeat[e]
      /\ announcing[e] > 0 => announcing'[e] > 0
      /\ decrypting[d][e] > 0 => decrypting'[d][e] > 0
      /\ age'[d] = age[d] /\ stale'[e] = stale[e]
  <2>1. CASE Start(d)
    BY <2>1 DEF Start, presenceVars, Announce, RelayInv, PresenceTypeOK
  <2>2. CASE \E left \in BOOLEAN : OnPeerChange(d, left)
    BY <2>2 DEF OnPeerChange, Announce, RelayInv, PresenceTypeOK
  <2>3. CASE f.type = "presence" /\ HandlePresence(d, f.of)
    <3>1. f.of \in Devices
      BY <1>3 DEF Frame
    <3>2. decrypting[d][e] > 0 => decrypting'[d][e] > 0
      BY <2>3, <3>1, HandlePresenceTyped DEF RelayInv
    <3> QED BY <2>3, <3>2 DEF HandlePresence
  <2> QED BY <1>1, <2>1, <2>2, <2>3
<1>7. Says(e) => Says(e)'
  BY <1>3, <1>6 DEF Says
<1>8. Announcement(e)' = Announcement(e)
  BY DEF Announcement
<1>9. Followed(d, e)'
  <2> SUFFICES ASSUME NEW k \in DOMAIN wire'[d], Unsettling(wire'[d][k]), ~Says(e)'
               PROVE  \E j \in DOMAIN wire'[d] : j > k /\ wire'[d][j] = Announcement(e)
    BY <1>8 DEF Followed, Unsettling
  <2>1. k + 1 \in DOMAIN wire[d] /\ wire'[d][k] = wire[d][k + 1]
    BY <1>5
  <2>2. PICK j \in DOMAIN wire[d] : j > k + 1 /\ wire[d][j] = Announcement(e)
    BY <1>7, <2>1 DEF PairOK, Followed
  <2>3. j \in Nat /\ k \in Nat /\ j # 1
    BY <1>5, <2>2
  <2>4. j - 1 \in DOMAIN wire'[d] /\ wire'[d][j - 1] = Announcement(e) /\ j - 1 > k
    BY <1>5, <2>2, <2>3
  <2> QED BY <2>4
<1>10. Unsettling(f) => Coming(d, e)'
  <2> SUFFICES ASSUME Unsettling(f), ~Says(e)
               PROVE  \E j \in DOMAIN wire'[d] : wire'[d][j] = Announcement(e)
    BY <1>7, <1>8 DEF Coming
  <2>1. PICK j \in DOMAIN wire[d] : j > 1 /\ wire[d][j] = Announcement(e)
    BY <1>5 DEF PairOK, Followed
  <2>2. j # 1
    BY <1>5, <2>1
  <2> QED BY <1>5, <2>1, <2>2
<1>11. Coming(d, e) => Coming(d, e)'
  <2>1. CASE Says(e) \/ decrypting[d][e] > 0
    BY <1>6, <1>7, <2>1 DEF Coming
  <2>2. CASE \E k \in DOMAIN wire[d] : wire[d][k] = Announcement(e)
    <3>1. PICK k \in DOMAIN wire[d] : wire[d][k] = Announcement(e)
      BY <2>2
    <3>2. CASE k # 1
      BY <1>5, <1>8, <3>1, <3>2 DEF Coming
    <3>3. CASE k = 1
      <4>1. f.type = "presence" /\ f.of = e
        BY <1>5, <3>1, <3>3 DEF Announcement
      <4>2. decrypting'[d][e] > 0
        BY <1>1, <4>1, HandlePresenceTyped DEF RelayInv
      <4> QED BY <4>2 DEF Coming
    <3> QED BY <3>2, <3>3
  <2> QED BY <2>1, <2>2 DEF Coming
<1>12. Listed(d, e)'
  <2>1. CASE Unsettling(f)
    BY <1>10, <2>1 DEF Listed
  <2>2. CASE ~Unsettling(f)
    <3>1. /\ heartbeat' = heartbeat /\ stale' = stale
      BY <1>1, <2>2 DEF Unsettling, OnPeerChange, HandlePresence
    <3>2. Sound(d, e) => Sound(d, e)'
      BY <1>6, <3>1 DEF Sound, Roster
    <3> QED BY <1>11, <3>1, <3>2 DEF PairOK, Listed
  <2> QED BY <2>1, <2>2
<1> QED BY <1>9, <1>12 DEF PairOK

\* e takes a frame: if it is one that makes e speak, e does.
LEMMA HandleOtherPair ==
    ASSUME RelayInv, NEW d \in Devices, NEW e \in Devices, d # e, PairOK(d, e), HandleFrame(e)
    PROVE  PairOK(d, e)'
<1>1. PICK f : /\ f = Head(wire[e])
               /\ \/ f.type = "hello" /\ Start(e)
                  \/ f.type = "peer-joined" /\ OnPeerChange(e, FALSE)
                  \/ f.type = "peer-left" /\ OnPeerChange(e, TRUE)
                  \/ f.type = "presence" /\ HandlePresence(e, f.of)
  BY DEF HandleFrame
<1>2. /\ wire[e] # <<>> /\ wire' = [wire EXCEPT ![e] = Tail(@)]
  BY DEF HandleFrame
<1>3. /\ wire'[e] = Tail(wire[e]) /\ wire'[d] = wire[d] /\ f \in Frame
  BY <1>1, <1>2, TakenWiring, WiresTyped DEF RelayInv
<1>4. wire[e] \in Seq(Frame)
  BY DEF RelayInv, Wiring
<1>5. /\ f = wire[e][1]
      /\ \A k \in DOMAIN wire[e] :
            k # 1 => k - 1 \in DOMAIN wire'[e] /\ wire'[e][k - 1] = wire[e][k]
  BY <1>1, <1>2, <1>3, <1>4, TailIs
<1>6. CASE announcing'[e] > 0
  BY <1>6, SaysSettles DEF Says
<1>7. CASE ~(announcing'[e] > 0)
  <2>1. ~Announce(e)
    BY <1>7, AnnounceTyped DEF RelayInv, PresenceTypeOK
  <2>2. \/ f.type = "hello" /\ heartbeat[e] # Off /\ UNCHANGED presenceVars
        \/ f.type = "presence" /\ HandlePresence(e, f.of)
    BY <1>1, <2>1 DEF Start, OnPeerChange
  <2>3. f.of \in Devices
    BY <1>3 DEF Frame
  <2>4. /\ UNCHANGED <<age, stale, heartbeat, announcing>>
        /\ decrypting[d][e] > 0 => decrypting'[d][e] > 0
    BY <2>2, <2>3, HandlePresenceTyped DEF HandlePresence, presenceVars, RelayInv
  <2>5. Says(e) => Says(e)'
    <3> SUFFICES ASSUME Says(e) PROVE Says(e)'
      OBVIOUS
    <3>1. CASE announcing[e] > 0
      BY <2>4, <3>1 DEF Says
    <3>2. CASE \E k \in DOMAIN wire[e] :
                  \/ wire[e][k].type \in {"peer-joined", "peer-left"}
                  \/ wire[e][k].type = "hello" /\ heartbeat[e] = Off
      <4>1. PICK k \in DOMAIN wire[e] :
                  \/ wire[e][k].type \in {"peer-joined", "peer-left"}
                  \/ wire[e][k].type = "hello" /\ heartbeat[e] = Off
        BY <3>2
      <4>2. k # 1
        BY <1>5, <2>2, <4>1
      <4>3. k - 1 \in DOMAIN wire'[e] /\ wire'[e][k - 1] = wire[e][k]
        BY <1>5, <4>2
      <4> QED BY <2>4, <4>1, <4>3 DEF Says
    <3> QED BY <3>1, <3>2 DEF Says
  <2>6. Followed(d, e)'
    BY <1>3, <2>5 DEF PairOK, Followed, Announcement, Unsettling
  <2>7. Listed(d, e)'
    BY <1>3, <2>4, <2>5 DEF PairOK, Listed, Coming, Announcement, Sound, Roster
  <2> QED BY <2>6, <2>7 DEF PairOK
<1> QED BY <1>6, <1>7

LEMMA HandleFramePair ==
    ASSUME RelayInv, RostersOK, NEW x \in Devices, HandleFrame(x), ~lossy', NEW d, NEW e, Pair(d, e)'
    PROVE  PairOK(d, e)'
<1>1. lossy' = lossy /\ net' = net
  BY DEF HandleFrame, countVars, socketVars
<1>2. Pair(d, e) /\ d \in Devices /\ e \in Devices /\ d # e /\ PairOK(d, e)
  BY <1>1, PairWas DEF Pair
<1>3. CASE x = d
  BY <1>2, <1>3, HandleOwnPair
<1>4. CASE x = e
  BY <1>2, <1>4, HandleOtherPair
<1>5. CASE x # d /\ x # e
  <2>1. PICK f : /\ f = Head(wire[x])
                 /\ \/ f.type = "hello" /\ Start(x)
                    \/ f.type = "peer-joined" /\ OnPeerChange(x, FALSE)
                    \/ f.type = "peer-left" /\ OnPeerChange(x, TRUE)
                    \/ f.type = "presence" /\ HandlePresence(x, f.of)
    BY DEF HandleFrame
  <2>2. /\ wire[x] # <<>> /\ wire' = [wire EXCEPT ![x] = Tail(@)]
    BY DEF HandleFrame
  <2>3. wire'[d] = wire[d] /\ wire'[e] = wire[e] /\ f \in Frame
    BY <1>2, <1>5, <2>1, <2>2, TakenWiring, WiresTyped DEF RelayInv
  <2>4. /\ heartbeat'[d] = heartbeat[d] /\ heartbeat'[e] = heartbeat[e]
        /\ announcing[e] > 0 => announcing'[e] > 0
        /\ decrypting[d][e] > 0 => decrypting'[d][e] > 0
        /\ age' = age /\ stale'[d] = stale[d]
    <3>1. CASE Start(x)
      BY <1>2, <1>5, <3>1 DEF Start, presenceVars, Announce, RelayInv, PresenceTypeOK
    <3>2. CASE \E left \in BOOLEAN : OnPeerChange(x, left)
      BY <1>2, <1>5, <3>2 DEF OnPeerChange, Announce, RelayInv, PresenceTypeOK
    <3>3. CASE f.type = "presence" /\ HandlePresence(x, f.of)
      <4>1. f.of \in Devices
        BY <2>3 DEF Frame
      <4>2. decrypting[d][e] > 0 => decrypting'[d][e] > 0
        BY <1>2, <3>3, <4>1, HandlePresenceTyped DEF RelayInv
      <4> QED BY <3>3, <4>2 DEF HandlePresence
    <3> QED BY <2>1, <3>1, <3>2, <3>3
  <2>5. Sound(d, e) => Sound(d, e)'
    BY <1>2, <2>4, SoundStays
  <2>6. Grows(d) /\ Grows(e)
    BY <2>3 DEF Grows
  <2>7. \A g \in Frame : wire'[d] # Append(wire[d], g)
    <3>1. wire[d] \in Seq(Frame)
      BY <1>2 DEF RelayInv, Wiring
    <3> QED BY <2>3, <3>1, NotLonger
  <2> QED BY <1>2, <2>4, <2>5, <2>6, <2>7, QuietKeeps
<1> QED BY <1>3, <1>4, <1>5

LEMMA AnnouncedPair ==
    ASSUME RelayInv, RostersOK, NEW x \in Devices, Announced(x), ~lossy', NEW d, NEW e, Pair(d, e)'
    PROVE  PairOK(d, e)'
<1> DEFINE f == Announcement(x)
<1>1. /\ announcing' = [announcing EXCEPT ![x] = @ - 1]
      /\ net' = net /\ UNCHANGED <<age, stale, heartbeat, decrypting>>
      /\ \/ ~(ws[x] /\ net[x]) /\ wire' = wire /\ lossy' = lossy
         \/ wire' = Broadcast(sockets \ {x}, f) /\ lossy' = lossy
  BY DEF Announced, socketVars, Announcement
<1>2. /\ d \in Devices /\ e \in Devices /\ d # e /\ net[d] /\ net[e]
      /\ Pair(d, e) /\ PairOK(d, e)
  BY <1>1, PairWas DEF Pair
<1>3. \A y \in Devices : y # x => announcing'[y] = announcing[y]
  BY <1>1 DEF RelayInv, PresenceTypeOK
<1>4. Sound(d, e) => Sound(d, e)'
  BY <1>1, <1>2, SoundStays
<1>5. CASE ~(ws[x] /\ net[x]) /\ wire' = wire /\ lossy' = lossy
  <2>1. e # x
    BY <1>2, <1>5 DEF RelayInv, Ties
  <2> QED BY <1>1, <1>2, <1>3, <1>5, <2>1, SilentPair
<1>6. CASE wire' = Broadcast(sockets \ {x}, f) /\ lossy' = lossy
  <2>1. PICK g \in Frame : g = f
    BY DEF Announcement, Frame
  <2>2. wire' = Broadcast(sockets \ {x}, g)
    BY <1>6, <2>1
  <2>3. g.type = "presence" /\ ~Unsettling(g)
    BY <2>1 DEF Announcement, Unsettling
  <2>4. Grows(d) /\ Grows(e)
    BY <1>2, <2>2, GrowsAtBroadcast
  <2>5. wire[d] \in Seq(Frame) /\ d \in sockets
    BY <1>2 DEF RelayInv, Wiring, Ties
  <2>6. wire'[d] = IF d # x THEN Append(wire[d], g) ELSE wire[d]
    BY <1>2, <2>2, <2>5, GrowsAtBroadcast
  <2>7. CASE e # x
    <3>1. \A h \in Frame : wire'[d] = Append(wire[d], h) => ~Unsettling(h)
      <4> SUFFICES ASSUME NEW h \in Frame, wire'[d] = Append(wire[d], h) PROVE ~Unsettling(h)
        OBVIOUS
      <4>1. wire'[d] = Append(wire[d], g)
        BY <2>5, <2>6, NotLonger
      <4>2. /\ Append(wire[d], g)[Len(wire[d]) + 1] = g
            /\ Append(wire[d], h)[Len(wire[d]) + 1] = h
        BY <2>5, AppendIs
      <4>3. g = h
        BY <4>1, <4>2
      <4> QED BY <2>3, <4>3
    <3> QED BY <1>1, <1>2, <1>3, <1>4, <2>4, <2>7, <3>1, QuietKeeps
  <2>8. CASE e = x
    <3>1. wire'[d] = Append(wire[d], g) /\ g = Announcement(e)
      BY <1>2, <2>1, <2>6, <2>8
    <3>2. /\ DOMAIN Append(wire[d], g) = 1 .. Len(wire[d]) + 1
          /\ DOMAIN wire[d] = 1 .. Len(wire[d]) /\ Len(wire[d]) \in Nat
          /\ Append(wire[d], g)[Len(wire[d]) + 1] = g
      BY <2>5, AppendIs
    <3>3. /\ Len(wire[d]) + 1 \in DOMAIN wire'[d]
          /\ wire'[d][Len(wire[d]) + 1] = Announcement(e)
      BY <3>1, <3>2
    <3>4. Announcement(e)' = Announcement(e)
      BY DEF Announcement
    <3>5. Coming(d, e)'
      BY <3>3, <3>4 DEF Coming
    <3>6. Followed(d, e)'
      <4> SUFFICES ASSUME NEW k \in DOMAIN wire'[d], Unsettling(wire'[d][k])
                   PROVE  \E j \in DOMAIN wire'[d] : j > k /\ wire'[d][j] = Announcement(e)
        BY <3>4 DEF Followed, Unsettling
      <4>1. k # Len(wire[d]) + 1
        BY <2>3, <3>1, <3>2
      <4>2. Len(wire[d]) + 1 > k
        BY <3>1, <3>2, <4>1
      <4> QED BY <3>3, <4>2
    <3> QED BY <3>5, <3>6 DEF PairOK, Listed
  <2> QED BY <2>7, <2>8
<1> QED BY <1>1, <1>5, <1>6

\* A roster step of x that is quiet for d and e: the queues are as they were.
LEMMA RosterPair ==
    ASSUME RelayInv, RostersOK, ~lossy, NEW d, NEW e, Pair(d, e), wire' = wire,
           announcing[e] > 0 => announcing'[e] > 0,
           heartbeat[e] = Off <=> heartbeat'[e] = Off,
           heartbeat[d] = Off <=> heartbeat'[d] = Off,
           decrypting[d][e] > 0 => decrypting'[d][e] > 0,
           heartbeat[e] # Off /\ Sound(d, e) => Says(e)' \/ Sound(d, e)'
    PROVE  PairOK(d, e)'
<1>1. d \in Devices /\ e \in Devices /\ PairOK(d, e)
  BY PairWas DEF Pair
<1>2. Grows(d) /\ Grows(e)
  BY DEF Grows
<1>3. \A f \in Frame : wire'[d] # Append(wire[d], f)
  <2>1. wire[d] \in Seq(Frame)
    BY <1>1 DEF RelayInv, Wiring
  <2> QED BY <2>1, NotLonger
<1> QED BY <1>1, <1>2, <1>3, QuietKeeps

\* What has just been heard is sound.
LEMMA DecryptedPair ==
    ASSUME RelayInv, RostersOK, NEW x \in Devices, NEW y \in Devices, PresenceDecrypted(x, y),
           ~lossy', NEW d, NEW e, Pair(d, e)'
    PROVE  PairOK(d, e)'
<1>1. /\ lossy' = lossy /\ net' = net /\ wire' = wire
      /\ decrypting' = [decrypting EXCEPT ![x][y] = @ - 1]
      /\ age' = [age EXCEPT ![x][y] = 0]
      /\ stale' = [stale EXCEPT ![x] = @ \ {y}]
      /\ UNCHANGED <<heartbeat, announcing>>
  BY DEF PresenceDecrypted, Decrypted, socketVars, relayVars, countVars
<1>2. Pair(d, e) /\ d \in Devices /\ e \in Devices
  BY <1>1 DEF Pair
<1>3. /\ age \in [Devices -> [Devices -> Off .. Old]]
      /\ stale \in [Devices -> SUBSET Devices]
      /\ decrypting \in [Devices -> [Devices -> Nat]]
      /\ heartbeat[e] \in Off .. heartbeatMs
  BY <1>2 DEF RelayInv, PresenceTypeOK
<1>4. CASE x = d /\ y = e
  <2>1. age'[d][e] = 0 /\ e \notin stale'[d] /\ heartbeat'[e] = heartbeat[e]
    BY <1>1, <1>2, <1>3, <1>4
  <2>2. Sound(d, e)'
    BY <1>2, <1>3, <2>1, Delays DEF Sound, Roster
  <2>3. PairOK(d, e)
    BY <1>1, <1>2, PairWas
  <2>4. Followed(d, e)'
    BY <1>1, <2>3 DEF PairOK, Followed, Says, Announcement, Unsettling
  <2> QED BY <2>2, <2>4 DEF PairOK, Listed
<1>5. CASE ~(x = d /\ y = e)
  <2>1. decrypting'[d][e] = decrypting[d][e] /\ age'[d][e] = age[d][e]
    BY <1>1, <1>2, <1>3, <1>5
  <2>2. e \in stale'[d] => e \in stale[d]
    BY <1>1, <1>2, <1>3
  <2>3. Sound(d, e) => Sound(d, e)'
    BY <1>1, <1>2, <2>1, <2>2, SoundStays
  <2> QED BY <1>1, <1>2, <2>1, <2>3, RosterPair
<1> QED BY <1>4, <1>5

\* An entry that e renews in time is not swept, nor pruned.
LEMMA TimerPair ==
    ASSUME heartbeatMs <= ttlMs,
           RelayInv, RostersOK, NEW x \in Devices, TimerFires(x), ~lossy', NEW d, NEW e, Pair(d, e)'
    PROVE  PairOK(d, e)'
<1>1. /\ lossy' = lossy /\ net' = net /\ wire' = wire
      /\ Heartbeat(x) \/ Sweep(x) \/ Prune(x)
  BY DEF TimerFires, socketVars, relayVars, countVars
<1>2. Pair(d, e) /\ d \in Devices /\ e \in Devices
  BY <1>1 DEF Pair
<1>3. /\ PresenceTypeOK
      /\ stale \in [Devices -> SUBSET Devices]
      /\ heartbeat \in [Devices -> Off .. heartbeatMs]
      /\ announcing \in [Devices -> Nat]
      /\ age \in [Devices -> [Devices -> Off .. Old]]
  BY DEF RelayInv, PresenceTypeOK
<1>4. CASE Heartbeat(x)
  <2>1. /\ heartbeat[x] = 0 /\ heartbeat' = [heartbeat EXCEPT ![x] = heartbeatMs]
        /\ Announce(x)
        /\ UNCHANGED <<age, stale, decrypting>>
    BY <1>4 DEF Heartbeat
  <2>2. CASE e = x
    BY <1>3, <2>1, <2>2, AnnounceTyped, SaysSettles DEF Says
  <2>3. CASE e # x
    <3>1. heartbeat'[e] = heartbeat[e] /\ (heartbeat[d] = Off <=> heartbeat'[d] = Off)
      BY <1>2, <1>3, <2>1, <2>3, Delays
    <3>2. announcing[e] > 0 => announcing'[e] > 0
      BY <1>2, <1>3, <2>1, AnnounceTyped
    <3>3. Sound(d, e) => Sound(d, e)'
      BY <1>2, <2>1, <3>1, SoundStays
    <3> QED BY <1>1, <1>2, <2>1, <3>1, <3>2, <3>3, RosterPair
  <2> QED BY <2>2, <2>3
<1>5. CASE Sweep(x)
  <2>1. /\ Forget(x, Expired(x)) /\ stale' = [stale EXCEPT ![x] = @ \ Expired(x)]
        /\ UNCHANGED <<heartbeat, announcing, decrypting>>
    BY <1>5 DEF Sweep
  <2>2. age'[d][e] = IF d = x /\ e \in Expired(x) THEN Off ELSE age[d][e]
    BY <1>2, <1>3, <2>1, ForgetTyped
  <2>3. e \in stale'[d] => e \in stale[d]
    BY <1>2, <1>3, <2>1
  <2>4. heartbeat[e] # Off /\ Sound(d, e) => e \notin Expired(d)
    <3>1. heartbeat[e] \in Off .. heartbeatMs /\ age[d][e] \in Off .. Old
      BY <1>2, <1>3
    <3> QED BY <3>1, Delays DEF Sound, Expired
  <2>5. heartbeat[e] # Off /\ Sound(d, e) => Sound(d, e)'
    BY <1>2, <2>1, <2>2, <2>3, <2>4, SoundStays
  <2> QED BY <1>1, <1>2, <2>1, <2>5, RosterPair
<1>6. CASE Prune(x)
  <2>1. /\ Forget(x, stale[x]) /\ stale' = [stale EXCEPT ![x] = {}]
        /\ UNCHANGED <<heartbeat, announcing, decrypting>>
    BY <1>6 DEF Prune
  <2>2. age'[d][e] = IF d = x /\ e \in stale[x] THEN Off ELSE age[d][e]
    BY <1>2, <1>3, <2>1, ForgetTyped
  <2>3. e \in stale'[d] => e \in stale[d]
    BY <1>2, <1>3, <2>1
  <2>4. Sound(d, e) => e \notin stale[d]
    BY DEF Sound
  <2>5. Sound(d, e) => Sound(d, e)'
    BY <1>2, <2>1, <2>2, <2>3, <2>4, SoundStays
  <2> QED BY <1>1, <1>2, <2>1, <2>5, RosterPair
<1> QED BY <1>1, <1>4, <1>5, <1>6

LEMMA ChatPair ==
    ASSUME RelayInv, RostersOK, NEW x \in Devices, Chat(x), ~lossy', NEW d, NEW e, Pair(d, e)'
    PROVE  PairOK(d, e)'
<1>1. /\ lossy' = lossy /\ net' = net /\ wire' = wire
      /\ UNCHANGED <<age, stale, heartbeat, announcing, decrypting>>
  BY DEF Chat, presenceVars, socketVars
<1>2. Pair(d, e)
  BY <1>1 DEF Pair
<1> QED BY <1>1, <1>2, SilentPair

LEMMA RenamePair ==
    ASSUME RelayInv, RostersOK, NEW x \in Devices, Rename(x), ~lossy', NEW d, NEW e, Pair(d, e)'
    PROVE  PairOK(d, e)'
<1>1. /\ lossy' = lossy /\ net' = net /\ wire' = wire /\ Announce(x)
      /\ UNCHANGED <<age, stale, heartbeat, decrypting>>
  BY DEF Rename, relayVars, socketVars
<1>2. Pair(d, e) /\ e \in Devices
  BY <1>1 DEF Pair
<1>3. announcing[e] > 0 => announcing'[e] > 0
  BY <1>1, <1>2, AnnounceTyped DEF RelayInv, PresenceTypeOK
<1> QED BY <1>1, <1>2, <1>3, SilentPair

\* Nothing is on its way: what d has of e is sound, and a heartbeat is not due yet.
LEMMA CalmSound ==
    ASSUME RostersOK, ~lossy, Calm, NEW d, NEW e, Pair(d, e), heartbeat[d] # Off, heartbeat[e] # Off
    PROVE  Sound(d, e)
<1>1. d \in Devices /\ e \in Devices /\ Listed(d, e)
  BY PairWas DEF Pair, PairOK
<1>2. /\ wire[d] = <<>> /\ wire[e] = <<>> /\ announcing[e] = 0 /\ decrypting[d][e] = 0
  BY <1>1 DEF Calm
<1>3. DOMAIN wire[d] = {} /\ DOMAIN wire[e] = {}
  BY <1>2
<1>4. ~Coming(d, e)
  BY <1>2, <1>3 DEF Coming, Says
<1> QED BY <1>1, <1>4 DEF Listed

LEMMA TickPair ==
    ASSUME RelayInv, RostersOK, Tick, ~lossy', NEW d, NEW e, Pair(d, e)'
    PROVE  PairOK(d, e)'
<1>1. /\ lossy' = lossy /\ net' = net /\ wire' = wire /\ Calm /\ Elapse
      /\ ~Due /\ heartbeat' = Countdown(heartbeat) /\ stale' = stale
  BY DEF Tick, Elapse, socketVars, countVars
<1>2. Pair(d, e) /\ d \in Devices /\ e \in Devices
  BY <1>1 DEF Pair
<1>3. Followed(d, e)'
  <2>1. wire'[d] = <<>>
    BY <1>1, <1>2 DEF Calm
  <2>2. DOMAIN wire'[d] = {}
    BY <2>1
  <2> QED BY <2>2 DEF Followed
<1>4. Listed(d, e)'
  <2> SUFFICES ASSUME heartbeat'[d] # Off, heartbeat'[e] # Off PROVE Sound(d, e)'
    BY DEF Listed, Off
  <2>1. heartbeat[d] \in Off .. heartbeatMs /\ heartbeat[e] \in Off .. heartbeatMs
    BY <1>2 DEF RelayInv, PresenceTypeOK
  <2>2. /\ heartbeat'[d] = IF heartbeat[d] > 0 THEN heartbeat[d] - 1 ELSE heartbeat[d]
        /\ heartbeat'[e] = IF heartbeat[e] > 0 THEN heartbeat[e] - 1 ELSE heartbeat[e]
    BY <1>1, <1>2 DEF Countdown
  <2>3. heartbeat[d] # Off /\ heartbeat[e] # Off
    BY <2>1, <2>2, Delays
  <2>4. heartbeat[e] # 0
    BY <1>1, <1>2 DEF Due
  <2>5. Sound(d, e)
    BY <1>1, <1>2, <2>3, CalmSound
  <2>6. /\ age[d][e] \in Off .. Old /\ age'[d][e] \in Off .. Old
        /\ age[d][e] = Off <=> age'[d][e] = Off
        /\ age'[d][e] <= age[d][e] + 1
    BY <1>1, <1>2, ElapseAges DEF RelayInv, PresenceTypeOK
  <2>7. age'[d][e] + heartbeat'[e] <= heartbeatMs
    BY <2>1, <2>2, <2>3, <2>4, <2>5, <2>6, Delays DEF Sound
  <2> QED BY <1>1, <1>2, <2>5, <2>6, <2>7 DEF Sound, Roster, Off
<1> QED BY <1>3, <1>4 DEF PairOK

LEMMA RostersNextOK ==
    ASSUME heartbeatMs <= ttlMs, RelayInv, RostersOK, [Next]_vars
    PROVE  RostersOK'
<1> SUFFICES ASSUME ~lossy', NEW d, NEW e, Pair(d, e)' PROVE PairOK(d, e)'
  BY DEF RostersOK, Pair, PairOK
<1>1. CASE Tick
  BY <1>1, TickPair
<1>2. CASE \E x \in Devices : Connection(x)
  <2>1. PICK x \in Devices : Connection(x)
    BY <1>2
  <2>2. CASE Connect(x)
    BY <2>2, ConnectPair
  <2>3. CASE ConnectFails(x) \/ ClientCloses(x) \/ Disconnect(x)
    BY <2>3, LeavesPair
  <2>4. CASE NetFails(x)
    BY <2>4, NetFailsPair
  <2>5. CASE RelayCloses(x)
    BY <2>5, RelayClosesPair
  <2> QED BY <2>1, <2>2, <2>3, <2>4, <2>5 DEF Connection
<1>3. CASE \E x \in Devices : Client(x)
  <2>1. PICK x \in Devices : Client(x)
    BY <1>3
  <2>2. CASE HandleFrame(x)
    BY <2>2, HandleFramePair
  <2>3. CASE Announced(x)
    BY <2>3, AnnouncedPair
  <2>4. CASE TimerFires(x)
    BY <2>4, TimerPair
  <2>5. CASE Chat(x)
    BY <2>5, ChatPair
  <2>6. CASE Rename(x)
    BY <2>6, RenamePair
  <2>7. CASE \E y \in Devices : PresenceDecrypted(x, y)
    BY <2>7, DecryptedPair
  <2> QED BY <2>1, <2>2, <2>3, <2>4, <2>5, <2>6, <2>7 DEF Client
<1>4. CASE UNCHANGED vars
  <2>1. /\ lossy' = lossy /\ net' = net /\ wire' = wire
        /\ UNCHANGED <<age, stale, heartbeat, announcing, decrypting>>
    BY <1>4 DEF vars, presenceVars, socketVars, relayVars, countVars
  <2>2. Pair(d, e)
    BY <2>1 DEF Pair
  <2> QED BY <2>1, <2>2, SilentPair
<1> QED BY <1>1, <1>2, <1>3, <1>4 DEF Next

-----------------------------------------------------------------------------
(* The theorems. *)

LEMMA RelayTyped == RelayInv => TypeOK
  BY DEF RelayInv, Switches, Wiring, Seats, HitsOK, Hits, Counts, TypeOK

\* The variables keep their types, no device lists itself or means to prune whom
\* it does not list, and the relay keeps its limits: no more sockets than maxPeers,
\* ghosts included, and no more frames of a socket in the window than frameLimit.
THEOREM TypeCorrect == Spec => []TypeOK
<1>1. Init => RelayInv
  BY RelayInitOK
<1>2. RelayInv /\ [Next]_vars => RelayInv'
  BY RelayNextOK
<1> QED BY <1>1, <1>2, RelayTyped, PTL DEF Spec

\* In a room of any size, whatever connects, breaks, leaves and comes back, and
\* whichever timers fire: once everything is handled, any two devices in the room
\* list each other, unless an announcement was dropped by the window.  It takes a
\* heartbeat no longer than an entry lives, as the defaults of presence.ts are.
THEOREM NobodyIsMissing == ASSUME heartbeatMs <= ttlMs PROVE Spec => []NobodyMissing
<1>1. Init => IInv
  <2>1. Init => RostersOK
    BY DEF Init, RostersOK
  <2> QED BY <2>1, RelayInitOK DEF IInv
<1>2. IInv /\ [Next]_vars => IInv'
  BY RelayNextOK, RostersNextOK DEF IInv
<1>3. IInv => NobodyMissing
  <2> SUFFICES ASSUME IInv, Calm, ~lossy, NEW d \in Devices, NEW e \in Devices,
                      d # e, Here(d), Here(e)
               PROVE  e \in Roster(d)
    BY DEF NobodyMissing
  <2>1. Pair(d, e) /\ heartbeat[d] # Off /\ heartbeat[e] # Off
    BY DEF Here, Pair
  <2>2. Sound(d, e)
    BY <2>1, CalmSound DEF IInv
  <2> QED BY <2>2 DEF Sound
<1> QED BY <1>1, <1>2, <1>3, PTL DEF Spec
=============================================================================
