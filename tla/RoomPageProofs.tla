--------------------------- MODULE RoomPageProofs ---------------------------
(***************************************************************************)
(* Proofs about RoomPage, for lists, quotas and saves of any length.       *)
(*                                                                         *)
(* No invariant of the run is inductive, since each leaves out the moments *)
(* in which a pin or a save is under way.  Alike says what holds then: the *)
(* store is the list with the pin that is being saved.  What the page does *)
(* meanwhile, dropping items, commutes with pinning (PinAndDrop).  Kept    *)
(* items are pinned in the store, and on the page unless their pin is the  *)
(* one being saved (KeptPinned); evictions take what is not pinned.  And   *)
(* the last save under way has what the store has (LastSave).              *)
(***************************************************************************)
EXTENDS RoomPage, SequenceTheorems, WellFoundedInduction, TLAPS

\* No id twice.
OneEach(s) == \A j, k \in DOMAIN s : s[j].id = s[k].id => j = k

ItemLists == {s \in Lists : OneEach(s)}

Afters ==
    {a \in [op : {"nothing", "schedule", "delete", "pin", "unpin"}, id : Ids \cup {0}] :
        a.op # "nothing" => a.id \in Ids}

Saves == [list : ItemLists, after : Afters]

\* TypeOK, of lists without duplicates, and of saves with what they are followed by.
PageTypes ==
    /\ ephemeral \in BOOLEAN /\ ephemeralOn \in BOOLEAN
    /\ page \in {"loading", "mounted", "left"}
    /\ loading \in ItemLists /\ reloads \in 0 .. MaxReloads

ListTypes == items \in ItemLists /\ pending \in SUBSET Ids /\ expiring \in SUBSET Ids

StoreTypes == store \in ItemLists /\ disk \in ItemLists /\ saving \in Seq(Saves)

ClientTypes ==
    socket \in {"down", "open", "greeted"} /\ unsent \in SUBSET Ids /\ known \in 0 .. MaxItems

Typed ==
    PageTypes /\ ListTypes /\ StoreTypes /\ ClientTypes /\ kept \in SUBSET Ids /\ shed \in BOOLEAN

-----------------------------------------------------------------------------
(* Sequences. *)

LEMMA Bounds ==
    /\ ITEMS_CAP \in Nat \ {0} /\ QUOTA \in Nat \ {0} /\ MaxItems \in Nat
    /\ MaxSaves \in Nat /\ MaxReloads \in Nat
  BY PageAssumption DEF PageAssumption

Less == {p \in Nat \X Nat : p[1] < p[2]}

\* The first index of some.
LEMMA MinIs ==
    ASSUME NEW I \in SUBSET Nat, I # {}
    PROVE  Min(I) \in I /\ \A j \in I : Min(I) <= j
<1>1. IsWellFoundedOn(Less, Nat)
  BY NatLessThanWellFounded DEF OpToRel, Less
<1>2. PICK k \in I : \A j \in I : ~(<<j, k>> \in Less)
  <2> HIDE DEF Less
  <2> QED BY <1>1, WFMin
<1>3. \A j \in I : k <= j
  <2> SUFFICES ASSUME NEW j \in I, ~(k <= j) PROVE FALSE
    OBVIOUS
  <2>1. j \in Nat /\ k \in Nat /\ j < k
    OBVIOUS
  <2> QED BY <1>2, <2>1 DEF Less
<1> QED BY <1>3 DEF Min

\* What is left when the k-th is taken out.
LEMMA RemoveAtIs ==
    ASSUME NEW T, NEW s \in Seq(T), NEW k \in 1 .. Len(s), NEW r, r = RemoveAt(s, k)
    PROVE  /\ r \in Seq(T) /\ Len(r) = Len(s) - 1
           /\ DOMAIN r = 1 .. Len(s) - 1
           /\ \A j \in 1 .. k - 1 : r[j] = s[j]
           /\ \A j \in k .. Len(s) - 1 : r[j] = s[j + 1]
<1>1. Len(s) \in Nat /\ DOMAIN s = 1 .. Len(s) /\ \A i \in 1 .. Len(s) : s[i] \in T
  BY LenProperties, ElementOfSeq
<1>2. PICK a : a = SubSeq(s, 1, k - 1)
  OBVIOUS
<1>3. PICK b : b = SubSeq(s, k + 1, Len(s))
  OBVIOUS
<1>4. /\ a \in Seq(T) /\ Len(a) = k - 1 /\ \A i \in 1 .. k - 1 : a[i] = s[i]
  BY <1>1, <1>2, SubSeqProperties
<1>5. /\ b \in Seq(T) /\ Len(b) = Len(s) - k /\ \A i \in 1 .. Len(s) - k : b[i] = s[k + i]
  <2>1. /\ b \in Seq(T) /\ Len(b) = IF k + 1 <= Len(s) THEN Len(s) - (k + 1) + 1 ELSE 0
        /\ \A i \in 1 .. Len(s) - (k + 1) + 1 : b[i] = s[k + 1 + i - 1]
    BY <1>1, <1>3, SubSeqProperties
  <2>2. Len(s) - (k + 1) + 1 = Len(s) - k
    BY <1>1
  <2>4. Len(b) = Len(s) - k
    <3>1. CASE k + 1 <= Len(s)
      BY <2>1, <2>2, <3>1
    <3>2. CASE k = Len(s)
      BY <1>1, <2>1, <3>2
    <3>3. k + 1 <= Len(s) \/ k = Len(s)
      <4>1. Len(s) \in Nat
        BY <1>1
      <4> QED BY <4>1
    <3> QED BY <3>1, <3>2, <3>3
  <2>3. ASSUME NEW i \in 1 .. Len(s) - k PROVE b[i] = s[k + i]
    <3>1. k + 1 + i - 1 = k + i
      BY <1>1
    <3>2. b[i] = s[k + 1 + i - 1]
      BY <2>1, <2>2
    <3> QED BY <3>1, <3>2
  <2> QED BY <2>1, <2>3, <2>4
<1>6. r = a \o b
  BY <1>2, <1>3 DEF RemoveAt
<1>7. /\ r \in Seq(T) /\ Len(r) = Len(a) + Len(b)
      /\ \A i \in 1 .. Len(a) + Len(b) : (a \o b)[i] = IF i <= Len(a) THEN a[i] ELSE b[i - Len(a)]
  BY <1>4, <1>5, <1>6, ConcatProperties
<1>8. Len(r) = Len(s) - 1 /\ DOMAIN r = 1 .. Len(s) - 1
  <2>1. Len(r) = Len(s) - 1
    BY <1>1, <1>4, <1>5, <1>7
  <2>2. DOMAIN r = 1 .. Len(r)
    BY <1>7, LenProperties
  <2> QED BY <2>1, <2>2
<1>9. ASSUME NEW j \in 1 .. k - 1 PROVE r[j] = s[j]
  BY <1>1, <1>4, <1>5, <1>6, <1>7
<1>10. ASSUME NEW j \in k .. Len(s) - 1 PROVE r[j] = s[j + 1]
  <2>1. j - (k - 1) \in 1 .. Len(s) - k /\ k + (j - (k - 1)) = j + 1
    BY <1>1
  <2>2. b[j - (k - 1)] = s[k + (j - (k - 1))]
    BY <1>5, <2>1
  <2>3. r[j] = b[j - (k - 1)]
    BY <1>1, <1>4, <1>5, <1>6, <1>7
  <2> QED BY <2>1, <2>2, <2>3
<1> QED BY <1>7, <1>8, <1>9, <1>10

\* The elements that are left are those at the other places.
LEMMA OthersStay ==
    ASSUME NEW T, NEW s \in Seq(T), NEW k \in 1 .. Len(s), NEW r, r = RemoveAt(s, k)
    PROVE  /\ \A i \in DOMAIN s : i # k => \E j \in DOMAIN r : r[j] = s[i]
           /\ \A j \in DOMAIN r : \E i \in DOMAIN s : i # k /\ r[j] = s[i]
<1>1. /\ Len(s) \in Nat /\ DOMAIN s = 1 .. Len(s) /\ DOMAIN r = 1 .. Len(s) - 1
      /\ \A j \in 1 .. k - 1 : r[j] = s[j]
      /\ \A j \in k .. Len(s) - 1 : r[j] = s[j + 1]
  <2>1. /\ DOMAIN r = 1 .. Len(s) - 1
        /\ \A j \in 1 .. k - 1 : r[j] = s[j]
      /\ \A j \in k .. Len(s) - 1 : r[j] = s[j + 1]
    BY RemoveAtIs
  <2> QED BY <2>1, LenProperties
<1>2. ASSUME NEW i \in DOMAIN s, i # k PROVE \E j \in DOMAIN r : r[j] = s[i]
  <2>1. CASE i < k
    BY <1>1, <2>1
  <2>2. CASE i > k
    <3>1. i - 1 \in DOMAIN r /\ ~(i - 1 < k) /\ (i - 1) + 1 = i
      BY <1>1, <2>2
    <3> QED BY <1>1, <3>1
  <2> QED BY <1>1, <1>2, <2>1, <2>2
<1>3. ASSUME NEW j \in DOMAIN r PROVE \E i \in DOMAIN s : i # k /\ r[j] = s[i]
  <2>1. CASE j < k
    BY <1>1, <2>1
  <2>2. CASE ~(j < k)
    <3>1. j + 1 \in DOMAIN s /\ j + 1 # k
      BY <1>1, <2>2
    <3> QED BY <1>1, <2>2, <3>1
  <2> QED BY <2>1, <2>2
<1> QED BY <1>2, <1>3

LEMMA AppendIs ==
    ASSUME NEW T, NEW s \in Seq(T), NEW e \in T, NEW r, r = Append(s, e)
    PROVE  /\ r \in Seq(T) /\ Len(r) = Len(s) + 1 /\ Len(s) \in Nat
           /\ DOMAIN r = 1 .. Len(s) + 1 /\ DOMAIN s = 1 .. Len(s)
           /\ r[Len(s) + 1] = e /\ \A i \in 1 .. Len(s) : r[i] = s[i]
  BY AppendProperties, LenProperties

-----------------------------------------------------------------------------
(* Lists of items. *)

LEMMA ListIs ==
    \A s : s \in Lists <=> s \in Seq(Item) /\ Len(s) <= ITEMS_CAP
<1> SUFFICES ASSUME NEW s PROVE s \in Lists <=> s \in Seq(Item) /\ Len(s) <= ITEMS_CAP
  OBVIOUS
<1>1. ASSUME s \in Lists PROVE s \in Seq(Item) /\ Len(s) <= ITEMS_CAP
  <2>1. PICK n \in 0 .. ITEMS_CAP : s \in [1 .. n -> Item]
    BY <1>1 DEF Lists
  <2>2. n \in Nat /\ s \in Seq(Item)
    BY <2>1, Bounds, SeqDef
  <2>3. Len(s) = n
    BY <2>1, <2>2, LenProperties
  <2> QED BY <2>1, <2>2, <2>3, Bounds
<1>2. ASSUME s \in Seq(Item), Len(s) <= ITEMS_CAP PROVE s \in Lists
  <2>1. Len(s) \in 0 .. ITEMS_CAP /\ s \in [1 .. Len(s) -> Item]
    BY <1>2, LenProperties, Bounds
  <2> QED BY <2>1 DEF Lists
<1> QED BY <1>1, <1>2

LEMMA NoItems == <<>> \in ItemLists /\ <<>> \in Seq(Saves)
<1>1. <<>> \in Seq(Item) /\ Len(<<>>) <= ITEMS_CAP /\ <<>> \in Seq(Saves)
  BY EmptySeq, Bounds
<1>2. OneEach(<<>>)
  BY DEF OneEach
<1> QED BY <1>1, <1>2, ListIs DEF ItemLists

LEMMA RemovedOnce ==
    ASSUME NEW s \in Seq(Item), OneEach(s), NEW k \in 1 .. Len(s)
    PROVE  /\ RemoveAt(s, k) \in Seq(Item) /\ OneEach(RemoveAt(s, k))
           /\ Len(RemoveAt(s, k)) = Len(s) - 1
<1>1. PICK r : r = RemoveAt(s, k)
  OBVIOUS
<1>2. /\ r \in Seq(Item) /\ Len(r) = Len(s) - 1 /\ DOMAIN r = 1 .. Len(s) - 1
      /\ \A j \in 1 .. k - 1 : r[j] = s[j]
      /\ \A j \in k .. Len(s) - 1 : r[j] = s[j + 1]
  BY <1>1, RemoveAtIs
<1>3. DOMAIN s = 1 .. Len(s) /\ Len(s) \in Nat
  BY LenProperties
<1>4. ASSUME NEW i \in DOMAIN r, NEW j \in DOMAIN r, r[i].id = r[j].id PROVE i = j
  <2> DEFINE At(n) == IF n < k THEN n ELSE n + 1
  <2>1. /\ At(i) \in DOMAIN s /\ At(j) \in DOMAIN s /\ r[i] = s[At(i)] /\ r[j] = s[At(j)]
    BY <1>2, <1>3
  <2>2. At(i) = At(j)
    <3> HIDE DEF At
    <3> QED BY <1>4, <2>1 DEF OneEach
  <2> QED BY <1>2, <1>3, <2>2
<1>5. OneEach(r)
  BY <1>4 DEF OneEach
<1> QED BY <1>1, <1>2, <1>5

\* The first item that passes the test, if one does, goes.
LEMMA EvictIs ==
    ASSUME NEW s \in Seq(Item)
    PROVE  IF \E k \in DOMAIN s : ~s[k].pinned
           THEN \E k \in 1 .. Len(s) :
                    ~s[k].pinned /\ RemoveFirstMatch(s, Unpinned) = RemoveAt(s, k)
           ELSE RemoveFirstMatch(s, Unpinned) = s
<1>1. DOMAIN s = 1 .. Len(s) /\ Len(s) \in Nat
  BY LenProperties
<1>2. CASE \E k \in DOMAIN s : ~s[k].pinned
  <2>1. PICK I : I = {i \in 1 .. Len(s) : ~s[i].pinned}
    OBVIOUS
  <2>2. I \in SUBSET Nat /\ I # {}
    BY <1>1, <1>2, <2>1
  <2>3. Min(I) \in I
    BY <2>2, MinIs
  <2>4. RemoveFirstMatch(s, Unpinned) = RemoveAt(s, Min(I))
    BY <1>1, <1>2, <2>1, <2>2 DEF RemoveFirstMatch, SelectInSeq, Unpinned
  <2> QED BY <1>2, <2>1, <2>3, <2>4
<1>3. CASE ~\E k \in DOMAIN s : ~s[k].pinned
  BY <1>1, <1>3 DEF RemoveFirstMatch, SelectInSeq, Unpinned
<1> QED BY <1>2, <1>3

\* Where the id is first.
Place(s, id) == {i \in 1 .. Len(s) : s[i].id = id}

LEMMA WithoutIs ==
    ASSUME NEW s \in Seq(Item), NEW id
    PROVE  /\ id \in IdsOf(s) => /\ Min(Place(s, id)) \in 1 .. Len(s)
                                 /\ s[Min(Place(s, id))].id = id
                                 /\ Without(s, id) = RemoveAt(s, Min(Place(s, id)))
           /\ id \notin IdsOf(s) => Without(s, id) = s
<1>1. DOMAIN s = 1 .. Len(s) /\ Len(s) \in Nat
  BY LenProperties
<1>2. ASSUME id \in IdsOf(s)
      PROVE  /\ Min(Place(s, id)) \in 1 .. Len(s)
             /\ s[Min(Place(s, id))].id = id
             /\ Without(s, id) = RemoveAt(s, Min(Place(s, id)))
  <2>1. PICK I : I = Place(s, id)
    OBVIOUS
  <2>2. I \in SUBSET Nat /\ I # {}
    BY <1>1, <1>2, <2>1 DEF IdsOf, Place
  <2>3. Min(I) \in I
    BY <2>2, MinIs
  <2>4. Without(s, id) = RemoveAt(s, Min(I))
    BY <1>1, <1>2, <2>1, <2>2 DEF Without, RemoveFirstMatch, SelectInSeq, Place
  <2> QED BY <2>1, <2>3, <2>4 DEF Place
<1>3. ASSUME id \notin IdsOf(s) PROVE Without(s, id) = s
  BY <1>1, <1>3 DEF Without, RemoveFirstMatch, SelectInSeq, IdsOf
<1> QED BY <1>2, <1>3

LEMMA WithPinIs ==
    ASSUME NEW s \in Seq(Item), NEW id, NEW p \in BOOLEAN, NEW r, r = WithPin(s, id, p)
    PROVE  /\ r \in Seq(Item) /\ Len(r) = Len(s) /\ DOMAIN r = DOMAIN s
           /\ \A k \in DOMAIN s : r[k].id = s[k].id
           /\ \A k \in DOMAIN s : r[k] = IF s[k].id = id THEN [s[k] EXCEPT !.pinned = p] ELSE s[k]
<1>1. DOMAIN s = 1 .. Len(s) /\ Len(s) \in Nat /\ \A k \in 1 .. Len(s) : s[k] \in Item
  BY LenProperties, ElementOfSeq
<1>2. /\ DOMAIN r = DOMAIN s
      /\ \A k \in DOMAIN s : r[k] = IF s[k].id = id THEN [s[k] EXCEPT !.pinned = p] ELSE s[k]
  BY DEF WithPin
<1>3. \A k \in DOMAIN s : r[k] \in Item /\ r[k].id = s[k].id
  BY <1>1, <1>2 DEF Item
<1>4. r \in [1 .. Len(s) -> Item]
  <2>1. r = [k \in 1 .. Len(s) |-> r[k]]
    BY <1>1 DEF WithPin
  <2> QED BY <1>1, <1>3, <2>1
<1>5. r \in Seq(Item)
  BY <1>1, <1>4, SeqDef
<1>6. Len(r) = Len(s)
  BY <1>1, <1>4, <1>5, LenProperties
<1> QED BY <1>2, <1>3, <1>5, <1>6

-----------------------------------------------------------------------------
(* The invariants. *)

\* What a page is in each of its phases, if the user is calm.
Phases ==
    /\ page = "loading" => /\ items = <<>> /\ store = <<>> /\ saving = <<>> /\ loading = disk
                           /\ kept = {} /\ ~ephemeralOn
    /\ page = "left" => saving = <<>> /\ kept = {}
    /\ socket # "down" => page = "mounted"
    /\ ephemeralOn => ephemeral
    /\ ~ephemeralOn => expiring = {}

IsPin(a) == a.op \in {"pin", "unpin"}

\* The pins among the saves, of which there is only one.
Pins(saves) == {saves[k].after : k \in {j \in DOMAIN saves : IsPin(saves[j].after)}}

OnePin(saves) ==
    \A j, k \in DOMAIN saves : IsPin(saves[j].after) /\ IsPin(saves[k].after) => j = k

\* The list is the store's, but for the pin that is being saved.
Alike ==
    page = "mounted" /\ ~ephemeralOn /\ ~shed =>
        /\ Pins(saving) = {} => items = store
        /\ \A a \in Pins(saving) : store = WithPin(items, a.id, a.op = "pin")

\* What is kept is pinned in both, but for the pin that is being saved.
KeptPinned ==
    ~ephemeralOn => \A id \in kept :
        /\ id \in IdsOf(items) /\ PinOf(store, id)
        /\ PinOf(items, id) \/ After("pin", id) \in Pins(saving)
        /\ After("unpin", id) \notin Pins(saving)

CalmInv == Phases /\ OnePin(saving) /\ Alike /\ KeptPinned

\* The last save under way has what the store has.
LastSave ==
    page # "loading" /\ ~ephemeralOn =>
        IF saving = <<>> THEN disk = store ELSE saving[Len(saving)].list = store

-----------------------------------------------------------------------------
(* What the operations on lists keep. *)

LEMMA ItemListIs ==
    ASSUME NEW s \in ItemLists
    PROVE  /\ s \in Lists /\ s \in Seq(Item) /\ Len(s) <= ITEMS_CAP /\ OneEach(s)
           /\ Len(s) \in Nat /\ DOMAIN s = 1 .. Len(s)
           /\ \A k \in DOMAIN s : s[k] \in Item /\ s[k].id \in Ids /\ s[k].pinned \in BOOLEAN
<1>1. s \in Lists /\ s \in Seq(Item) /\ Len(s) <= ITEMS_CAP /\ OneEach(s)
  BY ListIs DEF ItemLists
<1>2. Len(s) \in Nat /\ DOMAIN s = 1 .. Len(s) /\ \A k \in 1 .. Len(s) : s[k] \in Item
  BY <1>1, LenProperties, ElementOfSeq
<1> QED BY <1>1, <1>2 DEF Item

LEMMA IsItemList ==
    ASSUME NEW s \in Seq(Item), Len(s) <= ITEMS_CAP, OneEach(s) PROVE s \in ItemLists
  BY ListIs DEF ItemLists

LEMMA PinnedShown == \A s, x : PinOf(s, x) => x \in IdsOf(s)
  BY DEF PinOf, IdsOf

\* An item that is not taken out stays, with its pin.
LEMMA RemovedKeeps ==
    ASSUME NEW s \in Seq(Item), NEW k \in 1 .. Len(s), NEW x, s[k].id # x
    PROVE  /\ x \in IdsOf(s) => x \in IdsOf(RemoveAt(s, k))
           /\ PinOf(s, x) => PinOf(RemoveAt(s, k), x)
<1>1. PICK r : r = RemoveAt(s, k)
  OBVIOUS
<1>2. \A i \in DOMAIN s : i # k => \E j \in DOMAIN r : r[j] = s[i]
  BY <1>1, OthersStay
<1>3. x \in IdsOf(s) => x \in IdsOf(r)
  BY <1>2 DEF IdsOf
<1>4. PinOf(s, x) => PinOf(r, x)
  BY <1>2 DEF PinOf
<1> QED BY <1>1, <1>3, <1>4

\* Nor does one that is pinned, when one that is not goes.
LEMMA UnpinnedGoes ==
    ASSUME NEW s \in Seq(Item), OneEach(s), NEW k \in 1 .. Len(s), ~s[k].pinned, NEW x, PinOf(s, x)
    PROVE  PinOf(RemoveAt(s, k), x)
<1>1. DOMAIN s = 1 .. Len(s)
  BY LenProperties
<1>2. s[k].id # x
  BY <1>1 DEF PinOf, OneEach
<1> QED BY <1>2, RemovedKeeps

LEMMA AddedIs ==
    ASSUME NEW s \in ItemLists, NEW id \in Ids, id \notin IdsOf(s), NEW r, r = StoredAlso(s, id)
    PROVE  r \in ItemLists /\ \A x : PinOf(s, x) => PinOf(r, x)
<1>1. PICK a : a = Append(s, New(id))
  OBVIOUS
<1>2. New(id) \in Item /\ New(id).id = id /\ ~New(id).pinned
  BY DEF New, Item
<1>3. /\ a \in Seq(Item) /\ Len(a) = Len(s) + 1 /\ Len(s) \in Nat
      /\ DOMAIN a = 1 .. Len(s) + 1 /\ DOMAIN s = 1 .. Len(s)
      /\ a[Len(s) + 1] = New(id) /\ \A i \in 1 .. Len(s) : a[i] = s[i]
  BY <1>1, <1>2, ItemListIs, AppendIs
<1>4. OneEach(a)
  <2> SUFFICES ASSUME NEW j \in DOMAIN a, NEW k \in DOMAIN a, a[j].id = a[k].id PROVE j = k
    BY DEF OneEach
  <2>1. \A i \in 1 .. Len(s) : a[i].id # id
    BY <1>3 DEF IdsOf
  <2>2. j = Len(s) + 1 <=> k = Len(s) + 1
    BY <1>2, <1>3, <2>1
  <2>3. CASE j \in 1 .. Len(s) /\ k \in 1 .. Len(s)
    BY <1>3, <2>3, ItemListIs DEF OneEach
  <2> QED BY <1>3, <2>2, <2>3
<1>5. \A x : PinOf(s, x) => PinOf(a, x)
  <2> SUFFICES ASSUME NEW x, PinOf(s, x) PROVE PinOf(a, x)
    OBVIOUS
  <2>1. PICK k \in DOMAIN s : s[k].id = x /\ s[k].pinned
    BY DEF PinOf
  <2>2. k \in DOMAIN a /\ a[k] = s[k]
    BY <1>3
  <2> QED BY <2>1, <2>2 DEF PinOf
<1>6. r = IF Len(a) > ITEMS_CAP THEN RemoveFirstMatch(a, Unpinned) ELSE a
  BY <1>1 DEF StoredAlso, evictOldestUnpinned
<1>7. CASE Len(a) > ITEMS_CAP
  <2>1. \E k \in DOMAIN a : ~a[k].pinned
    BY <1>2, <1>3
  <2>2. PICK k \in 1 .. Len(a) : ~a[k].pinned /\ RemoveFirstMatch(a, Unpinned) = RemoveAt(a, k)
    BY <1>3, <2>1, EvictIs
  <2>3. r = RemoveAt(a, k)
    BY <1>6, <1>7, <2>2
  <2>4. r \in Seq(Item) /\ OneEach(r) /\ Len(r) = Len(a) - 1
    BY <1>3, <1>4, <2>3, RemovedOnce
  <2>5. Len(r) <= ITEMS_CAP
    BY <1>3, <2>4, ItemListIs
  <2>6. \A x : PinOf(a, x) => PinOf(r, x)
    BY <1>3, <1>4, <2>2, <2>3, UnpinnedGoes
  <2> QED BY <1>5, <2>4, <2>5, <2>6, IsItemList
<1>8. CASE ~(Len(a) > ITEMS_CAP)
  <2>1. r = a /\ Len(a) <= ITEMS_CAP
    BY <1>3, <1>6, <1>8, Bounds
  <2> QED BY <1>3, <1>4, <1>5, <2>1, IsItemList
<1> QED BY <1>7, <1>8

LEMMA DroppedIs ==
    ASSUME NEW s \in ItemLists, NEW id, NEW r, r = Without(s, id)
    PROVE  /\ r \in ItemLists
           /\ \A x : x # id => /\ x \in IdsOf(s) => x \in IdsOf(r)
                               /\ PinOf(s, x) => PinOf(r, x)
           /\ id \notin IdsOf(s) => r = s
<1>1. s \in Seq(Item) /\ OneEach(s) /\ Len(s) \in Nat /\ Len(s) <= ITEMS_CAP
  BY ItemListIs
<1>2. CASE id \in IdsOf(s)
  <2>1. PICK k \in 1 .. Len(s) : s[k].id = id /\ r = RemoveAt(s, k)
    BY <1>1, <1>2, WithoutIs
  <2>2. r \in Seq(Item) /\ OneEach(r) /\ Len(r) = Len(s) - 1
    BY <1>1, <2>1, RemovedOnce
  <2>3. Len(r) <= ITEMS_CAP
    BY <1>1, <2>2, Bounds
  <2>4. \A x : x # id => /\ x \in IdsOf(s) => x \in IdsOf(r)
                         /\ PinOf(s, x) => PinOf(r, x)
    BY <1>1, <2>1, RemovedKeeps
  <2> QED BY <1>2, <2>2, <2>3, <2>4, IsItemList
<1>3. CASE id \notin IdsOf(s)
  BY <1>1, <1>3, WithoutIs
<1> QED BY <1>2, <1>3

LEMMA PinnedIs ==
    ASSUME NEW s \in ItemLists, NEW id, NEW p \in BOOLEAN, NEW r, r = WithPin(s, id, p)
    PROVE  /\ r \in ItemLists
           /\ IdsOf(r) = IdsOf(s)
           /\ \A x : x # id => (PinOf(r, x) <=> PinOf(s, x))
           /\ id \in IdsOf(s) /\ p => PinOf(r, id)
<1>1. s \in Seq(Item) /\ OneEach(s) /\ Len(s) <= ITEMS_CAP
      /\ \A k \in DOMAIN s : s[k] \in Item
  BY ItemListIs
<1>2. /\ r \in Seq(Item) /\ Len(r) = Len(s) /\ DOMAIN r = DOMAIN s
      /\ \A k \in DOMAIN s : r[k].id = s[k].id
      /\ \A k \in DOMAIN s : r[k] = IF s[k].id = id THEN [s[k] EXCEPT !.pinned = p] ELSE s[k]
  BY <1>1, WithPinIs
<1>3. OneEach(r)
  BY <1>1, <1>2 DEF OneEach
<1>4. IdsOf(r) = IdsOf(s)
  BY <1>2 DEF IdsOf
<1>5. \A x : x # id => (PinOf(r, x) <=> PinOf(s, x))
  BY <1>2 DEF PinOf
<1>6. id \in IdsOf(s) /\ p => PinOf(r, id)
  <2> SUFFICES ASSUME id \in IdsOf(s), p PROVE PinOf(r, id)
    OBVIOUS
  <2>1. PICK k \in DOMAIN s : s[k].id = id
    BY DEF IdsOf
  <2>2. r[k] = [s[k] EXCEPT !.pinned = p] /\ s[k] \in Item /\ r[k].id = id
    BY <1>1, <1>2, <2>1
  <2>3. r[k].pinned
    BY <2>2 DEF Item
  <2> QED BY <1>2, <2>1, <2>2, <2>3 DEF PinOf
<1> QED BY <1>1, <1>2, <1>3, <1>4, <1>5, <1>6, IsItemList

LEMMA ShedIs ==
    ASSUME NEW s \in ItemLists, Len(s) > 1, NEW r, r = Shed(s)
    PROVE  /\ r \in ItemLists
           /\ \A x : PinOf(s, x) => \/ PinOf(r, x)
                                    \/ x = s[1].id /\ ~\E j \in DOMAIN s : Unpinned(s[j])
<1>1. /\ s \in Seq(Item) /\ OneEach(s) /\ Len(s) <= ITEMS_CAP
      /\ Len(s) \in Nat /\ DOMAIN s = 1 .. Len(s)
  BY ItemListIs
<1>2. CASE \E j \in DOMAIN s : Unpinned(s[j])
  <2>1. PICK k \in 1 .. Len(s) : ~s[k].pinned /\ r = RemoveAt(s, k)
    BY <1>1, <1>2, EvictIs DEF Shed, Unpinned
  <2>2. r \in Seq(Item) /\ OneEach(r) /\ Len(r) = Len(s) - 1
    BY <1>1, <2>1, RemovedOnce
  <2>3. Len(r) <= ITEMS_CAP
    BY <1>1, <2>2, Bounds
  <2>4. \A x : PinOf(s, x) => PinOf(r, x)
    BY <1>1, <2>1, UnpinnedGoes
  <2> QED BY <2>2, <2>3, <2>4, IsItemList
<1>3. CASE ~\E j \in DOMAIN s : Unpinned(s[j])
  <2>1. r = Tail(s)
    BY <1>3 DEF Shed
  <2>2. s # <<>>
    BY <1>1
  <2>3. r \in Seq(Item) /\ Len(r) = Len(s) - 1 /\ \A i \in 1 .. Len(s) - 1 : r[i] = s[i + 1]
    BY <1>1, <2>1, <2>2, HeadTailProperties
  <2>4. DOMAIN r = 1 .. Len(s) - 1 /\ Len(r) <= ITEMS_CAP
    BY <1>1, <2>3, LenProperties, Bounds
  <2>5. OneEach(r)
    <3> SUFFICES ASSUME NEW j \in DOMAIN r, NEW k \in DOMAIN r, r[j].id = r[k].id PROVE j = k
      BY DEF OneEach
    <3>1. /\ j + 1 \in DOMAIN s /\ k + 1 \in DOMAIN s /\ r[j] = s[j + 1] /\ r[k] = s[k + 1]
          /\ j \in Nat /\ k \in Nat
      BY <1>1, <2>3, <2>4
    <3>2. j + 1 = k + 1
      BY <1>1, <3>1 DEF OneEach
    <3> QED BY <3>1, <3>2
  <2>6. ASSUME NEW x, PinOf(s, x), x # s[1].id PROVE PinOf(r, x)
    <3>1. PICK k \in DOMAIN s : s[k].id = x /\ s[k].pinned
      BY <2>6 DEF PinOf
    <3>2. k # 1
      BY <2>6, <3>1
    <3>3. k - 1 \in 1 .. Len(s) - 1 /\ k - 1 + 1 = k
      BY <1>1, <3>1, <3>2
    <3>4. r[k - 1] = s[k]
      BY <2>3, <3>3
    <3> QED BY <2>4, <3>1, <3>3, <3>4 DEF PinOf
  <2> QED BY <1>3, <2>3, <2>4, <2>5, <2>6, IsItemList
<1> QED BY <1>2, <1>3

\* Pinning one item and dropping another can be done in either order.
LEMMA PinAndDrop ==
    ASSUME NEW s \in ItemLists, NEW id, NEW p \in BOOLEAN, NEW x
    PROVE  WithPin(Without(s, x), id, p) = Without(WithPin(s, id, p), x)
<1>1. PICK w : w = WithPin(s, id, p)
  OBVIOUS
<1>2. s \in Seq(Item) /\ Len(s) \in Nat /\ DOMAIN s = 1 .. Len(s)
  BY ItemListIs
<1>3. /\ w \in Seq(Item) /\ Len(w) = Len(s) /\ DOMAIN w = DOMAIN s
      /\ \A k \in DOMAIN s : w[k].id = s[k].id
      /\ \A k \in DOMAIN s : w[k] = IF s[k].id = id THEN [s[k] EXCEPT !.pinned = p] ELSE s[k]
  BY <1>1, <1>2, WithPinIs
<1>4. IdsOf(w) = IdsOf(s) /\ Place(w, x) = Place(s, x)
  BY <1>2, <1>3 DEF IdsOf, Place
<1>5. CASE x \notin IdsOf(s)
  BY <1>1, <1>2, <1>3, <1>4, <1>5, WithoutIs
<1>6. CASE x \in IdsOf(s)
  <2>1. PICK k \in 1 .. Len(s) : Without(s, x) = RemoveAt(s, k) /\ Without(w, x) = RemoveAt(w, k)
    <3>1. Min(Place(s, x)) \in 1 .. Len(s) /\ Without(s, x) = RemoveAt(s, Min(Place(s, x)))
      BY <1>2, <1>6, WithoutIs
    <3>2. Without(w, x) = RemoveAt(w, Min(Place(s, x)))
      BY <1>3, <1>4, <1>6, WithoutIs
    <3> QED BY <3>1, <3>2
  <2>2. PICK a : a = RemoveAt(s, k)
    OBVIOUS
  <2>3. PICK b : b = RemoveAt(w, k)
    OBVIOUS
  <2>4. PICK c : c = WithPin(a, id, p)
    OBVIOUS
  <2>5. /\ a \in Seq(Item) /\ DOMAIN a = 1 .. Len(s) - 1 /\ Len(a) = Len(s) - 1
        /\ \A j \in 1 .. k - 1 : a[j] = s[j]
        /\ \A j \in k .. Len(s) - 1 : a[j] = s[j + 1]
    BY <1>2, <2>2, RemoveAtIs
  <2>6. w \in Seq(Item) /\ k \in 1 .. Len(w)
    BY <1>3
  <2>7. /\ b \in Seq(Item) /\ DOMAIN b = 1 .. Len(w) - 1 /\ Len(b) = Len(w) - 1
        /\ \A j \in 1 .. k - 1 : b[j] = w[j]
        /\ \A j \in k .. Len(w) - 1 : b[j] = w[j + 1]
    BY <2>3, <2>6, RemoveAtIs
  <2>8. /\ c \in Seq(Item) /\ Len(c) = Len(a) /\ DOMAIN c = DOMAIN a
        /\ \A j \in DOMAIN a : c[j] = IF a[j].id = id THEN [a[j] EXCEPT !.pinned = p] ELSE a[j]
    BY <2>4, <2>5, WithPinIs
  <2>9. ASSUME NEW j \in 1 .. Len(s) - 1 PROVE c[j] = b[j]
    <3>1. CASE j < k
      <4>1. j \in 1 .. k - 1 /\ j \in DOMAIN s /\ j \in DOMAIN a
        BY <1>2, <2>5, <3>1
      <4>2. a[j] = s[j] /\ b[j] = w[j]
        BY <2>5, <2>7, <4>1
      <4> QED BY <1>3, <2>8, <4>1, <4>2
    <3>2. CASE ~(j < k)
      <4>1. j \in k .. Len(s) - 1 /\ j + 1 \in DOMAIN s /\ j \in DOMAIN a
        BY <1>2, <2>5, <3>2
      <4>2. a[j] = s[j + 1] /\ b[j] = w[j + 1]
        BY <1>3, <2>5, <2>7, <4>1
      <4> QED BY <1>3, <2>8, <4>1, <4>2
    <3> QED BY <3>1, <3>2
  <2>10. c = b
    <3>1. Len(c) = Len(s) - 1 /\ Len(b) = Len(s) - 1
      BY <1>3, <2>5, <2>7, <2>8
    <3> QED BY <2>7, <2>8, <2>9, <3>1, SeqEqual
  <2> QED BY <1>1, <2>1, <2>2, <2>3, <2>4, <2>10
<1> QED BY <1>5, <1>6

-----------------------------------------------------------------------------
(* Types. *)

LEMMA AftersAre ==
    /\ Nothing \in Afters
    /\ \A id \in Ids : /\ After("schedule", id) \in Afters /\ After("delete", id) \in Afters
                       /\ After("pin", id) \in Afters /\ After("unpin", id) \in Afters
  BY DEF Nothing, After, Afters

LEMMA SavingIs ==
    ASSUME StoreTypes, NEW k \in DOMAIN saving
    PROVE  /\ k \in 1 .. Len(saving) /\ Len(saving) \in Nat
           /\ saving[k] \in Saves /\ saving[k].list \in ItemLists /\ saving[k].after \in Afters
           /\ RemoveAt(saving, k) \in Seq(Saves)
           /\ Len(RemoveAt(saving, k)) = Len(saving) - 1
<1>1. saving \in Seq(Saves)
  BY DEF StoreTypes
<1>2. k \in 1 .. Len(saving) /\ Len(saving) \in Nat
  BY <1>1, LenProperties
<1>3. saving[k] \in Saves
  BY <1>1, <1>2, ElementOfSeq
<1>4. RemoveAt(saving, k) \in Seq(Saves) /\ Len(RemoveAt(saving, k)) = Len(saving) - 1
  BY <1>1, <1>2, RemoveAtIs
<1> QED BY <1>2, <1>3, <1>4 DEF Saves

LEMMA SaveTyped ==
    ASSUME StoreTypes, NEW s \in ItemLists, NEW a \in Afters, Save(s, a) PROVE StoreTypes'
<1>1. [list |-> s, after |-> a] \in Saves
  BY DEF Saves
<1>2. Append(saving, [list |-> s, after |-> a]) \in Seq(Saves)
  BY <1>1, AppendProperties DEF StoreTypes
<1> QED BY <1>2 DEF Save, StoreTypes

LEMMA GoesTyped ==
    ASSUME Typed, NEW a \in Afters, Goes(a)
    PROVE  items' \in ItemLists /\ unsent' \in SUBSET Ids /\ expiring' \in SUBSET Ids
<1>1. items' \in ItemLists
  <2>1. items \in ItemLists
    BY DEF Typed, ListTypes
  <2>2. \A x : \A p \in BOOLEAN : WithPin(items, x, p) \in ItemLists
    BY <2>1, PinnedIs
  <2> QED BY <2>1, <2>2 DEF Goes
<1>2. unsent' \in SUBSET Ids /\ expiring' \in SUBSET Ids
  <2>1. a.op = "schedule" => a.id \in Ids
    BY DEF Afters
  <2> QED BY <2>1 DEF Goes, Unqueued, Typed, ListTypes, ClientTypes
<1> QED BY <1>1, <1>2

LEMMA SaveDoneTyped == ASSUME Typed, NEW k, SaveDone(k) PROVE Typed'
<1>1. /\ k \in DOMAIN saving /\ disk' = saving[k].list /\ saving' = RemoveAt(saving, k)
      /\ Goes(saving[k].after)
      /\ UNCHANGED <<pageVars, pending, store, socket, known, kept, shed>>
  BY DEF SaveDone
<1>2. saving[k].list \in ItemLists /\ saving[k].after \in Afters /\ saving' \in Seq(Saves)
  BY <1>1, SavingIs DEF Typed
<1>3. items' \in ItemLists /\ unsent' \in SUBSET Ids /\ expiring' \in SUBSET Ids
  BY <1>1, <1>2, GoesTyped
<1> QED BY <1>1, <1>2, <1>3 DEF Typed, PageTypes, ListTypes, StoreTypes, ClientTypes, pageVars

LEMMA SaveFailsTyped == ASSUME Typed, NEW k, SaveFails(k) PROVE Typed'
<1>1. /\ k \in DOMAIN saving
      /\ UNCHANGED <<pageVars, pending, disk, socket, known>>
  BY DEF SaveFails
<1>2. saving[k].after \in Afters /\ RemoveAt(saving, k) \in Seq(Saves)
  BY <1>1, SavingIs DEF Typed
<1>3. CASE Len(store) > 1
  <2>1. /\ store' = Shed(store) /\ shed' = TRUE
        /\ saving' = Append(RemoveAt(saving, k), [list |-> Shed(store), after |-> saving[k].after])
        /\ kept' \in SUBSET kept
        /\ UNCHANGED <<items, unsent, expiring>>
    BY <1>3 DEF SaveFails, Retry
  <2>2. Shed(store) \in ItemLists
    BY <1>3, ShedIs DEF Typed, StoreTypes
  <2>3. [list |-> Shed(store), after |-> saving[k].after] \in Saves
    BY <1>2, <2>2 DEF Saves
  <2>4. saving' \in Seq(Saves)
    BY <1>2, <2>1, <2>3, AppendProperties
  <2> QED BY <1>1, <2>1, <2>2, <2>4 DEF Typed, PageTypes, ListTypes, StoreTypes, ClientTypes, pageVars
<1>4. CASE ~(Len(store) > 1)
  <2>1. saving' = RemoveAt(saving, k) /\ Goes(saving[k].after) /\ UNCHANGED <<store, shed, kept>>
    BY <1>4 DEF SaveFails
  <2>2. items' \in ItemLists /\ unsent' \in SUBSET Ids /\ expiring' \in SUBSET Ids
    BY <1>2, <2>1, GoesTyped
  <2> QED BY <1>1, <1>2, <2>1, <2>2 DEF Typed, PageTypes, ListTypes, StoreTypes, ClientTypes, pageVars
<1> QED BY <1>3, <1>4

LEMMA AddItemTyped ==
    ASSUME Typed, NEW id \in Ids, NEW queued, AddItem(id, queued) PROVE ListTypes' /\ StoreTypes'
<1>1. CASE Shown(id)
  BY <1>1 DEF AddItem, Typed, ListTypes, StoreTypes, listVars, storeVars
<1>2. CASE ~Shown(id)
  <2>1. items' = StoredAlso(items, id) /\ id \notin IdsOf(items)
    BY <1>2 DEF AddItem, StoredAlso, Shown
  <2>2. ListTypes'
    <3>1. items' \in ItemLists
      BY <2>1, AddedIs DEF Typed, ListTypes
    <3>2. pending' \in SUBSET Ids /\ expiring' \in SUBSET Ids
      BY <1>2 DEF AddItem, Typed, ListTypes
    <3> QED BY <3>1, <3>2 DEF ListTypes
  <2>3. CASE UNCHANGED storeVars
    BY <2>2, <2>3 DEF Typed, StoreTypes, storeVars
  <2>4. CASE ~UNCHANGED storeVars
    <3>1. /\ id \notin IdsOf(store)
          /\ Save(StoredAlso(store, id), IF queued THEN Nothing ELSE After("schedule", id))
      BY <1>2, <2>4 DEF AddItem
    <3>2. StoredAlso(store, id) \in ItemLists
      BY <3>1, AddedIs DEF Typed, StoreTypes
    <3>3. (IF queued THEN Nothing ELSE After("schedule", id)) \in Afters
      BY AftersAre
    <3> QED BY <2>2, <3>1, <3>2, <3>3, SaveTyped DEF Typed
  <2> QED BY <2>3, <2>4
<1> QED BY <1>1, <1>2

LEMMA SendTextTyped == ASSUME Typed, SendText PROVE Typed'
<1>1. /\ known < MaxItems /\ known' = known + 1
      /\ unsent' = IF socket = "down" THEN unsent \cup {known + 1} ELSE unsent
      /\ AddItem(known + 1, socket = "down")
      /\ UNCHANGED <<pageVars, socket, kept, shed>>
  BY DEF SendText
<1>2. known + 1 \in Ids /\ known' \in 0 .. MaxItems
  BY <1>1, Bounds DEF Typed, ClientTypes, Ids
<1>3. ListTypes' /\ StoreTypes'
  BY <1>1, <1>2, AddItemTyped
<1> QED BY <1>1, <1>2, <1>3 DEF Typed, PageTypes, ClientTypes, pageVars

LEMMA OnClipTyped == ASSUME Typed, NEW id \in Ids, OnClip(id) PROVE Typed'
<1>1. /\ known' = IF id > known THEN id ELSE known
      /\ AddItem(id, FALSE)
      /\ UNCHANGED <<pageVars, socket, unsent, kept, shed>>
  BY DEF OnClip
<1>2. known' \in 0 .. MaxItems
  BY <1>1, Bounds DEF Typed, ClientTypes, Ids
<1>3. ListTypes' /\ StoreTypes'
  BY <1>1, AddItemTyped
<1> QED BY <1>1, <1>2, <1>3 DEF Typed, PageTypes, ClientTypes, pageVars

LEMMA DropTyped ==
    ASSUME Typed, NEW id \in Ids, NEW after \in Afters, Drop(id, after),
           UNCHANGED <<pageVars, socket, known, shed>>
    PROVE  Typed'
<1>1. /\ items' = Without(items, id) /\ pending' = pending \ {id}
      /\ expiring' = expiring \ {id} /\ kept' = kept \ {id}
      /\ unsent' \in SUBSET unsent
      /\ Save(Without(store, id), after) \/ UNCHANGED storeVars
  BY DEF Drop, Unqueued
<1>2. items' \in ItemLists
  BY <1>1, DroppedIs DEF Typed, ListTypes
<1>3. StoreTypes'
  <2>1. Without(store, id) \in ItemLists
    BY DroppedIs DEF Typed, StoreTypes
  <2>2. CASE Save(Without(store, id), after)
    BY <2>1, <2>2, SaveTyped DEF Typed
  <2>3. CASE UNCHANGED storeVars
    BY <2>3 DEF Typed, StoreTypes, storeVars
  <2> QED BY <1>1, <2>2, <2>3
<1> QED BY <1>1, <1>2, <1>3 DEF Typed, PageTypes, ListTypes, ClientTypes, pageVars

LEMMA PinItemTyped == ASSUME Typed, NEW id \in Ids, PinItem(id) PROVE Typed'
<1>1. PICK p \in BOOLEAN :
         /\ p = ~PinOf(items, id)
         /\ \/ /\ Save(WithPin(store, id, p), After(IF p THEN "pin" ELSE "unpin", id))
               /\ UNCHANGED items
            \/ items' = WithPin(items, id, p) /\ UNCHANGED storeVars
         /\ kept' = IF p THEN kept \cup ({id} \cap IdsOf(store)) ELSE kept \ {id}
         /\ UNCHANGED <<pageVars, pending, expiring, clientVars, shed>>
  BY DEF PinItem
<1>2. /\ WithPin(store, id, p) \in ItemLists /\ WithPin(items, id, p) \in ItemLists
      /\ After(IF p THEN "pin" ELSE "unpin", id) \in Afters
  BY PinnedIs, AftersAre DEF Typed, ListTypes, StoreTypes
<1>3. ListTypes' /\ StoreTypes'
  <2>1. CASE Save(WithPin(store, id, p), After(IF p THEN "pin" ELSE "unpin", id)) /\ UNCHANGED items
    <3>1. StoreTypes'
      BY <1>2, <2>1, SaveTyped DEF Typed
    <3> QED BY <1>1, <2>1, <3>1 DEF Typed, ListTypes
  <2>2. CASE items' = WithPin(items, id, p) /\ UNCHANGED storeVars
    BY <1>1, <1>2, <2>2 DEF Typed, ListTypes, StoreTypes, storeVars
  <2> QED BY <1>1, <2>1, <2>2
<1>4. kept' \in SUBSET Ids
  BY <1>1 DEF Typed
<1> QED BY <1>1, <1>3, <1>4 DEF Typed, PageTypes, ClientTypes, pageVars, clientVars

LEMMA TypedNext == ASSUME Typed, [Next]_vars PROVE Typed'
<1> USE NoItems
<1>1. CASE SendText
  BY <1>1, SendTextTyped
<1>2. CASE ClearHistory
  BY <1>2 DEF ClearHistory, ClearStore, Typed, PageTypes, ListTypes, StoreTypes, ClientTypes,
              pageVars, clientVars, storeVars
<1>3. CASE EndRoom
  BY <1>3 DEF EndRoom, ClearStore, Typed, PageTypes, ListTypes, StoreTypes, ClientTypes, storeVars
<1>4. CASE \E id \in Ids : OnDelete(id) \/ PinItem(id)
  BY <1>4, DropTyped, PinItemTyped, AftersAre DEF OnDelete
<1>5. CASE SocketOpens \/ SocketCloses
  BY <1>5 DEF SocketOpens, SocketCloses, Typed, PageTypes, ListTypes, StoreTypes, ClientTypes,
              pageVars, listVars, storeVars
<1>6. CASE OnHello
  BY <1>6 DEF OnHello, Timed, Typed, PageTypes, ListTypes, StoreTypes, ClientTypes, storeVars
<1>7. CASE \E id \in Ids : OnClip(id) \/ OnDeleteFrame(id)
  BY <1>7, OnClipTyped, DropTyped, AftersAre DEF OnDeleteFrame
<1>8. CASE Load
  <2>1. kept' \in SUBSET Ids
    BY <1>8, ItemListIs DEF Load, Typed, PageTypes
  <2> QED BY <1>8, <2>1 DEF Load, Typed, PageTypes, ListTypes, StoreTypes, ClientTypes, clientVars
<1>9. CASE \E k \in 1 .. MaxSaves : SaveDone(k) \/ SaveFails(k)
  BY <1>9, SaveDoneTyped, SaveFailsTyped
<1>10. CASE Reload
  <2>1. reloads' \in 0 .. MaxReloads
    BY <1>10, Bounds DEF Reload, Typed, PageTypes
  <2> QED BY <1>10, <2>1 DEF Reload, Typed, PageTypes, ListTypes, StoreTypes, ClientTypes
<1>11. CASE \E id \in Ids : Expire(id)
  <2>1. \A id : Without(items, id) \in ItemLists
    BY DroppedIs DEF Typed, ListTypes
  <2> QED BY <1>11, <2>1 DEF Expire, Typed, PageTypes, ListTypes, StoreTypes, ClientTypes,
                             pageVars, storeVars, clientVars
<1>12. CASE UNCHANGED vars
  BY <1>12 DEF vars, pageVars, listVars, storeVars, clientVars,
               Typed, PageTypes, ListTypes, StoreTypes, ClientTypes
<1> QED BY <1>1, <1>2, <1>3, <1>4, <1>5, <1>6, <1>7, <1>8, <1>9, <1>10, <1>11, <1>12
        DEF Next, UserStep, ClientStep, StoreStep

LEMMA TypedInit == Init => Typed
<1>1. 0 \in 0 .. MaxReloads /\ 0 \in 0 .. MaxItems
  BY Bounds
<1> QED BY <1>1, NoItems DEF Init, Typed, PageTypes, ListTypes, StoreTypes, ClientTypes

LEMMA TypedIsTyped == Typed => TypeOK
<1> SUFFICES ASSUME Typed PROVE TypeOK
  OBVIOUS
<1>1. \A k \in DOMAIN saving : saving[k].list \in Lists
  BY SavingIs, ItemListIs DEF Typed
<1>2. {items, store, disk, loading} \subseteq Lists
  BY ItemListIs DEF Typed, PageTypes, ListTypes, StoreTypes
<1> QED BY <1>1, <1>2 DEF TypeOK, Typed, PageTypes, ListTypes, StoreTypes, ClientTypes

\* The variables keep their types, and no list on the page, in the store or on disk
\* is longer than ITEMS_CAP: an eviction of one item each time is enough, since the
\* item that is new is never pinned.
THEOREM TypeCorrect == Spec => []TypeOK
<1>1. Init => Typed
  BY TypedInit
<1>2. Typed /\ [Next]_vars => Typed'
  BY TypedNext
<1> QED BY <1>1, <1>2, TypedIsTyped, PTL DEF Spec

-----------------------------------------------------------------------------
(* A calm user. *)

LEMMA PinningIs == Pinning <=> Pins(saving) # {}
  BY DEF Pinning, Pins, IsPin

LEMMA NoPins == Pins(<<>>) = {} /\ OnePin(<<>>)
  BY DEF Pins, OnePin

LEMMA PinsAppended ==
    ASSUME NEW s \in Seq(Saves), NEW e \in Saves, OnePin(s), IsPin(e.after) => Pins(s) = {}
    PROVE  /\ OnePin(Append(s, e))
           /\ Pins(Append(s, e)) = IF IsPin(e.after) THEN {e.after} ELSE Pins(s)
<1>1. PICK r : r = Append(s, e)
  OBVIOUS
<1>2. /\ DOMAIN r = 1 .. Len(s) + 1 /\ DOMAIN s = 1 .. Len(s) /\ Len(s) \in Nat
      /\ r[Len(s) + 1] = e /\ \A i \in 1 .. Len(s) : r[i] = s[i]
  BY <1>1, AppendIs
<1>3. CASE IsPin(e.after)
  <2>1. \A k \in DOMAIN r : IsPin(r[k].after) <=> k = Len(s) + 1
    <3>1. \A k \in DOMAIN s : ~IsPin(s[k].after)
      BY <1>3 DEF Pins
    <3> QED BY <1>2, <1>3, <3>1
  <2>2. Pins(r) = {e.after}
    BY <1>2, <2>1 DEF Pins
  <2> QED BY <1>1, <1>3, <2>1, <2>2 DEF OnePin
<1>4. CASE ~IsPin(e.after)
  <2>1. \A k \in DOMAIN r : IsPin(r[k].after) <=> k \in DOMAIN s /\ IsPin(s[k].after)
    BY <1>2, <1>4
  <2>2. Pins(r) = Pins(s)
    BY <1>2, <2>1 DEF Pins
  <2>3. OnePin(r)
    BY <2>1 DEF OnePin
  <2> QED BY <1>1, <1>4, <2>2, <2>3
<1> QED BY <1>3, <1>4

LEMMA PinsRemoved ==
    ASSUME NEW s \in Seq(Saves), NEW k \in 1 .. Len(s), OnePin(s)
    PROVE  /\ OnePin(RemoveAt(s, k))
           /\ IF IsPin(s[k].after)
              THEN Pins(s) = {s[k].after} /\ Pins(RemoveAt(s, k)) = {}
              ELSE Pins(RemoveAt(s, k)) = Pins(s)
<1>1. PICK r : r = RemoveAt(s, k)
  OBVIOUS
<1>2. /\ DOMAIN r = 1 .. Len(s) - 1
      /\ \A j \in 1 .. k - 1 : r[j] = s[j]
      /\ \A j \in k .. Len(s) - 1 : r[j] = s[j + 1]
  BY <1>1, RemoveAtIs
<1>3. DOMAIN s = 1 .. Len(s) /\ Len(s) \in Nat
  BY LenProperties
<1>4. /\ \A i \in DOMAIN s : i # k => \E j \in DOMAIN r : r[j] = s[i]
      /\ \A j \in DOMAIN r : \E i \in DOMAIN s : i # k /\ r[j] = s[i]
  BY <1>1, OthersStay
<1>5. OnePin(r)
  <2> SUFFICES ASSUME NEW i \in DOMAIN r, NEW j \in DOMAIN r, IsPin(r[i].after), IsPin(r[j].after)
               PROVE  i = j
    BY DEF OnePin
  <2>1. PICK x \in Nat : x \in DOMAIN s /\ r[i] = s[x] /\ x = IF i < k THEN i ELSE i + 1
    BY <1>2, <1>3
  <2>2. PICK y \in Nat : y \in DOMAIN s /\ r[j] = s[y] /\ y = IF j < k THEN j ELSE j + 1
    BY <1>2, <1>3
  <2>3. x = y
    BY <2>1, <2>2 DEF OnePin
  <2>4. i \in Nat /\ j \in Nat /\ k \in Nat
    BY <1>2, <1>3
  <2> QED BY <2>1, <2>2, <2>3, <2>4
<1>6. CASE IsPin(s[k].after)
  <2>1. \A i \in DOMAIN s : IsPin(s[i].after) <=> i = k
    BY <1>3, <1>6 DEF OnePin
  <2>2. Pins(s) = {s[k].after}
    BY <1>3, <2>1 DEF Pins
  <2>3. \A j \in DOMAIN r : ~IsPin(r[j].after)
    BY <1>4, <2>1
  <2>4. Pins(r) = {}
    BY <2>3 DEF Pins
  <2> QED BY <1>1, <1>5, <1>6, <2>2, <2>4
<1>7. CASE ~IsPin(s[k].after)
  <2>1. Pins(r) = Pins(s)
    BY <1>4, <1>7 DEF Pins
  <2> QED BY <1>1, <1>5, <1>7, <2>1
<1> QED BY <1>6, <1>7

\* The store is saved, with no pin or with the only one.
LEMMA SavePins ==
    ASSUME StoreTypes, OnePin(saving), NEW s \in ItemLists, NEW a \in Afters, Save(s, a),
           IsPin(a) => Pins(saving) = {}
    PROVE  /\ OnePin(saving') /\ store' = s /\ saving' # <<>>
           /\ Pins(saving') = IF IsPin(a) THEN {a} ELSE Pins(saving)
<1>1. [list |-> s, after |-> a] \in Saves /\ saving \in Seq(Saves)
  BY DEF Saves, StoreTypes
<1>2. PICK e \in Saves : e = [list |-> s, after |-> a]
  BY <1>1
<1>3. e.after = a /\ saving' = Append(saving, e) /\ store' = s
  BY <1>2 DEF Save
<1>4. OnePin(Append(saving, e)) /\ Pins(Append(saving, e)) = IF IsPin(e.after) THEN {e.after} ELSE Pins(saving)
  BY <1>1, <1>3, PinsAppended
<1>5. Append(saving, e) # <<>>
  BY <1>1, AppendProperties
<1> QED BY <1>3, <1>4, <1>5

LEMMA AfterIs == \A a \in Afters : a = After(a.op, a.id)
  BY DEF Afters, After

\* A save has ended, and its handler goes on.
LEMMA GoesCalm ==
    ASSUME Typed, CalmInv, NEW k \in DOMAIN saving, saving' = RemoveAt(saving, k),
           Goes(saving[k].after), UNCHANGED <<pageVars, store, socket, kept, shed>>
    PROVE  CalmInv'
<1>1. /\ k \in 1 .. Len(saving) /\ saving \in Seq(Saves) /\ saving[k].after \in Afters
      /\ items \in ItemLists
  BY SavingIs DEF Typed, StoreTypes, ListTypes
<1>2. PICK a \in Afters : a = saving[k].after
  BY <1>1
<1>3. /\ OnePin(saving')
      /\ IF IsPin(a) THEN Pins(saving) = {a} /\ Pins(saving') = {}
                     ELSE Pins(saving') = Pins(saving)
  BY <1>1, <1>2, PinsRemoved DEF CalmInv
<1>4. saving # <<>> /\ page = "mounted"
  BY <1>1 DEF CalmInv, Phases, Typed, PageTypes
<1>5. /\ items' = IF IsPin(a) THEN WithPin(items, a.id, a.op = "pin") ELSE items
      /\ ~ephemeralOn => expiring' = expiring
  BY <1>2 DEF Goes, IsPin
<1>6. Phases'
  BY <1>4, <1>5 DEF CalmInv, Phases, pageVars
<1>7. CASE ~IsPin(a)
  BY <1>3, <1>5, <1>6, <1>7 DEF CalmInv, Alike, KeptPinned, pageVars
<1>8. CASE IsPin(a)
  <2>1. PICK p \in BOOLEAN : p = (a.op = "pin")
    OBVIOUS
  <2> DEFINE r == items'
  <2>2. /\ IdsOf(r) = IdsOf(items)
        /\ \A x : x # a.id => (PinOf(r, x) <=> PinOf(items, x))
        /\ a.id \in IdsOf(items) /\ p => PinOf(r, a.id)
    <3>1. r = WithPin(items, a.id, p)
      BY <1>5, <1>8, <2>1
    <3> HIDE DEF r
    <3> QED BY <1>1, <3>1, PinnedIs
  <2>3. Alike'
    BY <1>3, <1>4, <1>5, <1>8 DEF CalmInv, Alike, pageVars
  <2>4. KeptPinned'
    <3> SUFFICES ASSUME ~ephemeralOn, NEW x \in kept
                 PROVE  x \in IdsOf(items') /\ PinOf(store, x) /\ PinOf(items', x)
      BY <1>3, <1>8 DEF KeptPinned, pageVars
    <3>1. /\ x \in IdsOf(items) /\ PinOf(store, x)
          /\ PinOf(items, x) \/ After("pin", x) = a
          /\ After("unpin", x) # a
      BY <1>3, <1>8 DEF CalmInv, KeptPinned
    <3>2. CASE x = a.id
      <4>1. a.op # "unpin"
        BY <3>1, <3>2, AfterIs
      <4> QED BY <1>8, <2>1, <2>2, <3>1, <3>2, <4>1 DEF IsPin
    <3>3. CASE x # a.id
      BY <2>2, <3>1, <3>3 DEF After
    <3> QED BY <3>2, <3>3
  <2> QED BY <1>3, <1>6, <2>3, <2>4 DEF CalmInv
<1> QED BY <1>7, <1>8

LEMMA SaveDoneCalm == ASSUME Typed, CalmInv, NEW k, SaveDone(k) PROVE CalmInv'
  BY GoesCalm DEF SaveDone

\* The quota takes an item from the store, and the pin that is being saved stays.
LEMMA SaveFailsCalm == ASSUME Typed, CalmInv, NEW k, SaveFails(k) PROVE CalmInv'
<1>1. /\ k \in DOMAIN saving
      /\ UNCHANGED <<pageVars, pending, disk, socket, known>>
  BY DEF SaveFails
<1>2. CASE Len(store) > 1
  <2>1. PICK a \in Afters : a = saving[k].after
    BY <1>1, SavingIs DEF Typed
  <2>2. PICK s \in ItemLists : s = Shed(store)
    BY <1>2, ShedIs DEF Typed, StoreTypes
  <2>3. PICK e \in Saves : e = [list |-> s, after |-> a]
    BY DEF Saves
  <2>4. /\ store' = s /\ shed' = TRUE
        /\ saving' = Append(RemoveAt(saving, k), e)
        /\ kept' = IF \E j \in DOMAIN store : Unpinned(store[j])
                   THEN kept ELSE kept \ {store[1].id}
        /\ UNCHANGED <<items, unsent, expiring>>
    BY <1>2, <2>1, <2>2, <2>3 DEF SaveFails, Retry
  <2>5. /\ k \in 1 .. Len(saving) /\ saving \in Seq(Saves) /\ RemoveAt(saving, k) \in Seq(Saves)
        /\ saving # <<>>
    BY <1>1, SavingIs DEF Typed, StoreTypes
  <2>6. /\ OnePin(RemoveAt(saving, k))
        /\ IF IsPin(a) THEN Pins(saving) = {a} /\ Pins(RemoveAt(saving, k)) = {}
                       ELSE Pins(RemoveAt(saving, k)) = Pins(saving)
    BY <2>1, <2>5, PinsRemoved DEF CalmInv
  <2>7. e.after = a
    BY <2>3
  <2>8. OnePin(saving') /\ Pins(saving') = Pins(saving)
    BY <2>4, <2>5, <2>6, <2>7, PinsAppended
  <2>9. Phases'
    BY <1>1, <2>4, <2>5 DEF CalmInv, Phases, pageVars
  <2>10. KeptPinned'
    <3> SUFFICES ASSUME ~ephemeralOn, NEW x \in kept' PROVE PinOf(store', x)
      BY <1>1, <2>4, <2>8 DEF CalmInv, KeptPinned, pageVars
    <3>1. PinOf(store, x) /\ x \in kept
      BY <2>4 DEF CalmInv, KeptPinned
    <3>2. \/ PinOf(s, x)
          \/ x = store[1].id /\ ~\E j \in DOMAIN store : Unpinned(store[j])
      BY <1>2, <2>2, <3>1, ShedIs DEF Typed, StoreTypes
    <3> QED BY <2>4, <3>2
  <2>11. Alike'
    BY <2>4 DEF Alike
  <2> QED BY <2>8, <2>9, <2>10, <2>11 DEF CalmInv
<1>3. CASE ~(Len(store) > 1)
  BY <1>1, <1>3, GoesCalm DEF SaveFails
<1> QED BY <1>2, <1>3

LEMMA AddItemCalm ==
    ASSUME CALM, Typed, CalmInv, page = "mounted", NEW id \in Ids, NEW queued, AddItem(id, queued),
           UNCHANGED <<pageVars, kept, shed>>, socket' = socket
    PROVE  CalmInv'
<1>1. CASE Shown(id)
  BY <1>1 DEF AddItem, CalmInv, Phases, Alike, KeptPinned, listVars, storeVars, pageVars
<1>2. CASE ~Shown(id)
  <2>1. /\ items' = StoredAlso(items, id) /\ id \notin IdsOf(items)
        /\ Pins(saving) = {}
        /\ ~ephemeralOn => expiring' = expiring
    BY <1>2, PinningIs DEF AddItem, StoredAlso, Shown
  <2>2. \A x : PinOf(items, x) => PinOf(items', x)
    BY <2>1, AddedIs DEF Typed, ListTypes
  <2>3. Phases'
    BY <2>1 DEF CalmInv, Phases, pageVars
  <2>4. CASE UNCHANGED storeVars
    <3>1. Alike'
      <4> SUFFICES ASSUME ~ephemeralOn, ~shed PROVE items' = store
        BY <2>1, <2>4 DEF Alike, storeVars, pageVars
      <4>1. items = store
        BY <2>1 DEF CalmInv, Alike
      <4>2. Save(StoredAlso(store, id), IF queued THEN Nothing ELSE After("schedule", id))
        BY <1>2, <2>1, <4>1 DEF AddItem
      <4> QED BY <2>1, <2>4, <4>1, <4>2 DEF Save, storeVars
    <3>2. KeptPinned'
      BY <2>1, <2>2, <2>4, PinnedShown DEF CalmInv, KeptPinned, storeVars, pageVars
    <3> QED BY <2>3, <2>4, <3>1, <3>2 DEF CalmInv, storeVars
  <2>5. CASE ~UNCHANGED storeVars
    <3>1. PICK a \in Afters : /\ ~IsPin(a) /\ Save(StoredAlso(store, id), a)
                              /\ id \notin IdsOf(store)
      <4>1. /\ Save(StoredAlso(store, id), IF queued THEN Nothing ELSE After("schedule", id))
            /\ id \notin IdsOf(store)
        BY <1>2, <2>5 DEF AddItem
      <4>2. ~IsPin(Nothing) /\ ~IsPin(After("schedule", id))
        BY DEF Nothing, After, IsPin
      <4> QED BY <4>1, <4>2, AftersAre
    <3>2. /\ StoredAlso(store, id) \in ItemLists
          /\ \A x : PinOf(store, x) => PinOf(StoredAlso(store, id), x)
      BY <3>1, AddedIs DEF Typed, StoreTypes
    <3>3. OnePin(saving') /\ store' = StoredAlso(store, id) /\ Pins(saving') = {}
      BY <2>1, <3>1, <3>2, SavePins DEF CalmInv, Typed
    <3>4. Alike'
      BY <2>1, <3>3 DEF CalmInv, Alike, pageVars
    <3>5. KeptPinned'
      BY <2>1, <2>2, <3>2, <3>3, PinnedShown DEF CalmInv, KeptPinned, pageVars
    <3> QED BY <2>3, <3>3, <3>4, <3>5 DEF CalmInv
  <2> QED BY <2>4, <2>5
<1> QED BY <1>1, <1>2

LEMMA DropCalm ==
    ASSUME Typed, CalmInv, page = "mounted", NEW id \in Ids, NEW after \in Afters, ~IsPin(after),
           Drop(id, after), UNCHANGED <<pageVars, socket, known, shed>>
    PROVE  CalmInv'
<1>1. /\ items' = Without(items, id) /\ kept' = kept \ {id}
      /\ expiring' = expiring \ {id}
      /\ IF ~ephemeralOn /\ id \in IdsOf(store) THEN Save(Without(store, id), after)
                                                ELSE UNCHANGED storeVars
  BY DEF Drop
<1>2. items \in ItemLists /\ store \in ItemLists /\ Without(store, id) \in ItemLists
  BY DroppedIs DEF Typed, ListTypes, StoreTypes
<1>3. Phases'
  BY <1>1 DEF CalmInv, Phases, pageVars
<1>4. OnePin(saving') /\ (~ephemeralOn => Pins(saving') = Pins(saving) /\ store' = Without(store, id))
  <2>1. CASE ~ephemeralOn /\ id \in IdsOf(store)
    BY <1>1, <1>2, <2>1, SavePins DEF CalmInv, Typed
  <2>2. CASE ephemeralOn
    BY <1>1, <2>2 DEF CalmInv, storeVars
  <2>3. CASE ~ephemeralOn /\ id \notin IdsOf(store)
    <3>1. Without(store, id) = store
      BY <1>2, <2>3, DroppedIs
    <3> QED BY <1>1, <2>3, <3>1 DEF CalmInv, storeVars
  <2> QED BY <2>1, <2>2, <2>3
<1>5. Alike'
  <2> SUFFICES ASSUME ~ephemeralOn, ~shed
               PROVE  /\ Pins(saving) = {} => items' = store'
                      /\ \A a \in Pins(saving) : store' = WithPin(items', a.id, a.op = "pin")
    BY <1>4 DEF Alike, pageVars
  <2>1. Pins(saving) = {} => items' = store'
    BY <1>1, <1>4 DEF CalmInv, Alike
  <2>2. ASSUME NEW a \in Pins(saving) PROVE store' = WithPin(items', a.id, a.op = "pin")
    <3>1. PICK p \in BOOLEAN : p = (a.op = "pin")
      OBVIOUS
    <3>2. store = WithPin(items, a.id, p)
      BY <3>1 DEF CalmInv, Alike
    <3>3. WithPin(Without(items, id), a.id, p) = Without(WithPin(items, a.id, p), id)
      BY <1>2, PinAndDrop
    <3> QED BY <1>1, <1>4, <3>1, <3>2, <3>3
  <2> QED BY <2>1, <2>2
<1>6. KeptPinned'
  <2> SUFFICES ASSUME ~ephemeralOn, NEW x \in kept, x # id
               PROVE  /\ x \in IdsOf(items') /\ PinOf(store', x)
                      /\ PinOf(items', x) \/ After("pin", x) \in Pins(saving)
                      /\ After("unpin", x) \notin Pins(saving)
    BY <1>1, <1>4 DEF KeptPinned, pageVars
  <2>1. /\ x \in IdsOf(items) => x \in IdsOf(items')
        /\ PinOf(items, x) => PinOf(items', x)
        /\ PinOf(store, x) => PinOf(store', x)
    BY <1>1, <1>2, <1>4, DroppedIs
  <2> QED BY <2>1 DEF CalmInv, KeptPinned
<1> QED BY <1>3, <1>4, <1>5, <1>6 DEF CalmInv

LEMMA PinItemCalm ==
    ASSUME CALM, Typed, CalmInv, NEW id \in Ids, PinItem(id) PROVE CalmInv'
<1>1. PICK p \in BOOLEAN :
         /\ p = ~PinOf(items, id)
         /\ IF ~ephemeralOn /\ id \in IdsOf(store) /\ PinOf(store, id) # p
            THEN /\ Save(WithPin(store, id, p), After(IF p THEN "pin" ELSE "unpin", id))
                 /\ UNCHANGED items
            ELSE items' = WithPin(items, id, p) /\ UNCHANGED storeVars
         /\ kept' = IF p THEN kept \cup ({id} \cap IdsOf(store)) ELSE kept \ {id}
         /\ page = "mounted" /\ id \in IdsOf(items) /\ Pins(saving) = {}
         /\ UNCHANGED <<pageVars, pending, expiring, clientVars, shed>>
  BY PinningIs DEF PinItem, Shown
<1>2. items \in ItemLists /\ store \in ItemLists /\ WithPin(store, id, p) \in ItemLists
  BY PinnedIs DEF Typed, ListTypes, StoreTypes
<1>3. Phases'
  BY <1>1 DEF CalmInv, Phases, pageVars, clientVars
<1>4. PICK a \in Afters : a = After(IF p THEN "pin" ELSE "unpin", id)
  BY AftersAre
<1>5. IsPin(a) /\ a.id = id /\ (a.op = "pin" <=> p)
  BY <1>4 DEF After, IsPin
<1>6. CASE ephemeralOn
  BY <1>1, <1>3, <1>6 DEF CalmInv, Alike, KeptPinned, pageVars, storeVars
<1>7. CASE ~ephemeralOn /\ id \in IdsOf(store) /\ PinOf(store, id) # p
  <2>1. Save(WithPin(store, id, p), a) /\ items' = items
    BY <1>1, <1>4, <1>7
  <2>2. OnePin(saving') /\ store' = WithPin(store, id, p) /\ Pins(saving') = {a}
    BY <1>1, <1>2, <1>5, <2>1, SavePins DEF CalmInv, Typed
  <2>3. /\ \A x : x # id => (PinOf(store', x) <=> PinOf(store, x))
        /\ p => PinOf(store', id)
    BY <1>2, <1>7, <2>2, PinnedIs
  <2>4. Alike'
    <3> SUFFICES ASSUME ~shed PROVE store' = WithPin(items', a.id, a.op = "pin")
      BY <1>1, <1>7, <2>2 DEF Alike, pageVars
    <3>1. items = store
      BY <1>1, <1>7 DEF CalmInv, Alike
    <3>2. (a.op = "pin") = p
      BY <1>5
    <3> QED BY <1>5, <2>1, <2>2, <3>1, <3>2
  <2>5. KeptPinned'
    <3> SUFFICES ASSUME NEW x \in kept'
                 PROVE  /\ x \in IdsOf(items) /\ PinOf(store', x)
                        /\ PinOf(items, x) \/ After("pin", x) = a
                        /\ After("unpin", x) # a
      BY <1>1, <2>1, <2>2 DEF KeptPinned, pageVars
    <3>1. CASE x = id
      <4>1. p
        BY <1>1, <3>1
      <4> QED BY <1>1, <1>4, <2>3, <3>1, <4>1 DEF After
    <3>2. CASE x # id
      <4>1. x \in kept
        BY <1>1, <3>2
      <4> QED BY <1>1, <1>5, <1>7, <2>3, <3>2, <4>1 DEF CalmInv, KeptPinned, After
    <3> QED BY <3>1, <3>2
  <2> QED BY <1>3, <2>2, <2>4, <2>5 DEF CalmInv
<1>8. CASE ~ephemeralOn /\ ~(id \in IdsOf(store) /\ PinOf(store, id) # p)
  <2>1. items' = WithPin(items, id, p) /\ store' = store /\ saving' = saving
    BY <1>1, <1>8 DEF storeVars
  <2>2. /\ IdsOf(items') = IdsOf(items)
        /\ \A x : x # id => (PinOf(items', x) <=> PinOf(items, x))
        /\ p => PinOf(items', id)
    BY <1>1, <1>2, <2>1, PinnedIs
  <2>3. shed
    <3> SUFFICES ASSUME ~shed PROVE FALSE
      OBVIOUS
    <3>1. items = store
      BY <1>1, <1>8 DEF CalmInv, Alike
    <3> QED BY <1>1, <1>8, <3>1
  <2>4. Alike'
    BY <1>1, <2>3 DEF Alike
  <2>5. KeptPinned'
    <3> SUFFICES ASSUME NEW x \in kept'
                 PROVE  x \in IdsOf(items') /\ PinOf(store, x) /\ PinOf(items', x)
      BY <1>1, <2>1 DEF KeptPinned, pageVars
    <3>1. CASE x = id
      <4>1. p /\ (x \in kept \/ x \in IdsOf(store))
        BY <1>1, <3>1
      <4>2. PinOf(store, x)
        BY <1>8, <3>1, <4>1 DEF CalmInv, KeptPinned
      <4> QED BY <1>1, <2>2, <3>1, <4>1, <4>2
    <3>2. CASE x # id
      <4>1. x \in kept
        BY <1>1, <3>2
      <4> QED BY <1>1, <1>8, <2>2, <3>2, <4>1 DEF CalmInv, KeptPinned
    <3> QED BY <3>1, <3>2
  <2> QED BY <1>3, <2>1, <2>4, <2>5 DEF CalmInv
<1> QED BY <1>6, <1>7, <1>8

LEMMA LoadCalm == ASSUME Typed, CalmInv, Load PROVE CalmInv'
<1>1. /\ page = "loading" /\ page' = "mounted" /\ store' = loading /\ items' = loading
      /\ kept' = {loading[k].id : k \in {j \in DOMAIN loading : loading[j].pinned}}
      /\ UNCHANGED <<ephemeral, loading, ephemeralOn, expiring, saving, socket, shed>>
  BY DEF Load, clientVars
<1>2. saving = <<>> /\ ~ephemeralOn
  BY <1>1 DEF CalmInv, Phases
<1>3. Pins(saving') = {} /\ OnePin(saving')
  BY <1>1, <1>2, NoPins
<1>4. Phases' /\ Alike'
  BY <1>1, <1>3 DEF CalmInv, Phases, Alike
<1>5. KeptPinned'
  <2> SUFFICES ASSUME NEW x \in kept' PROVE PinOf(loading, x) /\ x \in IdsOf(loading)
    BY <1>1, <1>3 DEF KeptPinned
  <2> QED BY <1>1 DEF PinOf, IdsOf
<1> QED BY <1>3, <1>4, <1>5 DEF CalmInv

LEMMA ClearCalm == ASSUME CALM, Typed, CalmInv, ClearHistory \/ EndRoom PROVE CalmInv'
<1>1. saving = <<>> /\ page = "mounted"
  BY DEF ClearHistory, EndRoom, MayClear
<1>2. /\ saving' = <<>> /\ items' = <<>> /\ kept' = {} /\ expiring' = {}
      /\ ~ephemeralOn => store' = <<>>
      /\ UNCHANGED <<ephemeral, ephemeralOn, shed>>
      /\ (page' = "left" /\ socket' = "down") \/ (page' = page /\ socket' = socket)
  BY <1>1 DEF ClearHistory, EndRoom, ClearStore, storeVars, pageVars, clientVars
<1>3. Phases' /\ KeptPinned'
  BY <1>1, <1>2 DEF CalmInv, Phases, KeptPinned
<1>4. Alike' /\ OnePin(saving')
  BY <1>2, NoPins DEF Alike
<1> QED BY <1>3, <1>4 DEF CalmInv

LEMMA HelloCalm == ASSUME Typed, CalmInv, OnHello PROVE CalmInv'
<1>1. /\ socket = "open" /\ socket' = "greeted" /\ ephemeralOn' = ephemeral
      /\ ~ephemeral => items' = items /\ expiring' = expiring
      /\ UNCHANGED <<ephemeral, page, loading, storeVars, kept, shed>>
  BY DEF OnHello
<1>2. page = "mounted"
  BY <1>1 DEF CalmInv, Phases
<1>3. Phases'
  BY <1>1, <1>2 DEF CalmInv, Phases
<1>4. CASE ephemeral
  BY <1>1, <1>3, <1>4 DEF CalmInv, Alike, KeptPinned, storeVars
<1>5. CASE ~ephemeral
  BY <1>1, <1>3, <1>5 DEF CalmInv, Phases, Alike, KeptPinned, storeVars
<1> QED BY <1>4, <1>5 DEF Typed, PageTypes

LEMMA CalmNext == ASSUME CALM, Typed, CalmInv, [Next]_vars PROVE CalmInv'
<1>1. CASE SendText
  <2>1. known + 1 \in Ids
    BY <1>1, Bounds DEF SendText, Typed, ClientTypes, Ids
  <2> QED BY <1>1, <2>1, AddItemCalm DEF SendText
<1>2. CASE ClearHistory \/ EndRoom
  BY <1>2, ClearCalm
<1>3. CASE \E id \in Ids : OnDelete(id) \/ OnDeleteFrame(id)
  <2>1. PICK id \in Ids, after \in Afters :
           /\ ~IsPin(after) /\ Drop(id, after) /\ page = "mounted"
           /\ UNCHANGED <<pageVars, socket, known, shed>>
    BY <1>3, AftersAre DEF OnDelete, OnDeleteFrame, After, Nothing, IsPin
  <2> QED BY <2>1, DropCalm
<1>4. CASE \E id \in Ids : PinItem(id)
  BY <1>4, PinItemCalm
<1>5. CASE SocketOpens \/ SocketCloses
  BY <1>5 DEF SocketOpens, SocketCloses, CalmInv, Phases, Alike, KeptPinned,
              pageVars, listVars, storeVars
<1>6. CASE OnHello
  BY <1>6, HelloCalm
<1>7. CASE \E id \in Ids : OnClip(id)
  BY <1>7, AddItemCalm DEF OnClip
<1>8. CASE Load
  BY <1>8, LoadCalm
<1>9. CASE \E k \in 1 .. MaxSaves : SaveDone(k) \/ SaveFails(k)
  BY <1>9, SaveDoneCalm, SaveFailsCalm
<1>10. CASE Reload
  BY <1>10, NoPins DEF Reload, CalmInv, Phases, Alike, KeptPinned
<1>11. CASE \E id \in Ids : Expire(id)
  <2>1. ephemeralOn
    BY <1>11 DEF Expire, CalmInv, Phases, Typed, PageTypes
  <2>2. /\ UNCHANGED <<pageVars, storeVars, socket, kept, shed>>
        /\ page # "loading"
    BY <1>11, <2>1 DEF Expire, CalmInv, Phases, clientVars
  <2> QED BY <2>1, <2>2 DEF CalmInv, Phases, Alike, KeptPinned, pageVars, storeVars
<1>12. CASE UNCHANGED vars
  BY <1>12 DEF vars, pageVars, listVars, storeVars, clientVars, CalmInv, Phases, Alike, KeptPinned
<1> QED BY <1>1, <1>2, <1>3, <1>4, <1>5, <1>6, <1>7, <1>8, <1>9, <1>10, <1>11, <1>12
        DEF Next, UserStep, ClientStep, StoreStep

LEMMA CalmInit == Init => CalmInv
  BY NoPins DEF Init, CalmInv, Phases, Alike, KeptPinned

LEMMA CalmAlways == ASSUME CALM PROVE Spec => [](Typed /\ CalmInv)
<1>1. Init => Typed /\ CalmInv
  BY TypedInit, CalmInit
<1>2. Typed /\ CalmInv /\ [Next]_vars => (Typed /\ CalmInv)'
  BY TypedNext, CalmNext
<1> QED BY <1>1, <1>2, PTL DEF Spec

\* The page and the store, each with its own eviction and changed one after the
\* other, hold the same items with the same pins whenever no pin is being saved,
\* until the quota takes one: of any length, after any number of clips, deletes,
\* pins and reloads, and in whatever order saves end.
THEOREM PageIsStore == ASSUME CALM PROVE Spec => []SameList
<1>1. CalmInv => SameList
  BY PinningIs DEF CalmInv, Alike, SameList
<1> QED BY <1>1, CalmAlways, PTL

\* A pinned item survives every eviction on the page and in the store, even once
\* the quota has made them differ, and is lost to the quota only if all are pinned.
THEOREM PinsLast == ASSUME CALM PROVE Spec => []PinnedKept
<1>1. CalmInv => PinnedKept
  BY PinningIs, PinnedShown DEF CalmInv, KeptPinned, PinnedKept
<1> QED BY <1>1, CalmAlways, PTL

-----------------------------------------------------------------------------
(* The disk. *)

\* A save appended to those under way is the last one.
LEMMA SaveLast ==
    ASSUME Typed, NEW s \in ItemLists, NEW a \in Afters, Save(s, a)
    PROVE  saving' # <<>> /\ saving'[Len(saving')].list = store'
<1>1. PICK e \in Saves : e = [list |-> s, after |-> a]
  BY DEF Saves
<1>2. saving' = Append(saving, e) /\ store' = s /\ e.list = s /\ saving \in Seq(Saves)
  BY <1>1 DEF Save, Typed, StoreTypes
<1>3. PICK r : r = Append(saving, e)
  OBVIOUS
<1>4. Len(r) = Len(saving) + 1 /\ Len(saving) \in Nat /\ r[Len(saving) + 1] = e
  BY <1>2, <1>3, AppendIs
<1> QED BY <1>2, <1>3, <1>4

\* The first save under way is over, and was not the last.
LEMMA FirstOver ==
    ASSUME NEW s \in Seq(Saves), Len(s) > 1
    PROVE  /\ RemoveAt(s, 1) # <<>>
           /\ RemoveAt(s, 1)[Len(RemoveAt(s, 1))] = s[Len(s)]
<1>1. PICK r : r = RemoveAt(s, 1)
  OBVIOUS
<1>2. Len(s) \in Nat /\ 1 \in 1 .. Len(s)
  BY LenProperties
<1>3. PICK k \in 1 .. Len(s) : k = 1
  BY <1>2
<1>4. /\ Len(r) = Len(s) - 1 /\ \A j \in k .. Len(s) - 1 : r[j] = s[j + 1]
  BY <1>1, <1>3, RemoveAtIs
<1>5. Len(s) - 1 \in 1 .. Len(s) - 1 /\ Len(s) - 1 + 1 = Len(s)
  BY <1>2
<1>6. r[Len(s) - 1] = s[Len(s)]
  BY <1>3, <1>4, <1>5
<1>7. r # <<>>
  BY <1>2, <1>4
<1> QED BY <1>1, <1>4, <1>6, <1>7

\* What ends first began first.
LEMMA SaveDoneLast == ASSUME ORDERED, Typed, LastSave, NEW k, SaveDone(k) PROVE LastSave'
<1>1. /\ k = 1 /\ 1 \in DOMAIN saving /\ disk' = saving[1].list /\ saving' = RemoveAt(saving, 1)
      /\ UNCHANGED <<page, ephemeralOn, store>>
  BY DEF SaveDone, pageVars
<1>2. saving \in Seq(Saves) /\ Len(saving) \in Nat /\ Len(saving) >= 1 /\ Len(saving') = Len(saving) - 1
      /\ saving' \in Seq(Saves) /\ saving # <<>>
  BY <1>1, SavingIs DEF Typed, StoreTypes
<1>3. CASE Len(saving) = 1
  <2>1. saving' = <<>>
    BY <1>2, <1>3, EmptySeq
  <2> QED BY <1>1, <1>2, <1>3, <2>1 DEF LastSave
<1>4. CASE Len(saving) > 1
  BY <1>1, <1>2, <1>4, FirstOver DEF LastSave
<1> QED BY <1>2, <1>3, <1>4

LEMMA SaveFailsLast == ASSUME ORDERED, Typed, LastSave, NEW k, SaveFails(k) PROVE LastSave'
<1>1. /\ k = 1 /\ 1 \in DOMAIN saving /\ Len(saving[1].list) > QUOTA
      /\ UNCHANGED <<page, ephemeralOn, disk>>
  BY DEF SaveFails, pageVars
<1>2. /\ saving \in Seq(Saves) /\ Len(saving) \in Nat /\ Len(saving) >= 1
      /\ saving[1].after \in Afters /\ RemoveAt(saving, 1) \in Seq(Saves) /\ saving # <<>>
  BY <1>1, SavingIs DEF Typed, StoreTypes
<1>3. CASE Len(store) > 1
  <2>1. PICK s \in ItemLists : s = Shed(store)
    BY <1>3, ShedIs DEF Typed, StoreTypes
  <2>2. PICK e \in Saves : e = [list |-> s, after |-> saving[1].after]
    BY <1>2 DEF Saves
  <2>3. store' = s /\ saving' = Append(RemoveAt(saving, 1), e) /\ e.list = s
    BY <1>1, <1>3, <2>1, <2>2 DEF SaveFails, Retry
  <2>4. PICK r : r = RemoveAt(saving, 1)
    OBVIOUS
  <2>5. PICK q : q = Append(r, e)
    OBVIOUS
  <2>6. Len(q) = Len(r) + 1 /\ Len(r) \in Nat /\ q[Len(r) + 1] = e
    BY <1>2, <2>4, <2>5, AppendIs
  <2> QED BY <2>3, <2>4, <2>5, <2>6 DEF LastSave
<1>4. CASE ~(Len(store) > 1)
  <2>1. saving' = RemoveAt(saving, 1) /\ store' = store
    BY <1>1, <1>4 DEF SaveFails
  <2>2. CASE Len(saving) = 1
    <3>1. page # "loading" /\ ~ephemeralOn => Len(store) > QUOTA
      BY <1>1, <1>2, <2>2 DEF LastSave
    <3>2. Len(store) \in Nat
      BY ItemListIs DEF Typed, StoreTypes
    <3> QED BY <1>1, <1>4, <3>1, <3>2, Bounds DEF LastSave
  <2>3. CASE Len(saving) > 1
    BY <1>1, <1>2, <2>1, <2>3, FirstOver DEF LastSave
  <2>4. Len(saving) = 1 \/ Len(saving) > 1
    <3>1. PICK n \in Nat : n = Len(saving) /\ n >= 1
      BY <1>2
    <3>2. n = 1 \/ n > 1
      BY <3>1
    <3> QED BY <3>1, <3>2
  <2> QED BY <2>2, <2>3, <2>4
<1> QED BY <1>3, <1>4

LEMMA AddItemLast ==
    ASSUME Typed, LastSave, NEW id \in Ids, NEW queued, AddItem(id, queued), UNCHANGED pageVars
    PROVE  LastSave'
<1>1. CASE UNCHANGED storeVars
  BY <1>1 DEF LastSave, storeVars, pageVars
<1>2. CASE ~UNCHANGED storeVars
  <2>1. /\ Save(StoredAlso(store, id), IF queued THEN Nothing ELSE After("schedule", id))
        /\ id \notin IdsOf(store)
    BY <1>2 DEF AddItem
  <2>2. PICK a \in Afters : a = IF queued THEN Nothing ELSE After("schedule", id)
    BY AftersAre
  <2>3. StoredAlso(store, id) \in ItemLists
    BY <2>1, AddedIs DEF Typed, StoreTypes
  <2> QED BY <2>1, <2>2, <2>3, SaveLast DEF LastSave
<1> QED BY <1>1, <1>2

LEMMA DropLast ==
    ASSUME Typed, LastSave, NEW id \in Ids, NEW after \in Afters, Drop(id, after), UNCHANGED pageVars
    PROVE  LastSave'
<1>1. Save(Without(store, id), after) \/ UNCHANGED storeVars
  BY DEF Drop
<1>2. Without(store, id) \in ItemLists
  BY DroppedIs DEF Typed, StoreTypes
<1>3. CASE Save(Without(store, id), after)
  BY <1>2, <1>3, SaveLast DEF LastSave
<1>4. CASE UNCHANGED storeVars
  BY <1>4 DEF LastSave, storeVars, pageVars
<1> QED BY <1>1, <1>3, <1>4

LEMMA PinLast == ASSUME Typed, LastSave, NEW id \in Ids, PinItem(id) PROVE LastSave'
<1>1. PICK p \in BOOLEAN :
         /\ \/ Save(WithPin(store, id, p), After(IF p THEN "pin" ELSE "unpin", id))
            \/ UNCHANGED storeVars
         /\ UNCHANGED pageVars
  BY DEF PinItem
<1>2. /\ WithPin(store, id, p) \in ItemLists /\ After(IF p THEN "pin" ELSE "unpin", id) \in Afters
  BY PinnedIs, AftersAre DEF Typed, StoreTypes
<1>3. CASE Save(WithPin(store, id, p), After(IF p THEN "pin" ELSE "unpin", id))
  BY <1>2, <1>3, SaveLast DEF LastSave
<1>4. CASE UNCHANGED storeVars
  BY <1>1, <1>4 DEF LastSave, storeVars, pageVars
<1> QED BY <1>1, <1>3, <1>4

LEMMA LastNext == ASSUME CALM, ORDERED, Typed, CalmInv, LastSave, [Next]_vars PROVE LastSave'
<1>1. CASE SendText
  <2>1. known + 1 \in Ids
    BY <1>1, Bounds DEF SendText, Typed, ClientTypes, Ids
  <2> QED BY <1>1, <2>1, AddItemLast DEF SendText
<1>2. CASE ClearHistory \/ EndRoom
  BY <1>2 DEF ClearHistory, EndRoom, MayClear, ClearStore, LastSave, storeVars, pageVars
<1>3. CASE \E id \in Ids : OnDelete(id) \/ OnDeleteFrame(id)
  BY <1>3, AftersAre, DropLast DEF OnDelete, OnDeleteFrame
<1>4. CASE \E id \in Ids : PinItem(id)
  BY <1>4, PinLast
<1>5. CASE SocketOpens \/ SocketCloses
  BY <1>5 DEF SocketOpens, SocketCloses, LastSave, pageVars, storeVars
<1>6. CASE OnHello
  BY <1>6 DEF OnHello, LastSave, CalmInv, Phases, storeVars
<1>7. CASE \E id \in Ids : OnClip(id)
  BY <1>7, AddItemLast DEF OnClip
<1>8. CASE Load
  BY <1>8 DEF Load, LastSave, CalmInv, Phases
<1>9. CASE \E k \in 1 .. MaxSaves : SaveDone(k) \/ SaveFails(k)
  BY <1>9, SaveDoneLast, SaveFailsLast
<1>10. CASE Reload
  BY <1>10 DEF Reload, LastSave
<1>11. CASE \E id \in Ids : Expire(id)
  BY <1>11 DEF Expire, LastSave, pageVars, storeVars
<1>12. CASE UNCHANGED vars
  BY <1>12 DEF vars, pageVars, storeVars, LastSave
<1> QED BY <1>1, <1>2, <1>3, <1>4, <1>5, <1>6, <1>7, <1>8, <1>9, <1>10, <1>11, <1>12
        DEF Next, UserStep, ClientStep, StoreStep

\* What was done is on disk once no save is under way, if encryptions end in the
\* order in which they started: the last save under way always has what the store
\* has, a save that failed for the quota included, as its retry comes last.
THEOREM DiskIsStore == ASSUME CALM, ORDERED PROVE Spec => []DiskCatchesUp
<1>1. Init => LastSave
  BY DEF Init, LastSave
<1>2. Typed /\ CalmInv /\ LastSave /\ [Next]_vars => LastSave'
  BY LastNext
<1>3. LastSave => DiskCatchesUp
  BY DEF LastSave, DiskCatchesUp
<1> QED BY <1>1, <1>2, <1>3, CalmAlways, PTL DEF Spec
=============================================================================
