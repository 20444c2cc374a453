-------------------------- MODULE WebSessionProofs --------------------------
(***************************************************************************)
(* Proofs about WebSession, for any number of clicks, copies and clipboard *)
(* reads under way.                                                        *)
(*                                                                         *)
(* NothingRunsOn is not inductive.  IInv adds why a start that was         *)
(* superseded cannot arm: a pending probe has a gen the watcher has        *)
(* reached, and once the page is left that gen is in the past              *)
(* (StartsKnown); and how a client relates to the page it was made by      *)
(* (PageKnown).                                                            *)
(***************************************************************************)
EXTENDS WebSession, TLAPS

StartsKnown ==
    /\ \A g \in starts : g <= startGen /\ (g = startGen => Mounted)
    /\ Mounted \/ phase = "none" => startGen <= MaxGen

PageKnown ==
    /\ Mounted => phase # "none" /\ (swapped \/ route = clientRoom)
    /\ phase # "none" => Mounted \/ early \/ client = "off"

IInv == TypeOK /\ NothingRunsOn /\ StartsKnown /\ PageKnown

-----------------------------------------------------------------------------
(* onMount goes from each phase to the next. *)

LEMMA PhaseNames ==
    {Phases[k] : k \in DOMAIN Phases} =
        {"none", "deriving", "loading", "fetching", "connecting", "ready"}
<1>1. DOMAIN Phases = 1 .. 6
  BY DEF Phases
<1>2. 1 .. 6 = {1, 2, 3, 4, 5, 6}
  OBVIOUS
<1>3. /\ Phases[1] = "none" /\ Phases[2] = "deriving" /\ Phases[3] = "loading"
      /\ Phases[4] = "fetching" /\ Phases[5] = "connecting" /\ Phases[6] = "ready"
  BY DEF Phases
<1> QED BY <1>1, <1>2, <1>3

LEMMA OnMountMoves ==
    ASSUME OnMount
    PROVE  \/ phase = "deriving" /\ phase' = "loading"
           \/ phase = "loading" /\ phase' = "fetching"
           \/ phase = "fetching" /\ phase' = "connecting"
           \/ phase = "connecting" /\ phase' = "ready"
<1>1. PICK k \in 2 .. 5 : phase = Phases[k] /\ phase' = Phases[k + 1]
  BY DEF OnMount
<1>2. k = 2 \/ k = 3 \/ k = 4 \/ k = 5
  BY <1>1
<1>3. 2 + 1 = 3 /\ 3 + 1 = 4 /\ 4 + 1 = 5 /\ 5 + 1 = 6
  OBVIOUS
<1>4. /\ Phases[2] = "deriving" /\ Phases[3] = "loading" /\ Phases[4] = "fetching"
      /\ Phases[5] = "connecting" /\ Phases[6] = "ready"
  BY DEF Phases
<1> QED BY <1>1, <1>2, <1>3, <1>4

-----------------------------------------------------------------------------
(* One lemma for the steps of each part. *)

\* The parts of IInv that a step can leave alone.
PagePart == /\ route \in Routes /\ clientRoom \in Routes
            /\ phase \in {Phases[k] : k \in DOMAIN Phases}
            /\ client \in {"none", "idle", "up", "off"}
            /\ client = "none" <=> phase \notin {"connecting", "ready"}
            /\ {creating, early, swapped} \subseteq BOOLEAN
            /\ client = "up" => early \/ swapped \/ route = clientRoom
            /\ PageKnown

WatchPart == /\ startGen \in 0 .. MaxGen + 1 /\ timer \in 0 .. startGen
             /\ intervals \subseteq Gens /\ starts \subseteq Gens
             /\ watching \in BOOLEAN
             /\ intervals \subseteq {timer}
             /\ intervals # {} => Mounted /\ watching
             /\ StartsKnown

ReadPart == /\ last \in Texts \cup {Unread} /\ ticks \in 0 .. MaxTicks
            /\ given \subseteq Texts

WorldPart == /\ clip \in Texts /\ permission \in {"ask", "granted", "denied"}
             /\ visible \in BOOLEAN /\ fresh \subseteq Texts

DraftPart == /\ draft \in {"none", "typed", "over", "clip"}
             /\ filling \subseteq {"prefill", "fill"}

LEMMA Parts == IInv <=> PagePart /\ WatchPart /\ ReadPart /\ WorldPart /\ DraftPart
  BY DEF IInv, TypeOK, NothingRunsOn, PagePart, WatchPart, ReadPart, WorldPart, DraftPart

LEMMA PartsNext == IInv' <=> (PagePart /\ WatchPart /\ ReadPart /\ WorldPart /\ DraftPart)'
  BY DEF IInv, TypeOK, NothingRunsOn, PagePart, WatchPart, ReadPart, WorldPart, DraftPart

LEMMA InitOK == ASSUME SessionAssumption PROVE Init => IInv
<1> SUFFICES ASSUME Init PROVE PagePart /\ WatchPart /\ ReadPart /\ WorldPart /\ DraftPart
  BY Parts
<1>1. PagePart
  BY PhaseNames DEF Init, PagePart, PageKnown, Mounted, Routes, Landing
<1>2. WatchPart
  <2>1. startGen = 0 /\ timer = 0 /\ 0 \in 0 .. MaxGen + 1 /\ 0 \in 0 .. 0 /\ 0 <= MaxGen
    BY DEF Init, SessionAssumption
  <2>2. intervals = {} /\ starts = {} /\ watching = FALSE
    BY DEF Init
  <2>3. ~Mounted
    BY DEF Init, Mounted
  <2> QED BY <2>1, <2>2, <2>3 DEF WatchPart, StartsKnown
<1>3. ReadPart /\ WorldPart /\ DraftPart
  BY DEF Init, ReadPart, WorldPart, DraftPart, SessionAssumption, Texts, Unread
<1> QED BY <1>1, <1>2, <1>3
LEMMA ToggleKeeps ==
    ASSUME SessionAssumption, IInv, ToggleWatch PROVE IInv'
<1>1. PagePart' /\ ReadPart' /\ WorldPart' /\ DraftPart'
  BY Parts DEF ToggleWatch, Start, Stopped, pageVars, worldVars, composer,
               PagePart, PageKnown, Mounted, ReadPart, WorldPart, DraftPart
<1>2. WatchPart'
  <2>0. /\ WatchPart /\ Mounted /\ Mounted' /\ phase' = phase /\ startGen < MaxGen
        /\ MaxGen \in Nat /\ startGen \in Nat /\ timer \in Nat
    BY Parts DEF ToggleWatch, pageVars, Mounted, WatchPart, SessionAssumption
  <2>1. CASE watching
    <3>1. startGen' = startGen + 1 /\ timer' = 0 /\ intervals' = intervals \ {timer}
          /\ starts' = starts /\ watching' = FALSE
      BY <2>1 DEF ToggleWatch, Stopped
    <3>2. intervals' = {}
      BY <2>0, <3>1 DEF WatchPart
    <3>3. \A g \in starts : g \in Int /\ g <= startGen
      BY <2>0 DEF WatchPart, StartsKnown, Gens
    <3>4. StartsKnown'
      BY <2>0, <3>1, <3>3 DEF StartsKnown
    <3>5. startGen + 1 \in 0 .. MaxGen + 1 /\ 0 \in 0 .. startGen + 1
      BY <2>0
    <3> QED BY <2>0, <3>1, <3>2, <3>4, <3>5 DEF WatchPart
  <2>2. CASE ~watching
    <3>1. intervals' = {} /\ timer' = timer
      BY <2>0, <2>2 DEF ToggleWatch, Start, WatchPart
    <3>2. CASE timer # 0
      BY <2>0, <2>2, <3>1, <3>2 DEF ToggleWatch, Start, WatchPart, StartsKnown
    <3>3. CASE timer = 0
      <4>1. startGen' = startGen + 1 /\ starts' = starts \cup {startGen + 1}
            /\ watching' = watching
        BY <2>2, <3>3 DEF ToggleWatch, Start
      <4>2. startGen + 1 \in Gens /\ startGen + 1 \in 0 .. MaxGen + 1
            /\ timer \in 0 .. startGen + 1
        BY <2>0, <3>3 DEF Gens
      <4>3. \A g \in starts : g \in Int /\ g <= startGen
        BY <2>0 DEF WatchPart, StartsKnown, Gens
      <4>4. StartsKnown'
        BY <2>0, <4>1, <4>3 DEF StartsKnown
      <4> QED BY <2>0, <3>1, <4>1, <4>2, <4>4 DEF WatchPart
    <3> QED BY <3>2, <3>3
  <2> QED BY <2>1, <2>2
<1> QED BY <1>1, <1>2, PartsNext

LEMMA ProbedKeeps ==
    ASSUME SessionAssumption, IInv, NEW g \in Gens, Probed(g) PROVE IInv'
<1>1. PagePart' /\ ReadPart' /\ WorldPart' /\ DraftPart'
  BY Parts DEF Probed, pageVars, worldVars, composer,
               PagePart, PageKnown, Mounted, ReadPart, WorldPart, DraftPart
<1>2. WatchPart'
  <2>0. /\ WatchPart /\ Mounted' = Mounted /\ phase' = phase /\ startGen' = startGen
        /\ starts' = starts \ {g} /\ g \in starts /\ g \in Nat
        /\ startGen \in Nat /\ MaxGen \in Nat
    BY Parts DEF Probed, pageVars, Mounted, WatchPart, Gens, SessionAssumption
  <2>1. StartsKnown'
    BY <2>0 DEF WatchPart, StartsKnown
  <2>2. CASE permission = "granted" /\ MayArm(g)
    <3>1. timer' = g /\ intervals' = intervals \cup {g} /\ watching' = TRUE
      BY <2>2 DEF Probed
    <3>2. intervals = {}
      BY <2>0, <2>2 DEF WatchPart, MayArm, Gens
    <3>3. Mounted /\ g \in 0 .. startGen
      BY <2>0, <2>2 DEF WatchPart, StartsKnown, MayArm
    <3> QED BY <2>0, <2>1, <3>1, <3>2, <3>3 DEF WatchPart
  <2>3. CASE ~(permission = "granted" /\ MayArm(g))
    <3>1. timer' = timer /\ intervals' = intervals /\ watching' \in {TRUE, watching}
      BY <2>3 DEF Probed
    <3> QED BY <2>0, <2>1, <3>1 DEF WatchPart
  <2> QED BY <2>2, <2>3
<1> QED BY <1>1, <1>2, PartsNext

\* The page is shown, or is given another room.
LEMMA NavigateKeeps ==
    ASSUME SessionAssumption, IInv, NEW to \in Routes \ {Landing}, Navigate(to),
           Mounted \/ phase = "none", creating' \in BOOLEAN
    PROVE  IInv'
<1>1. ReadPart' /\ WorldPart' /\ DraftPart'
  BY Parts DEF Navigate, watcherVars, worldVars, ReadPart, WorldPart, DraftPart
<1>2. WatchPart'
  <2>1. Mounted' /\ UNCHANGED <<startGen, timer, intervals, starts, watching>>
    BY DEF Navigate, watcherVars, Mounted
  <2>2. startGen <= MaxGen
    BY Parts DEF WatchPart, StartsKnown
  <2> QED BY <2>1, <2>2, Parts DEF WatchPart, StartsKnown
<1>3. PagePart'
  <2>1. CASE Mounted
    BY <2>1, Parts DEF Navigate, PagePart, PageKnown, Mounted
  <2>2. CASE ~Mounted
    BY <2>2, Parts, PhaseNames DEF Navigate, PagePart, PageKnown, Mounted
  <2> QED BY <2>1, <2>2
<1> QED BY <1>1, <1>2, <1>3, PartsNext
LEMMA OnMountKeeps ==
    ASSUME SessionAssumption, IInv, OnMount PROVE IInv'
<1>0. /\ \/ phase = "deriving" /\ phase' = "loading"
         \/ phase = "loading" /\ phase' = "fetching"
         \/ phase = "fetching" /\ phase' = "connecting"
         \/ phase = "connecting" /\ phase' = "ready"
      /\ client' = CASE phase' = "connecting"                 -> "idle"
                     [] phase' = "ready" /\ client = "idle"   -> "up"
                     [] OTHER                                 -> client
      /\ UNCHANGED <<route, creating, clientRoom, early, swapped,
                     watcherVars, worldVars, composer>>
  BY OnMountMoves DEF OnMount
<1>1. WatchPart' /\ ReadPart' /\ WorldPart' /\ DraftPart'
  BY <1>0, Parts DEF watcherVars, worldVars, composer, WatchPart, StartsKnown, Mounted,
                     ReadPart, WorldPart, DraftPart
<1>2. PagePart'
  <2>1. /\ UNCHANGED <<route, creating, clientRoom, early, swapped>>
        /\ PagePart /\ Mounted' = Mounted
    BY <1>0, Parts DEF Mounted
  <2>2. phase' # "none" /\ phase # "none"
    BY <1>0
  <2>3. client' \in {"none", "idle", "up", "off"}
        /\ (client' = "none" <=> phase' \notin {"connecting", "ready"})
        /\ (client = "off" => client' = "off")
        /\ (client' = "up" => client \in {"idle", "up"})
    BY <1>0, <2>1 DEF PagePart
  <2>4. PageKnown'
    BY <2>1, <2>2, <2>3 DEF PagePart, PageKnown
  <2>5. client' = "up" => early \/ swapped \/ route = clientRoom
    BY <2>1, <2>2, <2>3 DEF PagePart, PageKnown
  <2>6. phase' \in {Phases[k] : k \in DOMAIN Phases}
    BY <1>0, PhaseNames
  <2> QED BY <2>1, <2>3, <2>4, <2>5, <2>6 DEF PagePart
<1> QED BY <1>1, <1>2, PartsNext

LEMMA LeaveKeeps ==
    ASSUME SessionAssumption, IInv, Leave PROVE IInv'
<1>0. /\ PagePart /\ WatchPart /\ Mounted /\ ~Mounted' /\ phase # "none" /\ phase' = phase
      /\ MaxGen \in Nat /\ startGen \in Nat /\ startGen <= MaxGen
  BY Parts DEF Leave, Mounted, PagePart, PageKnown, WatchPart, StartsKnown, SessionAssumption
<1>1. ReadPart' /\ WorldPart' /\ DraftPart'
  BY Parts DEF Leave, worldVars, composer, ReadPart, WorldPart, DraftPart
<1>2. WatchPart'
  <2>1. startGen' = startGen + 1 /\ timer' = 0 /\ intervals' = {}
        /\ starts' = starts /\ watching' = watching
    BY <1>0 DEF Leave, Stopped, WatchPart
  <2>2. \A g \in starts : g \in Int /\ g <= startGen
    BY <1>0 DEF WatchPart, StartsKnown, Gens
  <2>3. StartsKnown'
    BY <1>0, <2>1, <2>2 DEF StartsKnown
  <2>4. startGen + 1 \in 0 .. MaxGen + 1 /\ 0 \in 0 .. startGen + 1
    BY <1>0
  <2> QED BY <1>0, <2>1, <2>3, <2>4 DEF WatchPart
<1>3. PagePart'
  <2>1. /\ route' = Landing /\ client' = Disconnected /\ early' = (client = "none")
        /\ UNCHANGED <<creating, phase, clientRoom, swapped>>
    BY DEF Leave
  <2> QED BY <1>0, <2>1 DEF PagePart, PageKnown, Disconnected, Routes
<1> QED BY <1>1, <1>2, <1>3, PartsNext

\* The other steps of the page, which leave its life and its watcher alone.
LEMMA LandingKeeps ==
    ASSUME SessionAssumption, IInv, StartRoom \/ NotCreated PROVE IInv'
<1>1. WatchPart' /\ ReadPart' /\ WorldPart' /\ DraftPart'
  BY Parts DEF StartRoom, NotCreated, watcherVars, worldVars, composer, WatchPart, StartsKnown,
               Mounted, ReadPart, WorldPart, DraftPart
<1>2. PagePart'
  BY Parts DEF StartRoom, NotCreated, PagePart, PageKnown, Mounted
<1> QED BY <1>1, <1>2, PartsNext

LEMMA ReadingKeeps ==
    ASSUME SessionAssumption, IInv, Tick \/ Read PROVE IInv'
<1>1. PagePart' /\ WatchPart' /\ WorldPart' /\ DraftPart'
  BY Parts DEF Tick, Read, pageVars, worldVars, composer, PagePart, PageKnown, WatchPart,
               StartsKnown, Mounted, WorldPart, DraftPart
<1>2. ReadPart'
  <2>0. ReadPart /\ clip \in Texts /\ ticks \in Nat /\ MaxTicks \in Nat
    BY Parts DEF ReadPart, WorldPart, SessionAssumption
  <2>1. CASE Tick
    <3>1. ticks' = ticks + 1 /\ ticks < MaxTicks /\ UNCHANGED <<last, given>>
      BY <2>1 DEF Tick
    <3> QED BY <2>0, <3>1 DEF ReadPart
  <2>2. CASE Read
    <3>1. ticks' = ticks - 1 /\ ticks > 0 /\ last' \in {last, clip}
          /\ given' \in {given, given \cup {clip}}
      BY <2>2 DEF Read, Heard
    <3> QED BY <2>0, <3>1 DEF ReadPart
  <2> QED BY <2>1, <2>2
<1> QED BY <1>1, <1>2, PartsNext

LEMMA ComposerKeeps ==
    ASSUME SessionAssumption, IInv, Type \/ Prefilled \/ Fill \/ Filled \/ Send PROVE IInv'
<1>1. UNCHANGED <<pageVars, watcherVars, worldVars>>
  BY DEF Type, Prefilled, Fill, Filled, Send, Draft
<1>2. PagePart' /\ WatchPart' /\ ReadPart' /\ WorldPart'
  BY <1>1, Parts DEF pageVars, watcherVars, worldVars, PagePart, PageKnown, WatchPart,
                     StartsKnown, Mounted, ReadPart, WorldPart
<1>3. DraftPart'
  BY Parts DEF Type, Prefilled, Fill, Filled, Send, Draft, Prefill, DraftPart
<1> QED BY <1>2, <1>3, PartsNext

LEMMA WorldKeeps ==
    ASSUME SessionAssumption, IInv, Copy \/ Permit \/ Switch PROVE IInv'
<1>1. PagePart' /\ WatchPart' /\ ReadPart' /\ DraftPart'
  BY Parts DEF Copy, Permit, Switch, pageVars, watcherVars, composer, PagePart, PageKnown,
               WatchPart, StartsKnown, Mounted, ReadPart, DraftPart
<1>2. WorldPart'
  <2>1. CASE Copy
    <3>1. clip \in Nat /\ clip < MaxCopies /\ MaxCopies \in Nat /\ WorldPart
      BY <2>1, Parts DEF Copy, WorldPart, Texts, SessionAssumption
    <3>2. clip + 1 \in Texts
      BY <3>1 DEF Texts
    <3> QED BY <2>1, <3>1, <3>2 DEF Copy, WorldPart
  <2>2. CASE Permit
    BY <2>2, Parts DEF Permit, WorldPart
  <2>3. CASE Switch
    BY <2>3, Parts DEF Switch, WorldPart
  <2> QED BY <2>1, <2>2, <2>3
<1> QED BY <1>1, <1>2, PartsNext

LEMMA NextOK ==
    ASSUME SessionAssumption, IInv, [Next]_vars PROVE IInv'
<1>1. CASE Created \/ Join
  <2>1. \E to \in Routes \ {Landing} : Navigate(to)
    BY <1>1 DEF Created, Join, Routes, Landing
  <2>2. (Mounted \/ phase = "none") /\ creating' \in BOOLEAN
    BY <1>1, Parts DEF Created, Join, PagePart
  <2> QED BY <2>1, <2>2, NavigateKeeps
<1>2. CASE StartRoom \/ NotCreated
  BY <1>2, LandingKeeps
<1>3. CASE OnMount
  BY <1>3, OnMountKeeps
<1>4. CASE Leave
  BY <1>4, LeaveKeeps
<1>5. CASE ToggleWatch
  BY <1>5, ToggleKeeps
<1>6. CASE \E g \in Gens : Probed(g)
  BY <1>6, ProbedKeeps
<1>7. CASE Tick \/ Read
  BY <1>7, ReadingKeeps
<1>8. CASE Type \/ Prefilled \/ Fill \/ Filled \/ Send
  BY <1>8, ComposerKeeps
<1>9. CASE Copy \/ Permit \/ Switch
  BY <1>9, WorldKeeps
<1>10. CASE UNCHANGED vars
  <2>1. UNCHANGED <<pageVars, watcherVars, worldVars, composer>>
    BY <1>10 DEF vars
  <2>2. PagePart'
    BY <2>1, Parts DEF pageVars, PagePart, PageKnown, Mounted
  <2>3. WatchPart'
    BY <2>1, Parts DEF pageVars, watcherVars, WatchPart, StartsKnown, Mounted
  <2>4. ReadPart' /\ WorldPart' /\ DraftPart'
    BY <2>1, Parts DEF watcherVars, worldVars, composer, ReadPart, WorldPart, DraftPart
  <2> QED BY <2>2, <2>3, <2>4, PartsNext
<1> QED BY <1>1, <1>2, <1>3, <1>4, <1>5, <1>6, <1>7, <1>8, <1>9, <1>10 DEF Next

-----------------------------------------------------------------------------
(* The theorems. *)

\* IInv holds in every state of a visit.
THEOREM Inductive ==
    ASSUME SessionAssumption PROVE Spec => []IInv
<1>1. Init => IInv
  BY InitOK
<1>2. IInv /\ [Next]_vars => IInv'
  BY NextOK
<1> QED BY <1>1, <1>2, PTL DEF Spec

\* Every variable keeps its range, and a page has a client from the moment onMount
\* has created it.
THEOREM TypeCorrect ==
    ASSUME SessionAssumption PROVE Spec => []TypeOK
<1>1. IInv => TypeOK
  BY DEF IInv
<1> QED BY <1>1, Inductive, PTL

\* At most one interval reads the clipboard and never after the page is left or the
\* toggle is off, however many clicks, prompts and reads overlap (clipboard.ts
\* start, stop; room.svelte toggleWatch, onDestroy); no client outlives its page but
\* in the two cases named.
THEOREM NothingOutlivesThePage ==
    ASSUME SessionAssumption PROVE Spec => []NothingRunsOn
<1>1. IInv => NothingRunsOn
  BY DEF IInv
<1> QED BY <1>1, Inductive, PTL

\* The composer's first read of the clipboard never overwrites what was typed while
\* it waited (composer.svelte onMount).
THEOREM TypedTextStays == Spec => TypedKept
<1> DEFINE A == (draft \in {"typed", "over"} /\ draft' = "clip") => "fill" \in filling \ filling'
<1>1. [Next]_vars => [A]_vars
  <2> SUFFICES ASSUME Next PROVE A
    OBVIOUS
  <2>1. CASE Type \/ Prefilled \/ Fill \/ Filled \/ Send
    BY <2>1 DEF Type, Prefilled, Fill, Filled, Send, Draft, Prefill
  <2>2. CASE ~(Type \/ Prefilled \/ Fill \/ Filled \/ Send)
    <3>1. draft' = draft
      BY <2>2 DEF Next, StartRoom, Created, NotCreated, Join, Navigate, OnMount, Leave,
                  ToggleWatch, Probed, Tick, Read, Copy, Permit, Switch, composer
    <3> QED BY <3>1
  <2> QED BY <2>1, <2>2
<1> QED BY <1>1, PTL DEF Spec, TypedKept
=============================================================================
