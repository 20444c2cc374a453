----------------------------- MODULE WebSession -----------------------------
(***************************************************************************)
(* A visit to a room in the browser: landing.svelte, the router, the life  *)
(* of the page (onMount, onDestroy and the sync toggle of room.svelte),    *)
(* the composer, and the ClipboardWatcher of lib/clipboard.ts.             *)
(*                                                                         *)
(* Almost every step waits for something (a key, an answer of the relay, a *)
(* permission prompt, a read of the clipboard), and the user goes on       *)
(* meanwhile: clicks again, types, copies, leaves.  Continuations do not   *)
(* look whether the page they belong to is still there.  The question is   *)
(* what runs when it should not, and whether what is copied goes out.      *)
(*                                                                         *)
(* Texts on the clipboard are numbered in the order they are copied.  One  *)
(* tab and one visit: a page that was left is not entered again.           *)
(***************************************************************************)
EXTENDS Integers, FiniteSets

CONSTANTS
    MaxGen,      \* bound on the clicks on the toggle
    MaxCopies,   \* bound on the texts copied
    MaxTicks     \* bound on the clipboard reads under way

ASSUME SessionAssumption == MaxGen \in Nat /\ MaxCopies \in Nat /\ MaxTicks \in Nat \ {0}

Landing == "landing"
Routes  == {Landing, "created", "typed"}
Phases  == <<"none", "deriving", "loading", "fetching", "connecting", "ready">>
Texts   == 0 .. MaxCopies
Unread  == -1
Gens    == 1 .. MaxGen + 1

VARIABLES
    route,       \* what the page shows: the landing, or a room of either origin
    creating,    \* POST /api/room has not been answered
    phase,       \* where onMount of the room page is
    client,      \* "none", "idle" before its first socket, "up", or "off"
    clientRoom,  \* the room it was made for
    watching,    \* what the toggle shows
    startGen, timer, intervals,   \* timer: the interval the watcher knows of, or 0
    starts,      \* the starts whose probe is pending, by their gen
    last,        \* the watcher's last text
    ticks,       \* reads of the clipboard under way
    clip,        \* what is on the clipboard
    permission,  \* of the clipboard: "ask", "granted" or "denied"
    visible,     \* the tab
    draft,       \* the composer's text: "none", "typed", "over" the limit, "clip"
    filling,     \* the reads it waits for: "prefill" and "fill"
    (* what has happened *)
    given,       \* the texts the watcher handed to the client
    fresh,       \* those copied since the page was ready
    early,       \* the page was left before it had a client
    swapped      \* one room replaced another under the page

pageVars    == <<route, creating, phase, client, clientRoom, early, swapped>>
watcherVars == <<watching, startGen, timer, intervals, starts, last, ticks, given>>
worldVars   == <<clip, permission, visible, fresh>>
composer    == <<draft, filling>>
vars        == <<pageVars, watcherVars, worldVars, composer>>

Mounted == route # Landing

-----------------------------------------------------------------------------
(* The watcher. *)

\* Mutant: a start goes through though it has been superseded.
MayArm_Stale(g) == timer = 0

\* What start checks after its probe.
MayArm(g) == timer = 0 /\ g = startGen

\* start, up to its probe; with an interval it returns at once, and the sync shows as on.
Start ==
    /\ IF timer # 0
       THEN watching' = TRUE /\ UNCHANGED <<startGen, starts>>
       ELSE /\ startGen' = startGen + 1
            /\ starts' = starts \cup {startGen + 1}
            /\ UNCHANGED watching
    /\ UNCHANGED <<timer, intervals, last, ticks, given>>

\* Mutant: the interval is forgotten and not cleared.
Stopped_Forgets == startGen' = startGen + 1 /\ timer' = 0 /\ intervals' = intervals

Stopped == startGen' = startGen + 1 /\ timer' = 0 /\ intervals' = intervals \ {timer}

\* toggleWatch, up to its await.
ToggleWatch ==
    /\ Mounted /\ startGen < MaxGen
    /\ IF watching
       THEN Stopped /\ watching' = FALSE /\ UNCHANGED <<starts, last, ticks, given>>
       ELSE Start
    /\ UNCHANGED <<pageVars, worldVars, composer>>

\* The probe is answered: start arms an interval or not, and toggleWatch shows the
\* sync as on in either case; or it is refused, which is a toast.
Probed(g) ==
    /\ g \in starts /\ permission # "ask"
    /\ starts' = starts \ {g}
    /\ IF permission = "granted"
       THEN /\ watching' = TRUE
            /\ IF MayArm(g) THEN timer' = g /\ intervals' = intervals \cup {g}
                            ELSE UNCHANGED <<timer, intervals>>
       ELSE UNCHANGED <<watching, timer, intervals>>
    /\ UNCHANGED <<startGen, last, ticks, given, pageVars, worldVars, composer>>

\* tick, up to its read.
Tick ==
    /\ intervals # {} /\ visible /\ ticks < MaxTicks
    /\ ticks' = ticks + 1
    /\ UNCHANGED <<watching, startGen, timer, intervals, starts, last, given,
                   pageVars, worldVars, composer>>

\* Mutant: nobody is told of any text but the first.
Heard_Once(t) == IF phase = "ready" /\ last = Unread THEN given \cup {t} ELSE given

\* The listener is there once the page is ready.
Heard(t) == IF phase = "ready" THEN given \cup {t} ELSE given

\* The rest of tick; nothing asks whether the watcher has been stopped meanwhile.
Read ==
    /\ ticks > 0 /\ permission # "ask"
    /\ ticks' = ticks - 1
    /\ IF permission = "granted" /\ clip # last
       THEN last' = clip /\ given' = Heard(clip)
       ELSE UNCHANGED <<last, given>>
    /\ UNCHANGED <<watching, startGen, timer, intervals, starts, pageVars, worldVars, composer>>

-----------------------------------------------------------------------------
(* Landing, router and the life of the room page. *)

\* Mutants: the page goes without disconnecting its client; or drops it.
Disconnected_Not == client
Disconnected_Drops == "none"

\* disconnect, if there is a client.
Disconnected == IF client = "none" THEN "none" ELSE "off"

\* popstate: the page that is shown is mounted, left, or given another room.
Navigate(to) ==
    /\ route' = to
    /\ phase' = IF ~Mounted THEN "deriving" ELSE phase
    /\ clientRoom' = IF ~Mounted THEN to ELSE clientRoom
    /\ swapped' = (swapped \/ (Mounted /\ to # route))
    /\ filling' = IF ~Mounted THEN {"prefill"} ELSE filling
    /\ UNCHANGED <<client, early, watcherVars, worldVars, draft>>

StartRoom ==
    /\ ~Mounted /\ phase = "none" /\ ~creating
    /\ creating' = TRUE
    /\ UNCHANGED <<route, phase, client, clientRoom, early, swapped,
                   watcherVars, worldVars, composer>>

\* The answer moves the tab to the new room wherever it is by now.
Created ==
    /\ creating /\ (Mounted \/ phase = "none")
    /\ creating' = FALSE
    /\ Navigate("created")

NotCreated ==
    /\ creating
    /\ creating' = FALSE
    /\ UNCHANGED <<route, phase, client, clientRoom, early, swapped,
                   watcherVars, worldVars, composer>>

Join ==
    /\ ~Mounted /\ phase = "none"
    /\ Navigate("typed")
    /\ UNCHANGED creating

\* onMount, from one await to the next, wherever the page is: the key, the history,
\* the servers and the client, its connection and the watcher's listener.
OnMount ==
    /\ \E k \in 2 .. 5 : phase = Phases[k] /\ phase' = Phases[k + 1]
    /\ client' = CASE phase' = "connecting"                 -> "idle"
                   [] phase' = "ready" /\ client = "idle"   -> "up"
                   [] OTHER                                 -> client
    /\ UNCHANGED <<route, creating, clientRoom, early, swapped,
                   watcherVars, worldVars, composer>>

\* Back, or End room, which disconnects too and goes home: onDestroy.
Leave ==
    /\ Mounted
    /\ route' = Landing
    /\ client' = Disconnected
    /\ early' = (client = "none")
    /\ Stopped
    /\ UNCHANGED <<creating, phase, clientRoom, swapped, watching, starts, last, ticks, given,
                   worldVars, composer>>

-----------------------------------------------------------------------------
(* The composer of the page. *)

Draft(to) == draft' = to /\ UNCHANGED <<pageVars, watcherVars, worldVars>>

Type ==
    /\ Mounted
    /\ \E to \in {"none", "typed", "over"} : to # draft /\ Draft(to)
    /\ UNCHANGED filling

\* Mutant: the clipboard's text wins.
Prefill_Always == "clip"

\* What the composer's onMount makes of its read, unless something was typed meanwhile.
Prefill == IF draft = "none" THEN "clip" ELSE draft

Prefilled ==
    /\ "prefill" \in filling /\ permission # "ask"
    /\ filling' = filling \ {"prefill"}
    /\ Draft(IF permission = "granted" THEN Prefill ELSE draft)

Fill ==
    /\ Mounted
    /\ filling' = filling \cup {"fill"}
    /\ Draft(draft)

Filled ==
    /\ "fill" \in filling /\ permission # "ask"
    /\ filling' = filling \ {"fill"}
    /\ Draft(IF permission = "granted" THEN "clip" ELSE draft)

\* send: a text over the limit stays; any other is gone, though sendText may find
\* no client, or one without a key.
Send ==
    /\ Mounted /\ draft \in {"typed", "clip"}
    /\ Draft("none")
    /\ UNCHANGED filling

-----------------------------------------------------------------------------
(* The user elsewhere, and the browser. *)

Copy ==
    /\ clip < MaxCopies
    /\ clip' = clip + 1
    /\ fresh' = IF phase = "ready" THEN fresh \cup {clip + 1} ELSE fresh
    /\ UNCHANGED <<permission, visible, pageVars, watcherVars, composer>>

Permit ==
    /\ permission' \in {"granted", "denied"} \ {permission}
    /\ UNCHANGED <<clip, visible, fresh, pageVars, watcherVars, composer>>

Switch ==
    /\ visible' = ~visible
    /\ UNCHANGED <<clip, permission, fresh, pageVars, watcherVars, composer>>

-----------------------------------------------------------------------------
Init ==
    /\ route = Landing /\ creating = FALSE /\ phase = "none"
    /\ client = "none" /\ clientRoom = Landing
    /\ watching = FALSE /\ startGen = 0 /\ timer = 0 /\ intervals = {} /\ starts = {}
    /\ last = Unread /\ ticks = 0
    /\ clip = 0 /\ permission = "ask" /\ visible = TRUE
    /\ draft = "none" /\ filling = {}
    /\ given = {} /\ fresh = {} /\ early = FALSE /\ swapped = FALSE

Next ==
    \/ StartRoom \/ Created \/ NotCreated \/ Join \/ OnMount \/ Leave
    \/ ToggleWatch \/ (\E g \in Gens : Probed(g)) \/ Tick \/ Read
    \/ Type \/ Prefilled \/ Fill \/ Filled \/ Send
    \/ Copy \/ Permit \/ Switch

Spec == Init /\ [][Next]_vars

\* The interval ticks, and the browser answers a read.
Fairness == WF_vars(Tick) /\ WF_vars(Read)

FairSpec == Spec /\ Fairness

-----------------------------------------------------------------------------
(* What should hold. *)

\* The values the variables range over; from its creation on a page has its client.
TypeOK ==
    /\ route \in Routes /\ clientRoom \in Routes
    /\ phase \in {Phases[k] : k \in DOMAIN Phases}
    /\ client \in {"none", "idle", "up", "off"}
    /\ client = "none" <=> phase \notin {"connecting", "ready"}
    /\ startGen \in 0 .. MaxGen + 1 /\ timer \in 0 .. startGen
    /\ intervals \subseteq Gens /\ starts \subseteq Gens
    /\ last \in Texts \cup {Unread} /\ clip \in Texts /\ ticks \in 0 .. MaxTicks
    /\ permission \in {"ask", "granted", "denied"}
    /\ draft \in {"none", "typed", "over", "clip"} /\ filling \subseteq {"prefill", "fill"}
    /\ given \subseteq Texts /\ fresh \subseteq Texts
    /\ {creating, watching, visible, early, swapped} \subseteq BOOLEAN

\* Nothing runs on: at most one interval reads the clipboard, one the watcher can
\* stop, and only while the room page is open and shows the sync as on, however
\* clicks and permission prompts overlap; and a client that is up belongs to the room
\* the page shows, unless the page was left before it had a client, or was given
\* another room.
NothingRunsOn ==
    /\ intervals \subseteq {timer}
    /\ intervals # {} => Mounted /\ watching
    /\ client = "up" => early \/ swapped \/ route = clientRoom

\* What is copied flows to the room: a text copied since the page was ready is handed
\* to the client, as long as it stays on the clipboard, an interval runs, and the
\* page may read the clipboard and is in front.
Flowing(t) == clip = t /\ intervals # {} /\ visible /\ permission = "granted"

CopyFlows == \A t \in Texts : (t \in fresh /\ Flowing(t)) ~> (t \in given \/ ~Flowing(t))

\* Typed text is the user's: it leaves the composer only as he edits it, sends it or
\* asks for the clipboard, not for a read the page began before he typed.
TypedKept ==
    [][(draft \in {"typed", "over"} /\ draft' = "clip") => "fill" \in filling \ filling']_vars
=============================================================================
