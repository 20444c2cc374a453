------------------------------ MODULE RoomPage ------------------------------
(***************************************************************************)
(* One page of one room: the list it shows (apps/web/src/routes/           *)
(* room.svelte), the encrypted copy in localStorage (PersistedItems in     *)
(* lib/persist.ts), and the timers that empty the list of an ephemeral     *)
(* room (ExpiryScheduler in lib/ephemeral.ts).                             *)
(*                                                                         *)
(* The list and its copy are two sequences that the page changes one       *)
(* after the other; the copy is written by saves that encrypt the list as  *)
(* it is when they start and write it when the encryption is done, with    *)
(* the handlers that await them going on afterwards.  A page learns that   *)
(* its room is ephemeral from the first hello.                             *)
(*                                                                         *)
(* An item is its id, in the order in which ids appear, and its pin.  Of   *)
(* the client the page needs what it emits: hello, clips, deletes, and     *)
(* the ids it has queued.  Unless the room is ephemeral, a clip may be     *)
(* emitted again: backfill brings own clips, all clips after a reload, and *)
(* those its bounded ReplaySet has forgotten.                              *)
(***************************************************************************)
EXTENDS Integers, SequencesExt

CONSTANTS
    ITEMS_CAP,
    QUOTA,       \* items that always fit into localStorage; more need not
    ORDERED,     \* encryptions end in the order in which they started
    CALM,        \* nothing else happens while a pin is saved; the user clears
                 \* the history of a loaded page with no save under way
    MaxItems,    \* bound on the ids
    MaxSaves,    \* bound on the saves under way
    MaxReloads   \* bound on the reloads

ASSUME PageAssumption ==
    /\ ITEMS_CAP \in Nat \ {0} /\ QUOTA \in Nat \ {0}
    /\ ORDERED \in BOOLEAN /\ CALM \in BOOLEAN
    /\ MaxItems \in Nat /\ MaxSaves \in Nat /\ MaxReloads \in Nat

Ids  == 1 .. MaxItems
Item == [id : Ids, pinned : BOOLEAN]

VARIABLES
    ephemeral,    \* how the room was created
    page,         \* "loading", "mounted" or "left"
    loading,      \* the stored list that load is decrypting
    items,        \* the list on screen
    pending,      \* ids in it that are marked as queued
    ephemeralOn,  \* the page knows that the room is ephemeral
    expiring,     \* ids with a timer
    store,        \* PersistedItems.items
    saving,       \* saves under way: the list, and who awaits the save
    disk,         \* the list in localStorage
    (* the client *)
    socket,       \* "down", "open" or "greeted" by a hello
    unsent,       \* ids in its offline queue
    known,        \* ids so far
    reloads,      \* reloads so far
    (* what has happened *)
    kept,         \* ids pinned while the store had them, and not lost to the quota
    shed          \* the quota has cost an item (a bound: once in a page's life)

listVars   == <<items, pending, expiring>>
storeVars  == <<store, saving, disk>>
clientVars == <<socket, unsent, known>>
pageVars   == <<ephemeral, page, loading, ephemeralOn, reloads>>
vars       == <<pageVars, listVars, storeVars, clientVars, kept, shed>>

-----------------------------------------------------------------------------
(* Lists. *)

New(id)      == [id |-> id, pinned |-> FALSE]
IdsOf(s)     == {s[k].id : k \in DOMAIN s}
Without(s, id) == RemoveFirstMatch(s, LAMBDA i : i.id = id)  \* an id is in a list once
WithPin(s, id, p) == [k \in DOMAIN s |-> IF s[k].id = id THEN [s[k] EXCEPT !.pinned = p] ELSE s[k]]
PinOf(s, id) == \E k \in DOMAIN s : s[k].id = id /\ s[k].pinned

Unpinned(i) == ~i.pinned

\* Mutants: the cap is one too high; the oldest goes, pinned or not.
evictOldestUnpinned_OneMore(s) ==
    IF Len(s) > ITEMS_CAP + 1 THEN RemoveFirstMatch(s, Unpinned) ELSE s
evictOldestUnpinned_Oldest(s) == IF Len(s) > ITEMS_CAP THEN Tail(s) ELSE s

\* Lists grow by one item at a time, so one removal is enough.
evictOldestUnpinned(s) ==
    IF Len(s) > ITEMS_CAP THEN RemoveFirstMatch(s, Unpinned) ELSE s

\* Mutant: only the page protects pinned items.
StoredAlso_Oldest(s, id) == evictOldestUnpinned_Oldest(Append(s, New(id)))

StoredAlso(s, id) == evictOldestUnpinned(Append(s, New(id)))

-----------------------------------------------------------------------------
(* Saves.  `after` is what the handler that awaits the save does then.     *)

After(op, id) == [op |-> op, id |-> id]
Nothing       == After("nothing", 0)

\* client.delete: a clip leaves the offline queue unless the delete can be sent.
Unqueued(id) == IF socket = "down" THEN unsent \ {id} ELSE unsent

\* The handler goes on: the page shows the pin, the client is told to delete the
\* clip, an ephemeral item gets its timer.
Goes(after) ==
    /\ items' = CASE after.op = "pin"   -> WithPin(items, after.id, TRUE)
                  [] after.op = "unpin" -> WithPin(items, after.id, FALSE)
                  [] OTHER -> items
    /\ unsent' = IF after.op = "delete" THEN Unqueued(after.id) ELSE unsent
    /\ expiring' = IF after.op = "schedule" /\ ephemeralOn
                   THEN expiring \cup {after.id} ELSE expiring

Pinning == \E k \in DOMAIN saving : saving[k].after.op \in {"pin", "unpin"}

\* The store becomes s, and is saved unless that changes nothing.
Save(s, after) ==
    /\ Len(saving) < MaxSaves
    /\ store' = s
    /\ saving' = Append(saving, [list |-> s, after |-> after])
    /\ UNCHANGED disk

\* The encryption of a save ends and the list is written.
SaveDone(k) ==
    /\ k \in DOMAIN saving /\ (ORDERED => k = 1)
    /\ disk' = saving[k].list
    /\ saving' = RemoveAt(saving, k)
    /\ Goes(saving[k].after)
    /\ UNCHANGED <<pageVars, pending, store, socket, known, kept, shed>>

\* Mutants: the oldest goes, pinned or not; the shorter list is not saved.
Shed_Oldest(s) == Tail(s)
Retry_Not(rest, list, after) == rest

\* The oldest unpinned item goes, or the oldest if all are pinned.
Shed(s) == IF \E k \in DOMAIN s : Unpinned(s[k]) THEN RemoveFirstMatch(s, Unpinned) ELSE Tail(s)
Retry(rest, list, after) == Append(rest, [list |-> list, after |-> after])

\* It does not fit: the store, as it is now, sheds an item and is saved again.
SaveFails(k) ==
    /\ k \in DOMAIN saving /\ (ORDERED => k = 1)
    /\ Len(saving[k].list) > QUOTA /\ ~shed
    /\ IF Len(store) > 1
       THEN /\ store' = Shed(store)
            /\ saving' = Retry(RemoveAt(saving, k), Shed(store), saving[k].after)
            /\ shed' = TRUE
            /\ kept' = IF \E j \in DOMAIN store : Unpinned(store[j])
                       THEN kept ELSE kept \ {store[1].id}
            /\ UNCHANGED <<items, unsent, expiring>>
       ELSE /\ saving' = RemoveAt(saving, k)
            /\ Goes(saving[k].after)
            /\ UNCHANGED <<store, shed, kept>>
    /\ UNCHANGED <<pageVars, pending, disk, socket, known>>

-----------------------------------------------------------------------------
(* The list. *)

Shown(id) == id \in IdsOf(items)

\* addItem: the item goes to the page, then to the store, and once that is saved
\* it gets its timer, unless it is queued.
AddItem(id, queued) ==
    IF Shown(id) THEN UNCHANGED <<listVars, storeVars>>
    ELSE /\ CALM => ~Pinning
         /\ items' = evictOldestUnpinned(Append(items, New(id)))
         /\ pending' = IF queued THEN pending \cup {id} ELSE pending
         /\ IF ephemeralOn
            THEN /\ expiring' = IF queued THEN expiring ELSE expiring \cup {id}
                 /\ UNCHANGED storeVars
            ELSE /\ IF id \in IdsOf(store) THEN UNCHANGED storeVars
                    ELSE Save(StoredAlso(store, id), IF queued THEN Nothing ELSE After("schedule", id))
                 /\ UNCHANGED expiring

\* sendText, or the clipboard watcher: the client sends the clip or queues it.
SendText ==
    /\ page = "mounted"
    /\ known < MaxItems
    /\ known' = known + 1
    /\ unsent' = IF socket = "down" THEN unsent \cup {known + 1} ELSE unsent
    /\ AddItem(known + 1, socket = "down")
    /\ UNCHANGED <<pageVars, socket, kept, shed>>

\* The client emits a clip: a new one, or by backfill one that there was before.
OnClip(id) ==
    /\ page = "mounted" /\ socket = "greeted"
    /\ \/ id = known + 1
       \/ ~ephemeral /\ id \in 1 .. known \ unsent
    /\ known' = IF id > known THEN id ELSE known
    /\ AddItem(id, FALSE)
    /\ UNCHANGED <<pageVars, socket, unsent, kept, shed>>

\* The item leaves the list, its timer and the store; `after` once that is saved.
Drop(id, after) ==
    /\ items' = Without(items, id)
    /\ pending' = pending \ {id}
    /\ expiring' = expiring \ {id}
    /\ kept' = kept \ {id}
    /\ IF ~ephemeralOn /\ id \in IdsOf(store)
       THEN Save(Without(store, id), after) /\ UNCHANGED unsent
       ELSE UNCHANGED storeVars /\ unsent' = IF after = Nothing THEN unsent ELSE Unqueued(id)

\* A delete frame.
OnDeleteFrame(id) ==
    /\ page = "mounted" /\ socket = "greeted"
    /\ id \in 1 .. known \ unsent
    /\ Drop(id, Nothing)
    /\ UNCHANGED <<pageVars, socket, known, shed>>

\* The user deletes an item; the client is told once the store has saved that.
OnDelete(id) ==
    /\ page = "mounted" /\ Shown(id)
    /\ Drop(id, After("delete", id))
    /\ UNCHANGED <<pageVars, socket, known, shed>>

\* The user pins an item or unpins it: first in the store, then on the page.
PinItem(id) ==
    /\ page = "mounted" /\ Shown(id)
    /\ CALM => ~Pinning
    /\ LET p == ~PinOf(items, id) IN
       /\ IF ~ephemeralOn /\ id \in IdsOf(store) /\ PinOf(store, id) # p
          THEN /\ Save(WithPin(store, id, p), After(IF p THEN "pin" ELSE "unpin", id))
               /\ UNCHANGED items
          ELSE /\ items' = WithPin(items, id, p)
               /\ UNCHANGED storeVars
       /\ kept' = IF p THEN kept \cup ({id} \cap IdsOf(store)) ELSE kept \ {id}
    /\ UNCHANGED <<pageVars, pending, expiring, clientVars, shed>>

\* The 60 seconds of an item in an ephemeral room are over.
Expire(id) ==
    /\ id \in expiring
    /\ expiring' = expiring \ {id}
    /\ items' = Without(items, id)
    /\ pending' = pending \ {id}
    /\ UNCHANGED <<pageVars, storeVars, clientVars, kept, shed>>

\* persist.clear; the store of an ephemeral room has nothing to clear.
ClearStore ==
    IF ephemeralOn THEN UNCHANGED storeVars
    ELSE store' = <<>> /\ disk' = <<>> /\ UNCHANGED saving

MayClear == page # "left" /\ (CALM => page = "mounted" /\ saving = <<>>)

ClearHistory ==
    /\ MayClear
    /\ ClearStore
    /\ items' = <<>> /\ pending' = {} /\ expiring' = {} /\ kept' = {}
    /\ UNCHANGED <<pageVars, clientVars, shed>>

\* endRoom: the store is cleared, the client disconnects, the page goes away.
EndRoom ==
    /\ MayClear
    /\ ClearStore
    /\ page' = "left" /\ socket' = "down" /\ kept' = {}
    /\ items' = <<>> /\ pending' = {} /\ expiring' = {}
    /\ UNCHANGED <<ephemeral, loading, ephemeralOn, reloads, unsent, known, shed>>

-----------------------------------------------------------------------------
(* The page and the client's connection. *)

\* load ends: what was stored is the store and the list.
Load ==
    /\ page = "loading"
    /\ page' = "mounted"
    /\ store' = loading /\ items' = loading
    /\ kept' = {loading[k].id : k \in {j \in DOMAIN loading : loading[j].pinned}}
    /\ UNCHANGED <<ephemeral, loading, ephemeralOn, reloads, pending, expiring, saving, disk,
                   clientVars, shed>>

SocketOpens ==
    /\ page = "mounted" /\ socket = "down"
    /\ socket' = "open"
    /\ UNCHANGED <<pageVars, listVars, storeVars, unsent, known, kept, shed>>

SocketCloses ==
    /\ socket # "down"
    /\ socket' = "down"
    /\ UNCHANGED <<pageVars, listVars, storeVars, unsent, known, kept, shed>>

\* Mutant: a queued item has no timer when it is sent at last.
Timed_Not(timers, ids) == timers

Timed(timers, ids) == timers \cup ids

\* hello: the room event, which turns a page ephemeral, then `sent` for each
\* queued clip as the queue is flushed.
OnHello ==
    /\ socket = "open"
    /\ socket' = "greeted"
    /\ unsent' = {}
    /\ ephemeralOn' = ephemeral
    /\ items' = IF ephemeral /\ ~ephemeralOn THEN <<>> ELSE items
    /\ pending' = IF ephemeral /\ ~ephemeralOn THEN {} ELSE pending \ unsent
    /\ expiring' = IF ephemeral THEN Timed(expiring, unsent) ELSE expiring
    /\ UNCHANGED <<ephemeral, page, loading, reloads, storeVars, known, kept, shed>>

\* The page is loaded again, at any moment, or opened again once it was left and
\* its last saves are done.
Reload ==
    /\ reloads < MaxReloads
    /\ page = "left" => saving = <<>>
    /\ reloads' = reloads + 1
    /\ page' = "loading" /\ loading' = disk
    /\ items' = <<>> /\ pending' = {} /\ expiring' = {} /\ ephemeralOn' = FALSE
    /\ store' = <<>> /\ saving' = <<>>
    /\ socket' = "down" /\ unsent' = {} /\ kept' = {}
    /\ shed' = FALSE
    /\ UNCHANGED <<ephemeral, disk, known>>

-----------------------------------------------------------------------------
Init ==
    /\ ephemeral \in BOOLEAN
    /\ page = "loading" /\ loading = <<>> /\ ephemeralOn = FALSE /\ reloads = 0
    /\ items = <<>> /\ pending = {} /\ expiring = {}
    /\ store = <<>> /\ saving = <<>> /\ disk = <<>>
    /\ socket = "down" /\ unsent = {} /\ known = 0
    /\ kept = {} /\ shed = FALSE

UserStep ==
    \/ SendText \/ ClearHistory \/ EndRoom
    \/ \E id \in Ids : OnDelete(id) \/ PinItem(id)

ClientStep ==
    \/ SocketOpens \/ SocketCloses \/ OnHello
    \/ \E id \in Ids : OnClip(id) \/ OnDeleteFrame(id)

StoreStep ==
    \/ Load
    \/ \E k \in 1 .. MaxSaves : SaveDone(k) \/ SaveFails(k)

Next == UserStep \/ ClientStep \/ StoreStep \/ Reload \/ \E id \in Ids : Expire(id)

Spec == Init /\ [][Next]_vars

\* Timers fire; the user, the network and the other devices owe nothing.
Fairness == \A id \in Ids : WF_vars(Expire(id))

FairSpec == Spec /\ Fairness

-----------------------------------------------------------------------------
(* What should hold. *)

Lists == UNION {[1 .. n -> Item] : n \in 0 .. ITEMS_CAP}

\* The values the variables range over; no list is longer than the cap.
TypeOK ==
    /\ ephemeral \in BOOLEAN /\ ephemeralOn \in BOOLEAN /\ shed \in BOOLEAN
    /\ page \in {"loading", "mounted", "left"}
    /\ {items, store, disk, loading} \subseteq Lists
    /\ \A k \in DOMAIN saving : saving[k].list \in Lists
    /\ {pending, expiring, unsent, kept} \subseteq SUBSET Ids
    /\ socket \in {"down", "open", "greeted"}
    /\ known \in 0 .. MaxItems /\ reloads \in 0 .. MaxReloads

\* The page and the store evict alike: they are changed one after the other, each
\* with its own eviction, and hold the same items in the same order with the same
\* pins, except while a pin is being saved and once the quota has cost the store
\* an item.
SameList ==
    page = "mounted" /\ ~ephemeralOn /\ ~Pinning /\ ~shed => items = store

\* What was done is on disk: once no save is under way, a reload would show what
\* the store holds, deletes, pins and cleared histories included.
DiskCatchesUp ==
    page # "loading" /\ ~ephemeralOn /\ saving = <<>> => disk = store

\* A pinned item stays on the page and in the store, however many others come,
\* until it is unpinned, deleted or cleared; the quota takes it only if all are
\* pinned.
PinnedKept ==
    ~ephemeralOn /\ ~Pinning => kept \subseteq IdsOf(items) \cap IdsOf(store)

\* An item of an ephemeral room leaves the screen once it has been delivered, the
\* timer of a queued one starting when it is sent.
DeliveredExpires ==
    \A id \in Ids :
        ephemeralOn /\ Shown(id) /\ id \notin pending ~> ~Shown(id)

(* What the repository says and the code does not do. *)

\* "In an ephemeral room nothing is written to localStorage on any device."
NothingWritten == ephemeral => disk = <<>>
=============================================================================
