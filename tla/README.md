# uniclip in TLA+

Specifications of uniclip's core logic, checked with TLC, with the safety properties
of every modelled component proved with TLAPS, under the conditions stated with each
theorem. Uniclip is a shared clipboard: devices in a room exchange encrypted clips, deletes and files through
a relay that cannot read them, or over a WebRTC data channel between two of them.

Paths below are relative to the repository: `client-core` is
`packages/client-core/src`, `relay` is `apps/relay/src`, `web` is `apps/web/src`,
`specs` is `docs/superpowers/specs`.

Contents: [the system](#the-system), [the modules](#the-modules),
[the runs](#the-runs), [what they assume](#assumptions), [where code and
documents differ](#divergences), [the proofs](#the-proofs),
[what is not modelled](#not-modelled), [the plan](#the-plan).

## The system

| component | state it keeps | operations | talks to |
|---|---|---|---|
| file transfer engine, `client-core/file-transfer.ts` | per file: `Outgoing` (next chunk, credit, stall timer, `pumping`) or `Incoming` (buffers, count, `accepted`) | send, accept, decline, cancel, abort all, one handler per frame type, the stall timer | WebCrypto (every handler awaits it), `sendFrame` |
| clip and delete synchronisation, `client-core/client.ts`, `crypto/src/replay.ts` | offline queue, `ReplaySet`, the emitted list in the page | send, delete, flush, clip and delete frames | the relay, the data channel, the page |
| connection lifecycle, `client-core/client.ts` | socket, reconnect timer, `terminated`, `disposed`, transport | connect, close, disconnect, hello, peer-joined, peer-left | the relay; starts and stops the three others |
| WebRTC link, `client-core/peer-link.ts` | identity, role, negotiation, channel, `closed` | start, one handler per signal, events of the connection | signals over the socket only |
| relay rooms, `relay/rooms.ts`, `room-db.ts`, `ws-handlers.ts` | rooms in memory with sockets, ring of recent clips, tombstones; rows in SQLite | create, get, touch, gc; open, message, close of a socket | every client |
| room page, `web/routes/room.svelte`, `web/lib/persist.ts`, `web/lib/ephemeral.ts` | the list on screen, its encrypted copy in localStorage, expiry timers | add, delete, pin, clear, end, load, save, expire | the client's events |
| presence, `client-core/presence.ts` | roster; heartbeat, sweep and prune timers | announce, receive, sweep, prune, start, stop | WebCrypto, the relay |
| a visit to a room, `web/routes/landing.svelte`, `room.svelte`, `web/components/composer.svelte`, `web/lib/clipboard.ts` | route, progress of `onMount`, client, sync toggle, watcher (`startGen`, interval, last text), composer's text | create, join, leave; toggle, poll; type, fill, send | the relay's HTTP side, the browser's clipboard and its prompts, the client |
| transfer rows, `web/lib/transfers.ts`, `web/components/transfer-row.svelte`, `apps/cli/src/file-transfers.ts`, `app.tsx` | one row per transfer; the terminal's question about an offer; a file being saved | one handler per engine event; buttons and keys | the file transfer engine |
| the relay's front door, `relay/app.ts`, `rate-limit.ts`, `version.ts`, `server.ts` | granted calls per address; newest release known and whether a check is under way | POST room, upgrade of a socket, GET version; sweeps | the rooms; GitHub |
| LAN relay, `apps/cli/src/lan-relay.ts` | sockets, two windows of frames per socket | the relay's fan-out without rooms or history | two or more CLIs |
| the rest | crypto, room codes, schemas, metrics, static files, ICE servers, what only displays | pure functions, request handlers, presentation | |

**What makes it hard.** A client is single-threaded, but every handler that
encrypts or decrypts is suspended at an `await`, frames are not awaited one after
another, and timers, user actions and channel events run in between. A connection
breaks before either end notices; a device can be back in the room while the relay
still counts its dead socket. Frames go by two paths that are not ordered against
each other. Queues, rings, windows and caps are all bounded. Rooms are found by an
id that can be evicted, expire, come back from a row and be used again. A page's
list, its copy and its file are changed one after the other. Rows on screen follow
the engine only through its events, at the two ends of a transfer perhaps in two
different programs. A page waits for keys, answers, prompts and clipboard reads, and
its continuations do not ask whether it is still there. Limiters forget lazily.

**What makes it correct.** For each component, in the words of its properties:

- *file transfer*: credit is never exceeded, one pump runs, no wake-up is lost, an
  acknowledgement means possession, no chunk counts twice, an ended transfer stays
  ended, a started one ends.
- *clips*: what was relayed and not deleted is in every list, once; what was
  deleted is in none; what is shown as sent was sent; history lasts as long as
  somebody is in the room.
- *connection and link*: a device has a link exactly while it has company, "Direct"
  means an open channel, an ended client stays down, whoever stays in the room is
  linked (which holds only as long as nothing breaks).
- *rooms*: a socket stays with the room it joined, rooms do not mix, a room lasts
  its time and no longer, counts are right.
- *page*: list, copy and file agree, pins hold, ephemeral items go.
- *rows*: a button is there exactly while it can act, "done" is said of whole files
  only, nothing revives what has ended.
- *a visit*: nothing that was started for a page runs on without it, at most one
  interval reads the clipboard, what is copied goes out, typed text is the user's.
- *the front door*: an address is granted exactly its limit in every window, and the
  newest release known never goes back.
- *presence*: whoever is in the room is in every roster, whoever left goes from it,
  whatever the relay dropped and however late a departure is noticed.

## The modules

Each definition carries the name of what it models where TLA+ allows it, and
`PROJECT.json` gives its lines. Definitions commented `Mutant` are plausible
mistakes; each property is known to fail when one of them takes the place of the
definition it is named after.

### WindowedStream, the abstract stream

What the sending half of a transfer promises: chunks leave in order, at most a
window beyond the last acknowledged one, an acknowledgement covers only what has
left, a stream ends once. `FileTransfer` implements it.

### FileTransfer

One file, one sender, any number of receivers, the two maps' entries as variables
(`outgoing`, `nextChunk`, `ackedUpTo`, `pumping`, `stall`; `incoming`, `buf`,
`received`, `upTo`), and each `await` of WebCrypto as state between two actions:
`encrypting`, `decrypting`, `reserving`, `hashing`. Frames are queues `wire` (by
the relay) and `chan` (by the data channel). `SendFile`, `AcceptFile`,
`DeclineFile`, `CancelFile` are the user's; `On...` are the frame handlers;
`EncryptDone`, `ChunkDecrypted`, `OfferDecrypted`, `Hashed` are continuations after
an await; `StallFires` is the timer; `Disconnect`, `Reconnect`, `OpenLink`,
`CloseLink` are the connection, with `abortAll`. The pump loop is cut at its await:
`pumping` says that a loop is suspended there.

Abstracted: a frame is its type and index; the relay forwards in the step that
sends, all delay being in the queue to the recipient; a chunk is decryptable or,
by a counted fault, not; one file, as files share nothing but the connection. A
socket or data channel that closes is noticed at both ends in one step
(`Disconnect`, `CloseLink`), where the code has an event at each end; what is in
flight on it is lost.

### TransferRows, what the user sees of it

EXTENDS `FileTransfer`; every step of the engine is taken together with what the
handlers of its events do to the rows (`Listen`). `kind` says which program a device
runs: the web page's rows have the states of `transfers.ts` (`WebRow`,
`ProgressRow`), the terminal's are there or not (`CliRow`). `SendReturns` is the end
of `sendFile`, which adds the sender's row. A user acts through what the screen
offers: `WebAccept`, `WebDecline`, `WebCancelReceive`, `WebCancelSend` are the
buttons of a row in the state that has them; `CliAccept`, `CliDecline` are the keys,
which work as long as the question (`modal`) is on screen, whatever became of the
offer; `OtherOffer` is a second offer, which keeps the first from being shown;
`Saved` is the end of `saveBlob`.

Abstracted: names, sizes and percentages; one transfer, so the cap of 50 rows.

### ClipSync

The room's list. A device has `items`, `pending`, `queue`, `replay`, clips being
decrypted and deletes being stored; the relay has `sockets`, `ghosts` (earlier
sockets of a device that is back), `recent`, `tombstones`, and the rate limiter's
count. `Compose`, `OnDelete`/`DeleteStored` are the user's; `OnHello` flushes the
queue; `OnClip`/`ClipDecrypted`, `OnDeleteFrame` handle frames by either path;
`OnMessage`, `Connect`, `RelayCloses` are the relay's handlers; faults are a broken
path, a reload, a restart of the relay, a closed channel.

Abstracted: what is in flight on a broken path is lost; undecryptable clips and the
user's "clear history" are left out; the page's cap is larger than the clips here
(`RoomPage` has the cap); the relay's skip of a socket with a full buffer is in
`FileTransfer`; a data channel closes at both ends in one step; a device has at most
one ghost, where the relay may count several.

### RoomStore

`rooms` and `db` are the Map and the table, `Found`/`RoomAt`/`DbAfterGet` are
`get`, `Create` covers generated and custom codes, `OnOpen`, `OnMessage`, `Reject`,
`OnClose` are the handlers as far as rooms go, `Gc` is the collector on its timer,
`Restart` keeps the table. Every room ever made has a serial number, so the model
can tell two rooms with one id apart, which the code cannot. A clip is the serial
of the room its sender joined. `onClose` may come late; after it a socket does
nothing. Every room buffers clips and no send is skipped.

### RelayApi

EXTENDS `RoomStore` with what stands before it. `Fresh`, `Allowed`, `Hit` and `Swept`
are `SlidingWindowLimiter` for one address; `PostLimited`, `PostRefused`,
`PostCreates` are POST `/api/room` (the limiter is asked first), `Connect` the
upgrade with `onOpen`, `Handle` the other handlers of a socket, `Timers` the
collector and the sweeps, which were started together with the same period.
`Snapshot` and `Refreshed` are the `UpdateChecker` on both sides of its fetch. The
history variables `roomGrants` and `wsGrants` keep which calls were granted, apart
from what the limiter remembers of them. A restart forgets all but the rows. `Window`
(a list of times with the old ones shifted out) is shared with `LanRelay`.

Abstracted: one address; the clock does not go back; bodies are refused or make a
room; a release is its place in the order of releases.

### RoomPage

`items` (screen), `store` (`PersistedItems.items`), `saving` (saves that are being
encrypted, with what their awaiting handler does next) and `disk` (localStorage).
`Save`, `SaveDone`, `SaveFails` are `save` with its quota fallback; `AddItem`,
`Drop`, `PinItem`, `ClearHistory`, `EndRoom` are the handlers, each changing the
screen and the store in the code's order; `OnHello` is the room event that turns a
page ephemeral, with the flush; `Expire` is `ExpiryScheduler`. The quota costs one
item in a page's life; a list longer than `QUOTA` may or may not fit.

### WebSession

One visit: `StartRoom`, `Created`, `NotCreated`, `Join` are the landing page,
`Navigate` the router, `OnMount` the awaits of the room page one by one, `Leave`
`onDestroy`, `ToggleWatch` the sync toggle. `Start`, `Probed`, `Stopped`, `Tick`,
`Read` are the `ClipboardWatcher`, cut where it waits for the browser: `starts` are
the starts whose permission probe is open, `intervals` what really runs, `timer` what
the watcher knows of. `Type`, `Prefilled`, `Fill`, `Filled`, `Send` are the composer.
`Copy`, `Permit`, `Switch` are the user elsewhere and the browser.

Abstracted: texts are numbered in the order they are copied; what happens to a text
once the client has it is `ClipSync`. One tab and one visit; a page that was left is
not entered again. Files and images on the clipboard are left out.

### PeerLink

The socket (`path`, `wire`, `dials`, `timer`), the end of a client (`ended`), and
its link: identity `from`, the other's identity `peerFrom`, `remote` (whose
description it holds), `step` of the negotiation, `chan`, the latch `closed`.
`OpenSocket`, `HandleClose`, `Disconnect` are the client's; `Join`, `RelayCloses`,
`RoomExpires` the relay's; `OnHello`, `OnPeerJoined`, `OnPeerLeft` arm and tear
down; `OnRtcHello`, `OnOffer`, `OnAnswer` are `handleSignal`; `OfferMade`,
`AnswerMade` its continuations; `ChannelOpens`, `PcFails`, `PcFlickers`,
`ChannelCloses` the events. RTCPeerConnection is external: two links that hold each
other's descriptions can open a channel, a link whose other end is gone notices, and
one that is well may say "disconnected" for a moment (`PcFlickers`, a counted fault).
A device is back whenever its timer fires, whatever sockets of its own the relay
still counts; the relay's frames go to every other socket in the room, its own newer
one included (`Reached`). `late` is a history variable: the channel opened after
`onClose` had been called. The
order of identities is arbitrary (they are random), and an identity nothing refers
to any more may be drawn again, which keeps the model finite.

### Presence and LanRelay

`Presence` has the operations of `PresenceManager`, one manager per device: the
roster as ages (`age`), what the pending prune will drop (`stale`), the three timers
as countdowns, and the names being encrypted (`announcing`) or decrypted
(`decrypting`) as counts. `LanRelay` composes them with the relay that a command
line host embeds: `OnConnection`, `Broadcast`, `Admit` and `RelayCloses` are its
handlers, `Connect`, `ClientCloses`, `Disconnect`, `HandleFrame`, `Rename` are the
parts of `client.ts` that drive the manager, `Announced` and `PresenceDecrypted`
what follows an await, `TimerFires` the three timers, `Chat` any other frame of a
user. The public relay differs in what `ClipSync` and `RoomStore` model.

Abstracted: names; files, which have a window of their own; a unit of time is the
heartbeat's period (8 s), and everything that can be handled is handled before the
next, except that a broken path may stay unnoticed for any time.

## The runs

TLC checks deadlock nowhere: every system here may stop (a finished transfer, a
room nobody uses), so each configuration says `CHECK_DEADLOCK FALSE`.

| run | instance and bounds | shows |
|---|---|---|
| `TransferRows` | 1 receiver, web page or terminal at either end, 5 chunks, window 3, acknowledgement every 2, 2 faults, data channel, the relay skips a receiver that has two chunks waiting | `TypeOK`, `OnePump`, `NoLostWakeup`, `CountedOnce`, `AckedWasReceived`, `EndedStaysEnded`, `RowsTrue`; `StreamSpec`: the sender implements `WindowedStream`; under fairness `StartedEnds` |
| `FileTransfer_silent` | 7 chunks, window 4, acknowledgement every 2: the code's ratio | *violation*: a transfer stalls with a receiver that has everything |
| `ClipSync_room` | 2 devices, 2 clips, 1 delete, every capacity reached, 1 fault of any kind, asynchronous decryption, channel | `TypeOK`, `RingShown`, `RingClean`, and under fairness `QueueDrains` |
| `ClipSync_deletes` | 2 devices taken as alike (symmetry), 3 clips, 2 deletes, ring of 2, ReplaySet of 3, 1 tombstone, 1 fault: broken path, reload or restart | `ForeignClipOnce` at the capacities' bound (3 = 2·2 − 1; the code has 256 and 50), `DeleteReachesAll`, `AllHaveAll` (as long as no fault happened and the ring holds all that were composed) |
| `ClipSync_third` | 3 devices, a channel between two | *violation*: the third misses clips |
| `RelayApi` | 1 id used by 2 rooms, 2 sockets, ages 2 and 0, collector every 1, clock to 4, 1 restart; 1 address, 2 calls in windows of 2 and 1; 2 releases | `TypeOK`, `MembersReachable`, `RoomsIsolated`, `UrlLasts`, `HardCeiling`, `ExactlyTheLimit`, `ReleaseKept` |
| `RoomPage` | 3 items in a list of 2, quota 1, 2 saves at once, 1 reload, both kinds of room | `TypeOK`, `SameList`, `DiskCatchesUp`, `PinnedKept`, and under fairness `DeliveredExpires` |
| `RoomPage_ephemeral` | 1 clip is enough | *violation*: an ephemeral clip is on disk |
| `WebSession` | 3 clicks on the toggle, a text there and one copied, 2 reads under way, prompts open for ever | `TypeOK`, `NothingRunsOn`, `TypedKept`, and under fairness `CopyFlows` |
| `PeerLink` | 2 devices, 1 fault (a broken socket, a broken link or a flicker), 5 identities | `TypeOK`, `DirectMeansOpen`, `EndedStaysDown`, `LinkIffCompany`, and under fairness `LinksForm` (as long as no fault happened) |
| `PeerLink_again` | the same | *violation*: two devices are not linked again after one socket broke |
| `LanRelay` | 2 devices, 1 broken path or user's frame, a window of 3 frames, which overflows, heartbeat and sweep every unit, entries live 2, prune after 1 | `TypeOK`, `NobodyMissing`, and under fairness `RosterSettles` |

**Why the bounds are enough.** Each capacity is small enough to be reached and
passed: five chunks against a window of three and an interval of two make the
window shut, open in the middle of an encryption, and end on a partial interval, and
the relay's buffer is smaller than the window, so that a receiver misses chunks;
a ring, a tombstone list, a queue and a ReplaySet of one to three are full or overflow
with two or three clips; three items overflow a list of two with one pinned; the clock of
`RelayApi` passes a room's expiry, four rounds of the collector, a second life of the
id, and each limiter's window, with both limits reached; one address is enough, as
addresses share nothing in a limiter. Three clicks on the toggle are three
starts under one open prompt, or a start, a stop and another start, which is what
`startGen` is for. Two devices show every pairing of ends, three the fan-out that two cannot
show. One fault is a device that is back beside its own ghost, or a link that is
gone, or not, and says so; two broken sockets have been checked once
(8.5 million states, no violation of the invariants), and the proofs have no bound.
With five identities a fresh one can be smaller or larger than those in use. In `LanRelay` a device greets, answers
a departure and a return and beats within one window, which overflows it; one event
is enough for a path to break, for the device to be back beside its own ghost, and
for the prune to come before or after its new announcement. The cap on sockets is
never reached by two devices with one event; instead `ConnectFails` lets any attempt
be refused.

## Assumptions

**Fairness.** Weak fairness is given to what the runtime does by itself: a frame at
the head of a working queue is handled, a WebCrypto promise settles, an armed timer
fires, an end of a broken connection notices, and in `PeerLink` two links that can
open a channel do. Users, faults and a data channel's opening in the other modules
owe nothing. `StartedEnds` rests on the stall timer, `QueueDrains` on the reconnect
timer (`handleClose` always sets one unless the close code is terminal),
`DeliveredExpires` on the 60-second timers alone, `RosterSettles` on time passing, the
heartbeat and the sweep, `CopyFlows` on the interval ticking and the browser
answering a read: it says nothing of a prompt, a key or a server that never answers.
The fairness of `TransferRows` is that of the engine; no button need be pressed.

**The environment.** Some properties hold only if the environment is kind. Each
such condition is a constant, so that it can be dropped:

| constant | says | without it |
|---|---|---|
| `PATIENT` (FileTransfer) | the stall timer outlasts everything else; `FALSE` in the passing runs | used only to show that a stall is not a matter of slowness |
| `PROMPT` (ClipSync) | a clip is decrypted before the next frame is handled | a delete handled meanwhile removes nothing, then the clip appears: `DeleteReachesAll` fails |
| `EARLY = FALSE` (ClipSync) | nothing is sent between a socket's open and its hello | a new frame overtakes the queue; a delete overtakes its clip, which stays in the ring: `RingClean` fails |
| `P2P = FALSE` (ClipSync) | no data channel; `TRUE` in `ClipSync_room` | `AllHaveAll`, `ForeignClipOnce` and `DeleteReachesAll` are stated for the relay's path |
| `FRESH` (RoomStore) | a generated id is never one in use (six random characters of 34, or of 32) | the new room replaces the old one and its sockets: `MembersReachable`, `RoomsIsolated` fail |
| `ORDERED` (RoomPage) | encryptions end in the order they start | an older list is written last: `DiskCatchesUp` fails |
| `CALM` (RoomPage) | nothing happens while a pin is saved; history is cleared when nothing is being saved | a history cleared during a save is back on disk; the page evicts an item that is being pinned |

## Divergences

Four are runs of their own (`expect: violation`, with the quoted statement in
`PROJECT.json`): a transfer stalls although its receiver has everything
(`file-transfer.ts:165`), a third device misses what two linked ones send
(`client.ts:410`), a clip composed before the first hello of an ephemeral room
is written to localStorage (`room.svelte:75`), and a device that returns quickly is
not linked again (`peer-link.ts:102`, the next item). The others are known from runs with
a constant changed, or from reading, and are kept here:

- *A peer that returns quickly is not linked again.* A client dials again after
  about a second; the relay may count a dead socket for as long as its idle timeout
  (60 s). A link settles its role with the first identity it hears
  (`peer-link.ts:102`), and no signal says which link it is meant for. In the trace
  of `PeerLink_again` the other device handles a late departure and return after the
  two have exchanged identities, and arms anew; now both ends hold the larger
  identity of what they know, both make the channel, and both ignore the other's
  offer. If instead the ghost keeps the count at two, the other device keeps its dead
  link (`client.ts:293` arms only without one). Either way clips go by the relay until
  somebody leaves.
  `specs/2026-06-23-uniclip-webrtc-reconnect-hardening-design.md:10` says "the
  connection self-heals on any reconnect, single- or double-, in any order", and
  `:60` "glare cannot occur in normal operation". In rooms of three a link takes
  signals from everybody.
- *A transient "disconnected" latches.* `fireClose` runs once (`peer-link.ts:157`),
  so the channel's real close later does not abort the transfers on it; while
  `closed` is set the channel may still be open, and is used, though the user is
  told "Relayed"; and a channel that opens after a transient "disconnected" shows
  "Direct", and goes on showing it when it is gone. `DirectMeansOpen` names that case
  (`late`) and excludes every other.
- *A receiver the relay skipped* never reaches its hash check and waits until the
  connection ends (`ws-handlers.ts:196` and the binary transfer spec `:97` say its
  hash check fails).
- *A cancel during the hash* (`file-transfer.ts:179`) is followed by `file-received`.
- *Own clips come back.* A device's `ReplaySet` does not know them: backfill emits
  them again, the page drops them by id, the CLI lists them twice (`app.tsx:90`),
  and one deleted while offline stays on the device that deleted it.
- *A long queue is lost.* More than 20 queued frames (the queue holds 100) exceed
  the relay's window during the flush; the connection is closed and the rest was
  already marked as sent (`client.ts:226`, `ws-handlers.ts:26`).
- *What is on a data channel when it closes is lost*, and a closed channel is
  noticed late (`client.ts:410`).
- *Tombstones run out*: after 200 deletes an absent device may keep the first ones.
- *A list full of pins* takes nothing new: the clip is evicted at once.
- *A queued clip that was persisted* looks delivered after a reload, while the
  queue is gone.
- *A heartbeat being decrypted* when presence stops brings a device back to the
  roster (`presence.ts:73`), and as the sweep has stopped it stays there until the
  next hello. `RosterSettles` therefore speaks of devices that have not left.
- *A transfer aborted while its offer is encrypted* leaves a row in the sender's web
  page that is on its way for ever: the row is added when `sendFile` returns
  (`room.svelte:230`), after the end of it was reported (`orphan` in `RowsTrue`).
- *A receiver who cancels during the hash* sees his row cancelled and then done.
  A sender's row that says done may still become an error: it says so when the last
  chunk has left, not when it has arrived.
- *The terminal's rows*: a late progress event re-adds a row that was removed
  (`app.tsx:102`); a sender's row stays after completion; a second offer is never
  shown, then or later (`app.tsx:100`); the question about an offer outlives the
  transfer, and its keys then do nothing. `saveBlob` looks for a free name and then
  writes, two steps between which a file of that name may appear (`file-io.ts:43`).
- *The sync toggle can show on without an interval.* After two clicks during a
  permission prompt the superseded start ends without arming, but `toggleWatch` shows
  the sync as on (`room.svelte:340`). If the user then stops it, the other start,
  superseded by the stop, shows it as on again, and nothing is read. `NothingRunsOn`
  is the other direction.
- *An answer to "new room" moves the tab wherever it is by then*, and a jump in the
  history changes the room under a mounted page: address and share link are of one
  room, the client of the other. Opening a link to the same path with another key in
  the same tab keeps the old key.
- *A page left before it had a client* connects all the same, and nothing ever
  disconnects it (`early`). A read under way when the sync is stopped, or the room
  ended, still sends what it finds.
- *A text read before anybody listens is never sent* (`clipboard.ts:146` takes it as
  seen). `CopyFlows` is about texts copied once the page is ready. The watcher, unlike
  the composer, does not look at the size of a text: one too large makes the relay
  close the socket with a terminal code.
- *The composer clears its text* though there may be no client, or one without a key,
  to send it (`room.svelte:204`). The button that fills in the clipboard's text
  replaces what was typed, as asked.
- *A refused request for a room* (a bad body, a taken code) counts against the limit
  (`PostRefused`); a failed check for a release counts as a check; a code is taken as
  long as the row of an expired room has not been collected.
- *Health counts* miss a room that outlives its row by one round of the collector,
  and a socket with a full buffer misses its peer counts.

## The proofs

`FileTransferProofs` proves, from `TransferAssumption` alone (any receivers, any
positive chunk count, interval and window, any faults):

| theorem | statement |
|---|---|
| `Inductive` | `Spec => []IInv` |
| `TypeCorrect` | `Spec => []TypeOK` |
| `CreditHolds` | `Spec => []CreditWindow` |
| `OnePumpHolds` | `Spec => []OnePump` |
| `NoWakeupLost` | `Spec => []NoLostWakeup` |
| `EndIsFinal` | `Spec => EndedStaysEnded` |
| `StreamImplemented` | `Spec => StreamSpec`, the refinement of `WindowedStream` |

It also proves `AcksTellTheTruth` (`Spec => []AckedWasReceived`) and
`ChunksCountOnce` (`Spec => []CountedOnce`). `TransferRowsProofs` carries all of it
over to the engine under its user interfaces: `RowsRefineEngine`
(`RowsSpec => Spec`), `EngineHolds`, `EndIsFinalUnderRows`, `StreamUnderRows`; and
proves what the rows say, `RowsTellTheTruth` (`RowsSpec => []RowsTrue`).

*The argument.* `TypeOK` is not inductive: that an acknowledgement stays within the
file depends on which acknowledgements travel. `IInv` strengthens it by one idea:
nothing in the system speaks of a chunk that has not left. Every chunk and
acknowledgement frame in a queue is below `nextChunk` (`NetOK`); so is whatever a
receiver holds, counts or is decrypting (`ReceiverOK`); hence `ackedUpTo` is
(`SenderOK`), and the window's arithmetic closes. `SenderOK` also ties the pump to
the window: a suspended pump has started and has room, an idle one of a live
transfer has none and is not done. Each action has a step, each conjunct it can
disturb a step below; arithmetic is in lemmas over integers (`AckNarrows`,
`SendFits`), queues in lemmas over sequences (`SentTyped`, `ArrivedTyped`,
`QueuesGrow`). The refinement maps an acknowledgement to `Ack` or a stutter, the end
of an encryption to `Send` or a stutter, every end of the transfer to `Abort`.
`EndIsFinal` needs only one thing more, that the stall timer is armed for an entry that
lives (`TimerLives`).

`AckInv` follows one claim on its way. What a receiver calls its prefix is in its
buffer (`PrefixHeld`); so whatever acknowledgement travels names chunks that some
buffer holds (`AckFrame`), and so does the sender's counter. A buffer only grows,
unless a second offer empties it; `OfferOnce` says that there is never one: the offer
is in at most one place of one queue, and as long as it is on its way or being
decrypted its receiver has not begun.

`RelayApiProofs` proves of `RoomStore`, from `StoreAssumption` and `FRESH = TRUE` (any ids,
sockets, ages, clock and number of restarts):

| theorem | statement |
|---|---|
| `Inductive` | `Spec => []IInv` |
| `TypeCorrect` | `Spec => []TypeOK` |
| `NoOrphans` | `Spec => []MembersReachable` |
| `Isolation` | `Spec => []RoomsIsolated` |
| `CountsHold` | `Spec => []CountsTold` |
| `UrlsLast` | `Spec => []UrlLasts` |
| `Ceiling` | `Spec => []HardCeiling` |

*The argument.* The code finds everything by an id that is used again, so what has
to be invariant is that the id still means the same room. `IInv` says so from every
side: a socket listed in a room carries its id and its serial and is not closed
(`RoomOK`), which makes a late `onClose` harmless to a new room with the old id; a
room in memory and its row have one serial and one birth date (`RowsOK`), which lets
eviction and return lose nothing; a young room has a row (`YoungKept`); a room in
memory is young enough for the collector's next round (`RoomOK`), which gives
`HardCeiling`. `FRESH` is used once, in `CreateStep`: nothing is replaced. All
handlers begin with `get`, so two lemmas about it (`GetFinds`, `VisitKeepsRows`)
carry most of every step.

Its `RoomsHold` is the same of `ApiSpec`, behind limiters and requests. `RelayApi` is not a refinement of `RoomStore`, as a socket over the limit is
closed though its room exists; that step (`TurnedAway`) keeps `IInv`, every other one
is a step of `RoomStore` or leaves the rooms alone.

Its `ReleaseNeverOlder` is `ApiSpec => ReleaseKept`, for any number of
releases. At most one answer is under way, and only while the flag is set
(`OneFetch`); it is no older than what is known and no newer than what is published
(`InOrder`). It needs `refreshing` to be tested before a fetch: the mutant that does
not shows an older answer arriving last.

Its `LimitersExact` is `ApiSpec => []ExactlyTheLimit`, for any limits, windows and
clock. A limiter never holds its window: a call shifts old times out of the list,
a sweep drops a list that is old, a refused call writes nothing back. What the proof
needs is that none of this can be seen: what is left of a list at a time is the same
whatever was shifted out before (`SinceLater`), and a call now is the last of it
(`SinceAppend`). A clock that does not go back is all it rests on.

`WebSessionProofs` proves, from `SessionAssumption` (any number of clicks, copies and
reads), `TypeCorrect`, `NothingOutlivesThePage` (`Spec => []NothingRunsOn`) and
`TypedTextStays` (`Spec => TypedKept`). `NothingRunsOn` is not inductive: an interval
could be armed by a start from before. `StartsKnown` says that a pending start has a
generation the watcher has reached, which is in the past once the page is left;
`PageKnown` ties the client to the page it was made by, up to `early` and `swapped`.

`PeerLinkProofs` proves, from `PeerAssumption` alone (any devices, faults and
identities, any redial beside any ghost), every safety property of the passing run:

| theorem | statement |
|---|---|
| `TypeCorrect` | `Spec => []TypeOK` |
| `EndIsFinal` | `Spec => []EndedStaysDown` |
| `LinkedIffCounted` | `Spec => []LinkIffCompany` |
| `DirectIsOpen` | `Spec => []DirectMeansOpen` |

*The argument.* The invariant behind the first two (`LInv`) says what a device may
still have when its socket has none: no dial, no timer, no link once it has ended.
`LinkIffCompany` speaks of devices that have handled all they were sent; what is
invariant is `Company`, about a device together with the frames on their way to it.
The last frame that settles whether there is to be a link, a `hello` or `peer-joined`
with two or more, a `peer-left` with less, agrees with the sockets the relay counts
now, and if none is on the way the link itself does (`Settled`). It holds because the
relay changes its count and says so in one step, to every other socket, and what it
does not say (a signal, a `peer-left` among many) does not move the count across two.
A `hello` comes first and finds no link (`Greeted`). `Shown` is `DirectMeansOpen`
for one device, and needs only that every step that ends a link tells the user or has
told him before.

`LanRelayProofs` proves `TypeCorrect` (`Spec => []TypeOK`) and `NobodyIsMissing`
(`Spec => []NobodyMissing`) for any devices, windows and periods, the second from
`heartbeatMs <= ttlMs`, which the defaults satisfy (`presence.ts:38`: 20 s and 8 s).
*The argument.* A roster is right at every moment although names travel encrypted,
sockets die unnoticed and windows drop frames: for every pair in the room either the
name is in the other's roster and young, or it is on its way, somewhere, from an
announcement that is being encrypted to one that is being decrypted (`Says`), or it
was there when a departure was noticed, and will be said again before the prune
(`Followed`); `Listed` is what holds between beats. The hypothesis is used where
time passes: an entry is never older than the last beat.

`RoomPageProofs` proves, from `PageAssumption` (any items, list, quota and number
of saves), `TypeCorrect` with no more, `PageIsStore` (`Spec => []SameList`) and
`PinsLast` (`Spec => []PinnedKept`) from `CALM`, and `DiskIsStore`
(`Spec => []DiskCatchesUp`) from `CALM` and `ORDERED`; the table of conditions above
says what both mean, and what goes wrong without them. *The argument.* Screen and
store are changed by one handler, one after the other, but a pin reaches the
screen only when it is on disk. So they are alike up to the pin that is under
way (`Alike`), of which there is at most one (`OnePin`). Both lists then evict
alike: `PinAndDrop` says that pinning an item and evicting commute as long as
the item is not the one to go. `KeptPinned` says that eviction takes a pinned item
only if there is nothing else; `LastSave` that the newest of the saves under way, or
else the disk, holds the store. `Typed` adds to `TypeOK` that no id is in a list
twice, which is also why removing the first match of an id (`Without`) is removing
all of it, as the code does.

`ClipSyncProofs` proves every safety property of `ClipSync`, from `ClipAssumption`
and what the statement of a theorem adds, for any devices, clips, faults and
interleaving:

| theorem | statement | from |
|---|---|---|
| `TypeCorrect` | `Spec => []TypeOK` | |
| `RingIsShown` | `Spec => []RingShown` | |
| `RingStaysClean` | `Spec => []RingClean` | `~EARLY` |
| `DeletesReachAll` | `Spec => []DeleteReachesAll` | `~EARLY`, `PROMPT`, `~P2P` |
| `ForeignOnce` | `Spec => []ForeignClipOnce` | `MaxDeletes = 0`, `~P2P`, `REPLAY_CAP >= 2 * RECENT_CAP - 1` |
| `EverybodyHasAll` | `Spec => []AllHaveAll` | `BACKFILL`, `~P2P`, `MaxDeletes = 0`, no capacity below `MaxClips` |

The hypotheses are the conditions of the table above, and two on the capacities. The
code has a ReplaySet of 256 for a ring of 50. `EverybodyHasAll` is about a session
that overflows nothing, which is at most 20 clips (the limiter's window; the
ring has 50 places, the queue 100); `ClipSync_deletes` checks it with deletes, with
whose frames the proof does not reckon.

*The argument.* `RingShown`: as long as a device's path works, what the ring holds is
in its list, is being decrypted, or is on its socket (`Backfilled`), and what its
ReplaySet knows it has taken. `RingClean`: a clip that waits at its author is known
to nobody else (`Fresh`) and exists once (`Single`), a delete is sent behind its clip
(`InOrder`); so the relay never handles a clip after its delete. `DeleteReachesAll`:
every delete the relay has handled has its tombstone (`Remembered`), so a device
that comes back is greeted with it, behind the clip if that is in the ring as well
(`Reaching`, `WireInOrder`). `AllHaveAll`: until something breaks, every clip is in
the ring or waits at its author (`Unbroken`), and no device has sent more than was
composed (`Counted`), so that nothing overflows.

`ForeignClipOnce` is about how far apart two deliveries of one clip can be. A clip can
come again while it is in the ring or on a socket, and must be in the ReplaySet as
long (`Known`). All sockets carry clips in the order of the ring (`RingOrder`). What
the ReplaySet took after a clip of the ring, and what is on the socket, is in the
ring behind that clip, or was in front of it when the clip came (`NearRing`); the
second set never grows, because the ring loses its front first. Each is smaller than
the ring, so before a greeting brings the clip again the ReplaySet has taken at most
`2 * RECENT_CAP - 2` others (`NearWire`, `RoomToReplay`). The bound is met
with no place to spare: `ClipSync_deletes` has a ring of two and a ReplaySet of three,
and with a ReplaySet of two TLC finds `ForeignClipOnce` violated.

*Only model-checked*: all liveness (`StartedEnds`, `QueueDrains`, `DeliveredExpires`,
`CopyFlows`, `LinksForm`, `RosterSettles`), which rests on fairness and `ENABLED`,
beyond this prover; and `AllHaveAll` in the presence of deletes.

## Not modelled

Encryption and keys, room codes and URLs, and the wire schemas are pure functions over
bytes and strings, taken as actions that may fail or as small sets; where a schema's
constraint matters (an acknowledgement is not negative) it is in the model. LAN
discovery is a library's, ICE configuration and the terminal's WebRTC adapter are
lists and adapters. Health, metrics, static files and the installer keep no state
the properties are about. The user interfaces are modelled as far as they keep state
that something else depends on; what only displays is left out, and so are staged
files (one that is staged while its owner is alone is dropped), images, search, export
and sharing. Within modelled components: liveness of links in rooms of more than two devices,
ICE candidates, backoff delays, status and error events, undecryptable clips, several
files at once, several addresses, visits and tabs. A generated room id is not looked
up (`rooms.ts:75`, the constant `FRESH`), and the LAN relay drops what exceeds a
window, which the rosters survive.

## The plan

Modelled, in this order: the engine, clips, rooms, the page, the connection and the
link, presence and the LAN relay, the relay's front door, transfer rows, a visit to
the web page. Each question has one run. `TransferRows` and `RelayApi` check the
engine's and the rooms' properties in their larger context; `FileTransfer` and
`RoomStore` are kept as what the proofs are about.

Every safety property of the passing runs is proved. Next, what the proofs of clip
synchronisation still assume: `AllHaveAll` with deletes, and `ForeignClipOnce` with
deletes and over links.

A larger model worth having: rooms of three devices with links under TLC, where a link
takes signals from everybody. The proofs about `PeerLink` cover them; `LinksForm` does
not.
