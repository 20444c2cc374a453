------------------------------ MODULE RelayApi ------------------------------
(***************************************************************************)
(* The relay's front door over RoomStore: POST /api/room and the upgrade   *)
(* of /ws, each behind a SlidingWindowLimiter (rate-limit.ts), the timers  *)
(* of server.ts, and the UpdateChecker (version.ts) behind                 *)
(* GET /api/version.                                                       *)
(*                                                                         *)
(* A limiter keeps the times of the calls it granted, per address, and     *)
(* forgets lazily: when the address calls again, and in a sweep.  Whatever *)
(* is forgotten or kept too long shows only calls later, as a room too     *)
(* many or a caller refused for nothing.  All of this is in memory, a      *)
(* restart starts it afresh.                                               *)
(***************************************************************************)
EXTENDS RoomStore, Window

CONSTANTS
    Ips,                    \* what clientIp makes of a request
    ROOM_IP_LIMIT, ROOM_WINDOW,
    WS_CONNECT_IP_LIMIT, WS_WINDOW,
    MaxReleases             \* bound on the releases published

ASSUME ApiAssumption ==
    /\ ROOM_IP_LIMIT \in Nat \ {0} /\ ROOM_WINDOW \in Nat
    /\ WS_CONNECT_IP_LIMIT \in Nat \ {0} /\ WS_WINDOW \in Nat
    /\ MaxReleases \in Nat \ {0}

VARIABLES
    roomHits,    \* hits of ipLimiter: the times it granted, oldest first
    wsHits,      \* hits of wsConnectLimiter
    published,   \* the newest release there is (external)
    latest,      \* the newest the checker knows, or 0
    stale,       \* checkedAt is null or ttlMs ago
    refreshing,
    fetches,     \* the answers under way to the checker
    (* what has happened *)
    roomGrants,  \* the grants of this process no older than the window
    wsGrants

limits  == <<roomHits, wsHits, roomGrants, wsGrants>>
checker == <<published, latest, stale, refreshing, fetches>>
apiVars == <<vars, limits, checker>>

-----------------------------------------------------------------------------
(* SlidingWindowLimiter. *)

\* The part of a list of times from `first` on.
Since(times, first) == ShiftWhile(times, {k \in DOMAIN times : times[k] < first})

\* Mutant: a call exactly a window ago is forgotten.
Fresh_Open(hits, window) == Since(hits, now - window + 1)

\* What is left of the hits once those before the window are shifted out.
Fresh(hits, window) == Since(hits, now - window)

Allowed(hits, limit, window) == Len(Fresh(hits, window)) < limit

\* Mutant: a refused call counts.
Hit_Refused(hits, limit, window) == Append(Fresh(hits, window), now)

\* allow: the hits it leaves.
Hit(hits, limit, window) ==
    IF Allowed(hits, limit, window) THEN Append(Fresh(hits, window), now)
                                    ELSE Fresh(hits, window)

\* Mutant: a key with an old entry is dropped.
Swept_Whole(hits, window) ==
    IF hits # <<>> /\ Head(hits) < now - window THEN <<>> ELSE hits

\* sweep: of one key.
Swept(hits, window) == Fresh(hits, window)

\* allow, by the limiter of new rooms.
RoomAllow(ip) ==
    /\ roomHits' = [roomHits EXCEPT ![ip] = Hit(@, ROOM_IP_LIMIT, ROOM_WINDOW)]
    /\ roomGrants' = [roomGrants EXCEPT ![ip] =
                        IF Allowed(roomHits[ip], ROOM_IP_LIMIT, ROOM_WINDOW)
                        THEN Append(@, now) ELSE @]
    /\ UNCHANGED <<wsHits, wsGrants>>

\* allow, by the limiter of new sockets.
WsAllow(ip) ==
    /\ wsHits' = [wsHits EXCEPT ![ip] = Hit(@, WS_CONNECT_IP_LIMIT, WS_WINDOW)]
    /\ wsGrants' = [wsGrants EXCEPT ![ip] =
                      IF Allowed(wsHits[ip], WS_CONNECT_IP_LIMIT, WS_WINDOW)
                      THEN Append(@, now) ELSE @]
    /\ UNCHANGED <<roomHits, roomGrants>>

-----------------------------------------------------------------------------
(* POST /api/room: the limiter first, so that a bad body (400) and a taken *)
(* code (409) cost the caller as much as a room.                           *)

PostLimited(ip) ==
    /\ ~Allowed(roomHits[ip], ROOM_IP_LIMIT, ROOM_WINDOW)
    /\ RoomAllow(ip)
    /\ UNCHANGED <<vars, checker>>

PostRefused(ip) ==
    /\ Allowed(roomHits[ip], ROOM_IP_LIMIT, ROOM_WINDOW)
    /\ RoomAllow(ip)
    /\ UNCHANGED <<vars, checker>>

PostCreates(ip, id, custom) ==
    /\ Allowed(roomHits[ip], ROOM_IP_LIMIT, ROOM_WINDOW)
    /\ RoomAllow(ip)
    /\ Create(id, custom)
    /\ UNCHANGED checker

\* The upgrade and onOpen: a socket too many is closed with RATE_LIMIT before any
\* room is looked at.
Connect(s, ip, id) ==
    /\ WsAllow(ip)
    /\ IF Allowed(wsHits[ip], WS_CONNECT_IP_LIMIT, WS_WINDOW)
       THEN OnOpen(s, id)
       ELSE /\ conn[s] = "new"
            /\ conn' = [conn EXCEPT ![s] = "closed"]
            /\ UNCHANGED <<rooms, db, now, gcDue, at, restarts, created, joined, got, told>>
    /\ UNCHANGED checker

\* The other handlers of a socket.
Handle(s) ==
    /\ OnMessage(s) \/ Reject(s) \/ OnClose(s)
    /\ UNCHANGED <<limits, checker>>

-----------------------------------------------------------------------------
(* UpdateChecker.  ttlMs may pass at any time after a check.               *)

\* Mutant: every stale snapshot starts a fetch.
MayRefresh_Again == stale

MayRefresh == stale /\ ~refreshing

\* snapshot: starts a refresh if the cache is stale.
Snapshot ==
    /\ MayRefresh
    /\ refreshing' = TRUE
    /\ fetches' = fetches \cup {published}
    /\ UNCHANGED <<vars, limits, published, latest, stale>>

\* What fetchLatestRelease leaves as the newest: the tag, or with an answer without
\* one, an error or a timeout what was known.
Known(tag) == {tag, latest}

\* refresh goes on.
Refreshed(tag) ==
    /\ tag \in fetches
    /\ fetches' = fetches \ {tag}
    /\ latest' \in Known(tag)
    /\ stale' = FALSE
    /\ refreshing' = FALSE
    /\ UNCHANGED <<vars, limits, published>>

GetsStale ==
    /\ ~stale
    /\ stale' = TRUE
    /\ UNCHANGED <<vars, limits, published, latest, refreshing, fetches>>

\* A release appears (external).
Publish ==
    /\ published < MaxReleases
    /\ published' = published + 1
    /\ UNCHANGED <<vars, limits, latest, stale, refreshing, fetches>>

-----------------------------------------------------------------------------
\* The two timers were started together and have the same period.
Timers ==
    /\ Gc
    /\ roomHits' = [ip \in Ips |-> Swept(roomHits[ip], ROOM_WINDOW)]
    /\ wsHits' = [ip \in Ips |-> Swept(wsHits[ip], WS_WINDOW)]
    /\ UNCHANGED <<roomGrants, wsGrants, checker>>

\* The history keeps the grants that are in the window by the new time.
ApiTick ==
    /\ Tick
    /\ roomGrants' = [ip \in Ips |-> Since(roomGrants[ip], now' - ROOM_WINDOW)]
    /\ wsGrants' = [ip \in Ips |-> Since(wsGrants[ip], now' - WS_WINDOW)]
    /\ UNCHANGED <<roomHits, wsHits, checker>>

NoCalls == [ip \in Ips |-> <<>>]

\* The process starts over the same database file; the rest is gone.
ApiRestart ==
    /\ Restart
    /\ roomHits' = NoCalls /\ wsHits' = NoCalls
    /\ roomGrants' = NoCalls /\ wsGrants' = NoCalls
    /\ latest' = 0 /\ stale' = TRUE /\ refreshing' = FALSE /\ fetches' = {}
    /\ UNCHANGED published

ApiInit ==
    /\ Init
    /\ roomHits = NoCalls /\ wsHits = NoCalls
    /\ roomGrants = NoCalls /\ wsGrants = NoCalls
    /\ published = 1 /\ latest = 0
    /\ stale = TRUE /\ refreshing = FALSE /\ fetches = {}

ApiNext ==
    \/ \E ip \in Ips :
        \/ PostLimited(ip) \/ PostRefused(ip)
        \/ \E id \in RoomIds, custom \in BOOLEAN : PostCreates(ip, id, custom)
        \/ \E s \in Sockets, id \in RoomIds : Connect(s, ip, id)
    \/ \E s \in Sockets : Handle(s)
    \/ Snapshot \/ GetsStale \/ Publish
    \/ \E tag \in 1 .. MaxReleases : Refreshed(tag)
    \/ Timers \/ ApiTick \/ ApiRestart

ApiSpec == ApiInit /\ [][ApiNext]_apiVars

-----------------------------------------------------------------------------
(* What should hold. *)

\* Exactly the limit: in every window an address is granted no call too many, and
\* what its limiter goes by is the calls it was granted in the window, no others:
\* it is never refused over a call that was refused, or one from before, whenever
\* the sweeps come.
ExactlyTheLimit ==
    \A ip \in Ips :
        /\ Len(roomGrants[ip]) <= ROOM_IP_LIMIT
        /\ Len(wsGrants[ip]) <= WS_CONNECT_IP_LIMIT
        /\ Fresh(roomHits[ip], ROOM_WINDOW) = roomGrants[ip]
        /\ Fresh(wsHits[ip], WS_WINDOW) = wsGrants[ip]

\* What the relay tells of the newest release never goes back to an older one or
\* to none while it runs, however slow or failing the fetches are.
ReleaseKept == [][latest' >= latest \/ restarts' # restarts]_apiVars
=============================================================================
