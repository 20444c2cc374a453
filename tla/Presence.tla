------------------------------ MODULE Presence ------------------------------
(***************************************************************************)
(* Who is here: PresenceManager (packages/client-core/src/presence.ts), one *)
(* per device.  A device announces itself when it is greeted, when anybody *)
(* comes or goes, and with every heartbeat; it forgets whom it has not     *)
(* heard of for a while (the sweep), and sooner when somebody has left     *)
(* (the prune).                                                            *)
(*                                                                         *)
(* These are the operations, each on the manager of device d; LanRelay     *)
(* composes them with a relay and calls them as client.ts does.  A name    *)
(* that is being encrypted or decrypted is counted, as several can be.     *)
(* Instead of lastSeen an entry has its age, and instead of comparing it   *)
(* with the time of a departure, `stale` has the entries older than that.  *)
(* A countdown at 0 is due.                                                *)
(***************************************************************************)
EXTENDS Integers, FiniteSets

CONSTANTS
    Devices,
    heartbeatMs, sweepMs, ttlMs, pruneDelayMs

ASSUME PresenceAssumption ==
    /\ heartbeatMs \in Nat \ {0} /\ sweepMs \in Nat \ {0}
    /\ ttlMs \in Nat /\ pruneDelayMs \in Nat \ {0}

VARIABLES
    age,          \* age[d][e]: since when d has not heard of e, or Off
    stale,        \* entries the prune of d will drop
    heartbeat, sweep, prune,  \* countdowns of its timers, or Off
    announcing,   \* announcements of d being encrypted
    decrypting    \* decrypting[d][e]: announcements of e being decrypted on d

presenceVars == <<age, stale, heartbeat, sweep, prune, announcing, decrypting>>

Off == -1

\* The age beyond which ages are all the same.
Old == ttlMs + 1

Roster(d) == {e \in Devices : age[d][e] # Off}

Forget(d, S) == age' = [age EXCEPT ![d] = [e \in Devices |-> IF e \in S THEN Off ELSE @[e]]]

\* announce up to its await.
Announce(d) == announcing' = [announcing EXCEPT ![d] = @ + 1]

\* Mutant: a departure is not answered with an announcement.
OnPeerChange_Silent(d, left) ==
    /\ IF left
       THEN /\ prune' = [prune EXCEPT ![d] = pruneDelayMs]
            /\ stale' = [stale EXCEPT ![d] = Roster(d)]
            /\ UNCHANGED announcing
       ELSE Announce(d) /\ UNCHANGED <<prune, stale>>
    /\ UNCHANGED <<age, heartbeat, sweep, decrypting>>

\* onPeerChange.  What was heard earlier in the same unit is older as well.
OnPeerChange(d, left) ==
    /\ Announce(d)
    /\ IF left
       THEN /\ prune' = [prune EXCEPT ![d] = pruneDelayMs]
            /\ stale' = [stale EXCEPT ![d] = Roster(d)]
       ELSE UNCHANGED <<prune, stale>>
    /\ UNCHANGED <<age, heartbeat, sweep, decrypting>>

Start(d) ==
    IF heartbeat[d] # Off
    THEN UNCHANGED presenceVars
    ELSE /\ Announce(d)
         /\ heartbeat' = [heartbeat EXCEPT ![d] = heartbeatMs]
         /\ sweep' = [sweep EXCEPT ![d] = sweepMs]
         /\ UNCHANGED <<age, stale, prune, decrypting>>

\* What is being encrypted or decrypted goes on.
Stop(d) ==
    /\ heartbeat' = [heartbeat EXCEPT ![d] = Off]
    /\ sweep' = [sweep EXCEPT ![d] = Off]
    /\ prune' = [prune EXCEPT ![d] = Off]
    /\ stale' = [stale EXCEPT ![d] = {}]
    /\ Forget(d, Devices)
    /\ UNCHANGED <<announcing, decrypting>>

\* handlePresence up to its await, and after it.
HandlePresence(d, e) ==
    /\ decrypting' = [decrypting EXCEPT ![d][e] = @ + 1]
    /\ UNCHANGED <<age, stale, heartbeat, sweep, prune, announcing>>

Decrypted(d, e) ==
    /\ decrypting[d][e] > 0
    /\ decrypting' = [decrypting EXCEPT ![d][e] = @ - 1]
    /\ age' = [age EXCEPT ![d][e] = 0]
    /\ stale' = [stale EXCEPT ![d] = @ \ {e}]
    /\ UNCHANGED <<heartbeat, sweep, prune, announcing>>

Heartbeat(d) ==
    /\ heartbeat[d] = 0
    /\ heartbeat' = [heartbeat EXCEPT ![d] = heartbeatMs]
    /\ Announce(d)
    /\ UNCHANGED <<age, stale, sweep, prune, decrypting>>

\* Mutant: the cutoff is the present.
Expired_AtOnce(d) == {e \in Devices : age[d][e] > 0}

\* The entries beyond their time to live.
Expired(d) == {e \in Devices : age[d][e] > ttlMs}

\* tick.
Sweep(d) ==
    /\ sweep[d] = 0
    /\ sweep' = [sweep EXCEPT ![d] = sweepMs]
    /\ Forget(d, Expired(d))
    /\ stale' = [stale EXCEPT ![d] = @ \ Expired(d)]
    /\ UNCHANGED <<heartbeat, prune, announcing, decrypting>>

Prune(d) ==
    /\ prune[d] = 0
    /\ prune' = [prune EXCEPT ![d] = Off]
    /\ Forget(d, stale[d])
    /\ stale' = [stale EXCEPT ![d] = {}]
    /\ UNCHANGED <<heartbeat, sweep, announcing, decrypting>>

Due == \E d \in Devices : 0 \in {heartbeat[d], sweep[d], prune[d]}

Countdown(timer) == [d \in Devices |-> IF timer[d] > 0 THEN timer[d] - 1 ELSE timer[d]]

\* A unit of time passes; what is due comes first.
Elapse ==
    /\ ~Due
    /\ heartbeat' = Countdown(heartbeat)
    /\ sweep' = Countdown(sweep)
    /\ prune' = Countdown(prune)
    /\ age' = [d \in Devices |-> [e \in Devices |->
                  IF age[d][e] \in {Off, Old} THEN age[d][e] ELSE age[d][e] + 1]]
    /\ UNCHANGED <<stale, announcing, decrypting>>

PresenceInit ==
    /\ age = [d \in Devices |-> [e \in Devices |-> Off]]
    /\ stale = [d \in Devices |-> {}]
    /\ heartbeat = [d \in Devices |-> Off]
    /\ sweep = [d \in Devices |-> Off]
    /\ prune = [d \in Devices |-> Off]
    /\ announcing = [d \in Devices |-> 0]
    /\ decrypting = [d \in Devices |-> [e \in Devices |-> 0]]

PresenceTypeOK ==
    /\ age \in [Devices -> [Devices -> Off .. Old]]
    /\ stale \in [Devices -> SUBSET Devices]
    /\ heartbeat \in [Devices -> Off .. heartbeatMs]
    /\ sweep \in [Devices -> Off .. sweepMs]
    /\ prune \in [Devices -> Off .. pruneDelayMs]
    /\ announcing \in [Devices -> Nat]
    /\ decrypting \in [Devices -> [Devices -> Nat]]
    /\ \A d \in Devices : d \notin Roster(d) /\ stale[d] \subseteq Roster(d)
=============================================================================
