----------------------------- MODULE GameBridge -----------------------------
(***************************************************************************)
(* The bridge between the simulator and the game's frame                   *)
(* (use-game-bridge.ts, use-game-manifest.ts): a connection per mounted    *)
(* frame, snapshots pushed when their content changes, and the manifest    *)
(* that is part of every snapshot.  A snapshot's content is a number, the  *)
(* manifest in it is the fallback or that of a mounted game.               *)
(***************************************************************************)
EXTENDS Integers, Sequences, FiniteSets

CONSTANTS
    Unset,
    MaxMounts, MaxContent, MaxRebuilds, MaxLost     \* bounds

ASSUME GameBridgeAssumption ==
    Unset \notin Nat /\ {MaxMounts, MaxContent, MaxRebuilds, MaxLost} \subseteq Nat

VARIABLES
    mount,      \* the frame that is mounted, 0 for none; each has a game of its own
    mounts,     \* frames mounted so far
    guestApi,   \* the frame whose handshake has been answered
    snapshot,   \* Unset, or its content and manifest
    rebuilds,   \* snapshots built anew without a change
    manifest,   \* of which frame's game; 0 is the fallback
    fetching,   \* frames whose manifest is on its way
    lastPushed,
    wire,       \* setState calls on their way: the frame, the content
    received,   \* what each frame's game received
    lost        \* frames that lost a push

bridgeVars == <<mount, mounts, guestApi, snapshot, rebuilds, manifest, fetching, lastPushed,
                wire, received, lost>>

BridgeInit ==
    /\ mount = 0 /\ mounts = 0 /\ guestApi = 0
    /\ snapshot = Unset /\ rebuilds = 0 /\ manifest = 0 /\ fetching = {}
    /\ lastPushed = Unset /\ wire = <<>>
    /\ received = [m \in 1..MaxMounts |-> <<>>] /\ lost = {}

Push(m, content) == Append(wire, [to |-> m, content |-> content])

\* pushSnapshotChangesToGuest, after a render that has this snapshot.
Rendered(next) ==
    /\ snapshot' = next
    /\ IF guestApi # 0 /\ next # lastPushed
       THEN lastPushed' = next /\ wire' = Push(guestApi, next)
       ELSE UNCHANGED <<lastPushed, wire>>

Mount ==
    /\ mount = 0 /\ mounts < MaxMounts
    /\ mount' = mounts + 1 /\ mounts' = mounts + 1
    /\ fetching' = fetching \cup {mounts + 1}
    /\ UNCHANGED <<guestApi, snapshot, rebuilds, manifest, lastPushed, wire, received, lost>>

\* The cleanups: the connection is destroyed, its handshake and fetch cancelled.
Unmount ==
    /\ mount # 0
    /\ mount' = 0 /\ guestApi' = 0 /\ lastPushed' = Unset /\ snapshot' = Unset /\ manifest' = 0
    /\ UNCHANGED <<mounts, rebuilds, fetching, wire, received, lost>>

\* Mutation: the game is left to wait for the next change.
HandshakeSilent ==
    /\ mount # 0 /\ guestApi = 0
    /\ guestApi' = mount /\ lastPushed' = snapshot
    /\ UNCHANGED <<mount, mounts, snapshot, rebuilds, manifest, fetching, wire, received, lost>>

\* The game answered, unless its frame is gone: it gets the snapshot there is.
Handshake ==
    /\ mount # 0 /\ guestApi = 0
    /\ guestApi' = mount
    /\ IF snapshot = Unset THEN UNCHANGED <<lastPushed, wire>>
       ELSE lastPushed' = snapshot /\ wire' = Push(mount, snapshot)
    /\ UNCHANGED <<mount, mounts, snapshot, rebuilds, manifest, fetching, received, lost>>

\* The host's state changes, or is only put together again.
Change ==
    /\ mount # 0
    /\ LET content == IF snapshot = Unset THEN 1 ELSE snapshot.content + 1
       IN  content <= MaxContent /\ Rendered([content |-> content, manifest |-> manifest])
    /\ UNCHANGED <<mount, mounts, guestApi, rebuilds, manifest, fetching, received, lost>>

Rebuild ==
    /\ mount # 0 /\ snapshot # Unset /\ rebuilds < MaxRebuilds
    /\ rebuilds' = rebuilds + 1
    /\ Rendered(snapshot)
    /\ UNCHANGED <<mount, mounts, guestApi, manifest, fetching, received, lost>>

\* The manifest is fetched and valid; one that is not leaves the fallback.
ManifestArrives(m) ==
    /\ m \in fetching
    /\ fetching' = fetching \ {m}
    /\ IF m # mount THEN UNCHANGED <<manifest, snapshot, lastPushed, wire>>
       ELSE /\ manifest' = m
            /\ IF snapshot = Unset THEN UNCHANGED <<snapshot, lastPushed, wire>>
               ELSE Rendered([snapshot EXCEPT !.manifest = m])
    /\ UNCHANGED <<mount, mounts, guestApi, rebuilds, received, lost>>

ManifestFails(m) ==
    /\ m \in fetching
    /\ fetching' = fetching \ {m}
    /\ UNCHANGED <<mount, mounts, guestApi, snapshot, rebuilds, manifest, lastPushed, wire,
                   received, lost>>

\* setState arrives, in order; a frame that is gone receives nothing more.
Delivered ==
    /\ wire # <<>>
    /\ wire' = Tail(wire)
    /\ received' = IF Head(wire).to # mount THEN received
                   ELSE [received EXCEPT ![mount] = Append(@, Head(wire).content)]
    /\ UNCHANGED <<mount, mounts, guestApi, snapshot, rebuilds, manifest, fetching, lastPushed, lost>>

\* The call fails, which nobody looks at.
PushLost ==
    /\ wire # <<>> /\ Cardinality(lost) < MaxLost
    /\ wire' = Tail(wire) /\ lost' = lost \cup {Head(wire).to}
    /\ UNCHANGED <<mount, mounts, guestApi, snapshot, rebuilds, manifest, fetching, lastPushed,
                   received>>

BridgeNext ==
    \/ Mount \/ Unmount \/ Handshake \/ Change \/ Rebuild \/ Delivered \/ PushLost
    \/ \E m \in 1..MaxMounts : ManifestArrives(m) \/ ManifestFails(m)

BridgeFairness == WF_bridgeVars(Delivered)

-----------------------------------------------------------------------------
\* A connected game comes to know the host's state, until a push is lost (which
\* stays lost until the next change).
GuestFollows ==
    <>[](guestApi # 0 /\ guestApi \notin lost /\ snapshot # Unset =>
            received[guestApi] # <<>> /\ received[guestApi][Len(received[guestApi])] = snapshot)
=============================================================================
