---------------------------- MODULE HostCallbacks ----------------------------
(***************************************************************************)
(* host-handle.ts: the checksum and intercept callbacks of hosts; and      *)
(* global.ts: noMemory, which takes its slot from the same pool.           *)
(*                                                                         *)
(* ENet passes no host to a checksum, so each JS checksum is registered in *)
(* a Koffi slot of its own, which the host's checksum field points to.     *)
(* Every JS intercept goes through one slot, and the Map intercepts finds  *)
(* the handler by host pointer.  Both Maps must agree with what is in C,   *)
(* although host pointers and slots are reused.                            *)
(*                                                                         *)
(* A setter is one step: it runs no callback.  It can run at any time, in  *)
(* a callback that ENet runs while it destroys that very host too, which   *)
(* is why destroying a host takes two steps.                               *)
(***************************************************************************)
EXTENDS Naturals

CONSTANTS
    Host,       \* host pointers
    Slot,       \* Koffi's callback slots
    Handler,    \* JS functions
    Null,       \* a null pointer, and null in JS
    Crc32,      \* enet_crc32, and enet.crc32 in JS
    Absent,     \* no entry in a Map; no function in a slot
    StoresBeforeFailing \* whether a call to enet_initialize_with_callbacks that
                        \* fails may have stored noMemory

ASSUME HostCallbacksAssumption ==
    /\ Slot \cap {Null, Crc32, Absent} = {}
    /\ Handler \cap {Null, Crc32, Absent} = {}
    /\ Null # Crc32
    /\ StoresBeforeFailing \in BOOLEAN

VARIABLES
    live,           \* the hosts that exist in C
    dying,          \* those of them that enet_host_destroy works on
    checksumField,  \* host->checksum
    interceptField, \* host->intercept: whether it is interceptAddress
    checksums,      \* the Map: the slot and the handler
    intercepts,     \* the Map: the handler
    koffi,          \* the JS function each slot calls
    noMemory,       \* the slot that ENet calls when it has no memory
    failed,         \* history: hosts whose last assignment to checksum threw
    lost,           \* history: slots that were given up by such an assignment
    kept            \* history: the noMemory that ENet accepted in each slot

history == <<failed, lost, kept>>
hostVars == <<live, dying, checksumField, interceptField, checksums, intercepts>>
vars == <<hostVars, koffi, noMemory, history>>

NoChecksum == [address |-> Absent, handler |-> Absent]

TypeOK ==
    /\ live \subseteq Host
    /\ dying \subseteq live
    /\ checksumField \in [Host -> Slot \cup {Null, Crc32}]
    /\ interceptField \in [Host -> BOOLEAN]
    /\ checksums \in [Host -> [address : Slot, handler : Handler] \cup {NoChecksum}]
    /\ intercepts \in [Host -> Handler \cup {Absent}]
    /\ koffi \in [Slot -> Handler \cup {Absent}]
    /\ noMemory \in Slot \cup {Null}
    /\ failed \subseteq live
    /\ lost \subseteq Slot
    /\ kept \in [Slot -> Handler \cup {Absent}]

Init ==
    /\ live = {}
    /\ dying = {}
    /\ checksumField = [host \in Host |-> Null]
    /\ interceptField = [host \in Host |-> FALSE]
    /\ checksums = [host \in Host |-> NoChecksum]
    /\ intercepts = [host \in Host |-> Absent]
    /\ koffi = [slot \in Slot |-> Absent]
    /\ noMemory = Null
    /\ failed = {}
    /\ lost = {}
    /\ kept = [slot \in Slot |-> Absent]

-----------------------------------------------------------------------------
\* unregisterChecksum
Unregister(slots, checksum) ==
    IF checksum = NoChecksum THEN slots ELSE [slots EXCEPT ![checksum.address] = Absent]

FreeSlots == {slot \in Slot : koffi[slot] = Absent}

\* enet_host_create, at any address that is not in use; its fields are null.
Create(host) ==
    /\ host \notin live
    /\ live' = live \cup {host}
    /\ checksumField' = [checksumField EXCEPT ![host] = Null]
    /\ interceptField' = [interceptField EXCEPT ![host] = FALSE]
    /\ UNCHANGED <<dying, checksums, intercepts, koffi, noMemory, history>>

\* host.checksum = null and host.checksum = enet.crc32
ClearChecksum(host, value) ==
    /\ host \in live
    /\ checksums' = [checksums EXCEPT ![host] = NoChecksum]
    /\ checksumField' = [checksumField EXCEPT ![host] = value]
    /\ koffi' = Unregister(koffi, checksums[host])
    /\ failed' = failed \ {host}
    /\ UNCHANGED <<live, dying, interceptField, intercepts, noMemory, lost, kept>>

\* host.checksum = handler: the new handler is registered, in a slot that was
\* free before the old one's is freed.
SetChecksum(host, handler, slot) ==
    /\ host \in live
    /\ slot \in FreeSlots
    /\ checksums' = [checksums EXCEPT ![host] = [address |-> slot, handler |-> handler]]
    /\ checksumField' = [checksumField EXCEPT ![host] = slot]
    /\ koffi' = Unregister([koffi EXCEPT ![slot] = handler], checksums[host])
    /\ failed' = failed \ {host}
    /\ UNCHANGED <<live, dying, interceptField, intercepts, noMemory, lost, kept>>

\* host.checksum = handler with no slot left: koffi.register throws after
\* checksums.delete, and the lines after it do not run.
FailChecksum(host) ==
    /\ host \in live
    /\ FreeSlots = {}
    /\ checksums' = [checksums EXCEPT ![host] = NoChecksum]
    /\ failed' = failed \cup {host}
    /\ lost' = lost \cup ({checksums[host].address} \ {Absent})
    /\ UNCHANGED <<live, dying, checksumField, interceptField, intercepts, koffi, noMemory, kept>>

\* Mutants of Installed: the field gets the function; null leaves it alone.
InstalledItself(handler) == handler
InstalledAlways(handler) == TRUE

\* What the setter writes to the field: null, or interceptAddress.
Installed(handler) == handler # Absent

\* host.intercept = handler and host.intercept = null
SetIntercept(host, handler) ==
    /\ host \in live
    /\ intercepts' = [intercepts EXCEPT ![host] = handler]
    /\ interceptField' = [interceptField EXCEPT ![host] = Installed(handler)]
    /\ UNCHANGED <<live, dying, checksumField, checksums, koffi, noMemory, history>>

\* enet_host_destroy begins; until it returns it can run callbacks.
BeginDestroy(host) ==
    /\ host \in live \ dying
    /\ dying' = dying \cup {host}
    /\ UNCHANGED <<live, checksumField, interceptField, checksums, intercepts, koffi, noMemory, history>>

\* Mutant of ForgetHost: the slot is not unregistered.
ForgetHostOnlyMaps(host) ==
    /\ checksums' = [checksums EXCEPT ![host] = NoChecksum]
    /\ intercepts' = [intercepts EXCEPT ![host] = Absent]
    /\ UNCHANGED koffi

\* Mutant of ForgetHost: the intercept stays in its Map.
ForgetChecksum(host) ==
    /\ checksums' = [checksums EXCEPT ![host] = NoChecksum]
    /\ koffi' = Unregister(koffi, checksums[host])
    /\ UNCHANGED intercepts

\* forgetHost
ForgetHost(host) ==
    /\ checksums' = [checksums EXCEPT ![host] = NoChecksum]
    /\ intercepts' = [intercepts EXCEPT ![host] = Absent]
    /\ koffi' = Unregister(koffi, checksums[host])

\* enet_host_destroy frees the host and returns, and destroy forgets it.
EndDestroy(host) ==
    /\ host \in dying
    /\ live' = live \ {host}
    /\ dying' = dying \ {host}
    /\ ForgetHost(host)
    /\ failed' = failed \ {host}
    /\ UNCHANGED <<checksumField, interceptField, noMemory, lost, kept>>

-----------------------------------------------------------------------------
(* initializeWithCallbacks.  Without a noMemory, or with no slot left for it,
   nothing changes: ENet keeps the one it has. *)

\* Mutant of Initialize: a result of 0 counts as a failure, and frees the slot.
InitializeUnregistered(handler, slot) ==
    /\ slot \in FreeSlots
    /\ noMemory' = slot
    /\ kept' = [kept EXCEPT ![slot] = handler]
    /\ UNCHANGED <<hostVars, koffi, failed, lost>>

\* ENet accepts the callbacks.  Nothing in JS remembers the slot.
Initialize(handler, slot) ==
    /\ slot \in FreeSlots
    /\ koffi' = [koffi EXCEPT ![slot] = handler]
    /\ noMemory' = slot
    /\ kept' = [kept EXCEPT ![slot] = handler]
    /\ UNCHANGED <<hostVars, failed, lost>>

\* It does not, and the slot is freed again.
FailInitialize(slot) ==
    /\ slot \in FreeSlots
    /\ noMemory' \in {noMemory} \cup (IF StoresBeforeFailing THEN {slot} ELSE {})
    /\ UNCHANGED <<hostVars, koffi, history>>

Next ==
    \/ \E handler \in Handler, slot \in Slot : Initialize(handler, slot)
    \/ \E slot \in Slot : FailInitialize(slot)
    \/ \E host \in Host :
           \/ Create(host)
           \/ \E value \in {Null, Crc32} : ClearChecksum(host, value)
           \/ \E handler \in Handler, slot \in Slot : SetChecksum(host, handler, slot)
           \/ FailChecksum(host)
           \/ \E handler \in Handler \cup {Absent} : SetIntercept(host, handler)
           \/ BeginDestroy(host)
           \/ EndDestroy(host)

Spec == Init /\ [][Next]_vars

-----------------------------------------------------------------------------
(* What the program reads, and what ENet runs.                             *)

OrNull(handler) == IF handler = Absent THEN Null ELSE handler

\* The checksum getter.
GetChecksum(host) ==
    IF checksumField[host] = Crc32 THEN Crc32 ELSE OrNull(checksums[host].handler)

\* The intercept getter.
GetIntercept(host) == OrNull(intercepts[host])

\* What ENet runs on a datagram of the host: the function in the slot that the
\* field points to, and for an intercept what interceptAddress looks up.
RunsChecksum(host) ==
    IF checksumField[host] \in Slot THEN koffi[checksumField[host]]
                                    ELSE checksumField[host]

RunsIntercept(host) == IF interceptField[host] THEN intercepts[host] ELSE Null

OfLive(Value(_)) == [host \in Host |-> IF host \in live THEN Value(host) ELSE Null]

Getters == INSTANCE HostFields
               WITH checksum <- OfLive(GetChecksum), intercept <- OfLive(GetIntercept)

Native == INSTANCE HostFields
               WITH checksum <- OfLive(RunsChecksum), intercept <- OfLive(RunsIntercept)

\* host-handle.ts 143-191: to the program, checksum and intercept are fields,
\* and a host at a reused pointer starts with neither.
GettersAreFields == Getters!Spec

\* host-handle.ts 143-191: so they are to ENet: it never runs a function of
\* another host or of a freed slot, whatever assignments failed.
NativeAreFields == Native!Spec

\* structs.ts 93, host-handle.ts 143-149, 173-175: the getters return what ENet
\* runs; for a checksum, unless the last assignment threw.
GettersTellWhatRuns ==
    \A host \in live :
        /\ host \notin failed => GetChecksum(host) = RunsChecksum(host)
        /\ GetIntercept(host) = RunsIntercept(host)

\* The slot holds the checksum of exactly one host.
Owned(slot) ==
    \E host \in live :
        /\ checksums[host] = [address |-> slot, handler |-> koffi[slot]]
        /\ \A other \in live \ {host} : checksums[other].address # slot

\* The slot is that of a noMemory that ENet accepted, for good.
Kept(slot) == kept[slot] # Absent

\* host-handle.ts 150-163, 291-298, global.ts 48-50: nothing but an assignment
\* that throws ever loses a slot, in whatever order hosts get, swap and leave
\* theirs; and a noMemory takes one only if ENet accepts it.
OnlyFailuresLeak ==
    \A slot \in Slot \ lost : koffi[slot] # Absent => Owned(slot) \/ Kept(slot)

\* global.ts 23-25: "Once ENet accepts the callbacks, it keeps noMemory for the
\* rest of the process": its slot is never freed or given to another function,
\* whatever hosts do with theirs, and ENet calls no slot but such a one.
NoMemoryKept ==
    /\ noMemory # Null => Kept(noMemory)
    /\ \A slot \in Slot : Kept(slot) => koffi[slot] = kept[slot]

\* callback-lifetimes.test.ts 100: checksums "hold one callback slot per host
\* until replaced, cleared or destroyed".
NoSlotLeaked ==
    \A slot \in Slot : koffi[slot] # Absent => Owned(slot) \/ Kept(slot)
=============================================================================
