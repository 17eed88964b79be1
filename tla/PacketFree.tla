----------------------------- MODULE PacketFree -----------------------------
(***************************************************************************)
(* packet.ts: the free callback of a packet.  One Koffi slot serves every  *)
(* packet; the Map freeCallbacks finds the handler by packet pointer.      *)
(* ENet frees packets inside any native call, runs the callback first and  *)
(* then gives the memory back, so that malloc can hand out the pointer     *)
(* again.  A handler is JS code: it can make native calls that free other  *)
(* packets, create packets and assign free callbacks.                      *)
(*                                                                         *)
(* Who may free a packet (its owner, its reference count) is C's business: *)
(* here any call can free any packet that is not being freed.              *)
(***************************************************************************)
EXTENDS Callbacks

CONSTANTS
    Packet,     \* packet pointers
    NoPacket,
    Handler,    \* JS functions
    Absent,     \* no entry in freeCallbacks; a null callback
    SetInHandler    \* whether a free callback assigns the free callback of the
                    \* packet that is being freed

ASSUME PacketFreeAssumption ==
    /\ NoPacket \notin Packet
    /\ Absent \notin Handler
    /\ SetInHandler \in BOOLEAN

VARIABLES
    allocated,      \* the packets that exist in C
    known,          \* those the program has a handle of
    field,          \* packet->freeCallback: whether it is freeCallbackAddress
    freeCallbacks,  \* the Map of packet.ts
    freeing,        \* the packet that the call of each level is freeing
    handler,        \* the function that its free callback runs
    assigned        \* history: what the program last assigned to each packet

pfVars == <<allocated, known, field, freeCallbacks, freeing, handler, assigned>>
vars == <<cbVars, pfVars>>

TypeOK ==
    /\ CallbacksTypeOK
    /\ allocated \subseteq Packet
    /\ known \subseteq allocated
    /\ field \in [Packet -> BOOLEAN]
    /\ freeCallbacks \in [Packet -> Handler \cup {Absent}]
    /\ freeing \in [Level -> allocated \cup {NoPacket}]
    /\ handler \in [Level -> Handler \cup {Absent}]
    /\ assigned \in [Packet -> Handler \cup {Absent}]
    /\ \A level \in Level : level > calls => freeing[level] = NoPacket

Init ==
    /\ CallbacksInit
    /\ allocated = {}
    /\ known = {}
    /\ field = [packet \in Packet |-> FALSE]
    /\ freeCallbacks = [packet \in Packet |-> Absent]
    /\ freeing = [level \in Level |-> NoPacket]
    /\ handler = [level \in Level |-> Absent]
    /\ assigned = [packet \in Packet |-> Absent]

-----------------------------------------------------------------------------
BeingFreed(packet) == \E level \in 1..calls : freeing[level] = packet

\* ENet is between two things that it does in the call on top of the stack.
EnetRuns == running = "enet" /\ freeing[calls] = NoPacket

\* The program makes a wrapped call: create, destroy, resize, send, service, ...
Call == BeginCall /\ UNCHANGED pfVars

\* ENet allocates a packet: for create, or for one it receives.
Allocate(packet) ==
    /\ EnetRuns
    /\ packet \notin allocated
    /\ allocated' = allocated \cup {packet}
    /\ field' = [field EXCEPT ![packet] = FALSE]
    /\ assigned' = [assigned EXCEPT ![packet] = Absent]
    /\ UNCHANGED <<cbVars, known, freeCallbacks, freeing, handler>>

\* The call returns, to create, receive or dispatchEvent with a packet that
\* wrapPacket makes a handle of.
EndCallWith(packets) ==
    /\ EnetRuns
    /\ EndCall
    /\ known' = IF FirstError = NoError THEN known \cup packets ELSE known
    /\ UNCHANGED <<allocated, field, freeCallbacks, freeing, handler, assigned>>

\* Mutant of Installed: the branches are swapped.
InstalledSwapped(value) == value = Absent

\* What the setter writes to the field: null, or freeCallbackAddress.
Installed(value) == value # Absent

\* packet.freeCallback = handler and packet.freeCallback = null
SetFreeCallback(packet, value) ==
    /\ JsRuns
    /\ packet \in known
    /\ SetInHandler \/ ~BeingFreed(packet)
    /\ freeCallbacks' = [freeCallbacks EXCEPT ![packet] = value]
    /\ field' = [field EXCEPT ![packet] = Installed(value)]
    /\ assigned' = [assigned EXCEPT ![packet] = value]
    /\ UNCHANGED <<cbVars, allocated, known, freeing, handler>>

\* ENet frees a packet that has no callback.
FreeSilently(packet) ==
    /\ EnetRuns
    /\ packet \in allocated /\ ~BeingFreed(packet)
    /\ ~field[packet]
    /\ allocated' = allocated \ {packet}
    /\ known' = known \ {packet}
    /\ UNCHANGED <<cbVars, field, freeCallbacks, freeing, handler, assigned>>

\* Mutant of Forget: the entry stays.
ForgetNothing(packet) == UNCHANGED freeCallbacks

\* freeCallbacks.delete(pointer), before the handler runs.
Forget(packet) == freeCallbacks' = [freeCallbacks EXCEPT ![packet] = Absent]

\* ENet runs freeCallbackAddress, which finds the handler, forgets it, runs it.
\* If there were no entry, nonNull would throw in its stead.
BeginFree(packet) ==
    /\ EnetRuns
    /\ packet \in allocated /\ ~BeingFreed(packet)
    /\ field[packet]
    /\ BeginCallback
    /\ Forget(packet)
    /\ freeing' = [freeing EXCEPT ![calls] = packet]
    /\ handler' = [handler EXCEPT ![calls] = freeCallbacks[packet]]
    /\ UNCHANGED <<allocated, known, field, assigned>>

\* The callback is over, and ENet gives the packet's memory back.
EndFree ==
    /\ running = "enet"
    /\ freeing[calls] # NoPacket
    /\ allocated' = allocated \ {freeing[calls]}
    /\ known' = known \ {freeing[calls]}
    /\ freeing' = [freeing EXCEPT ![calls] = NoPacket]
    /\ handler' = [handler EXCEPT ![calls] = Absent]
    /\ UNCHANGED <<cbVars, field, freeCallbacks, assigned>>

\* ENet runs another callback: a checksum, an intercept, a compressor.
OtherCallback == EnetRuns /\ BeginCallback /\ UNCHANGED pfVars

\* nonNull throws when there was no entry.
NonNull == freeing[calls] # NoPacket => handler[calls] # Absent

HandlerReturns ==
    /\ EndCallback
    /\ NonNull
    /\ UNCHANGED pfVars

HandlerFails ==
    /\ \/ \E error \in Error : FailCallback(error)
       \/ PropagateError
    /\ UNCHANGED pfVars

Catch == CatchError /\ UNCHANGED pfVars

Next ==
    \/ Call
    \/ EndFree
    \/ OtherCallback \/ HandlerReturns \/ HandlerFails \/ Catch
    \/ EndCallWith({})
    \/ \E packet \in Packet :
          \/ Allocate(packet)
          \/ EndCallWith({packet} \cap allocated)
          \/ \E value \in Handler \cup {Absent} : SetFreeCallback(packet, value)
          \/ FreeSilently(packet)
          \/ BeginFree(packet)

Spec == Init /\ [][Next]_vars

-----------------------------------------------------------------------------
\* packet.ts 60-78: between two steps of ENet the getter tells what the program
\* assigned and ENet will run, also for a new packet at a reused pointer.
GetterTellsWhatRuns ==
    \A packet \in known :
        ~BeingFreed(packet) =>
            /\ freeCallbacks[packet] = assigned[packet]
            /\ field[packet] = (assigned[packet] # Absent)

\* packet.ts 31-45: an entry of freeCallbacks belongs to a packet that exists
\* and whose callback has not begun, even when handlers throw or free others.
NoStaleEntry ==
    \A packet \in Packet :
        freeCallbacks[packet] # Absent => packet \in allocated /\ ~BeingFreed(packet)

\* A call that is freeing the packet ran what was assigned to it last.
RanItsCallback(packet) ==
    \/ assigned[packet] = Absent
    \/ \E level \in 1..calls :
          freeing[level] = packet /\ handler[level] = assigned[packet]

FreesOnlyAfterCallback == \A packet \in allocated \ allocated' : RanItsCallback(packet)

\* structs.ts 39-43: a packet's memory is given back only after the callback
\* that was assigned to it last, and no other, has run.
FreedAfterItsCallback == [][FreesOnlyAfterCallback]_vars
=============================================================================
