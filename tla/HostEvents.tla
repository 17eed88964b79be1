----------------------------- MODULE HostEvents -----------------------------
(***************************************************************************)
(* host.ts: creating and destroying hosts, and service and checkEvents,    *)
(* which turn the event ENet hands over into a return value and must not   *)
(* lose it when a callback has thrown: pendingEvents keeps it for the next *)
(* call.  enet.peer.receive (peer.ts) takes packets past it.  Range coders *)
(* (range-coder.ts) are created like hosts.                                *)
(*                                                                         *)
(* A host is its pointer, so that a pointer malloc gives out again is the  *)
(* same member of Host.  ENet is the environment: during a call it runs    *)
(* callbacks and takes at most one event, in any order.  Events that it    *)
(* still queues are not modelled; those are C's, and go with the host.     *)
(***************************************************************************)
EXTENDS Callbacks, SequencesExt

CONSTANTS
    Host,       \* host pointers
    Coder,      \* pointers of range coders
    NoHost,
    Event,      \* bound: the events ENet reports, each once
    Receive,    \* those that carry a packet
    NoEvent,    \* an event of type none
    Absent,     \* no entry in pendingEvents
    Reentrant   \* whether a callback polls the host that a call around it polls
                \* or destroys

Object == Host \cup Coder

ASSUME HostEventsAssumption ==
    /\ NoHost \notin Object /\ Host \cap Coder = {}
    /\ Receive \subseteq Event
    /\ NoEvent \notin Event /\ Absent \notin Event /\ NoEvent # Absent
    /\ Reentrant \in BOOLEAN

VARIABLES
    live,           \* the hosts and range coders that exist in C
    handles,        \* those the program can use
    pendingEvents,  \* the Map of host.ts
    frame,          \* for each call in progress: what it does, to which host,
                    \* and the event it has taken or whose packet it destroys
    used,           \* history: the events ENet has handed over
    returned,       \* history: the events the program was given
    discarded,      \* history: the events destroyed with their host
    nested,         \* history: the events of polls in a poll, or in the destroy, of
                    \* the same host
    taken,          \* history: per host that exists, the events its polls took, in order
    log,            \* history: per host that exists, those they returned, in order
    overtaken       \* history: for each packet that enet.peer.receive returned, the
                    \* events taken from ENet before it and not yet returned

history == <<used, returned, discarded, nested, taken, log, overtaken>>
heVars == <<live, handles, pendingEvents, frame, history>>
vars == <<cbVars, heVars>>

Frame == [op : {"idle", "call", "dispatch", "create", "createCoder", "refused",
                "destroyPacket", "destroyHost"},
          host : Object \cup {NoHost},
          event : Event \cup {NoEvent}]

Idle == [op |-> "idle", host |-> NoHost, event |-> NoEvent]

TypeOK ==
    /\ CallbacksTypeOK
    /\ live \subseteq Object
    /\ handles \subseteq live
    /\ pendingEvents \in [Host -> Event \cup {Absent}]
    /\ frame \in [Level -> Frame]
    /\ \A level \in Level : frame[level].op = "idle" <=> level > calls
    /\ used \subseteq Event
    /\ returned \subseteq used
    /\ discarded \subseteq used
    /\ nested \subseteq used
    /\ taken \in [Host -> Seq(Event)]
    /\ log \in [Host -> Seq(Event)]
    /\ overtaken \in [Receive -> SUBSET Event]

Init ==
    /\ CallbacksInit
    /\ live = {}
    /\ handles = {}
    /\ pendingEvents = [host \in Host |-> Absent]
    /\ frame = [level \in Level |-> Idle]
    /\ used = {}
    /\ returned = {}
    /\ discarded = {}
    /\ nested = {}
    /\ taken = [host \in Host |-> <<>>]
    /\ log = [host \in Host |-> <<>>]
    /\ overtaken = [packet \in Receive |-> {}]

-----------------------------------------------------------------------------
Top == frame[calls]

\* ENet runs the call on top of the stack.
EnetRuns(op) == running = "enet" /\ Top.op = op

\* The calls in progress that work on the host, and those of them that poll it.
WorksOn(host) == {level \in 1..calls : frame[level].host = host}

Polls(host) == {level \in WorksOn(host) : frame[level].op = "dispatch"}

\* destroy has begun, and ENet still has the host.
Dying(host) ==
    \E level \in WorksOn(host) : frame[level].op \in {"destroyPacket", "destroyHost"}

\* A native call begins; its level gets a frame.
Push(op, host, event) ==
    /\ BeginCall
    /\ frame' = [frame EXCEPT ![calls + 1] = [op |-> op, host |-> host, event |-> event]]

\* A native call ends and its errors are rethrown.
Pop ==
    /\ EndCall
    /\ frame' = [frame EXCEPT ![calls] = Idle]

\* The program gets an event.
Return(host, event) ==
    IF event = NoEvent
    THEN UNCHANGED <<returned, log>>
    ELSE /\ returned' = returned \cup {event}
         /\ log' = [log EXCEPT ![host] = Append(@, event)]

-----------------------------------------------------------------------------
(* Other wrapped calls, of host.ts and of the other files: send, flush,    *)
(* connect, broadcast, reset, ...  What they share is the stack.           *)
OtherCall == Push("call", NoHost, NoEvent) /\ UNCHANGED <<live, handles, pendingEvents, history>>

EndOtherCall == EnetRuns("call") /\ Pop /\ UNCHANGED <<live, handles, pendingEvents, history>>

\* ENet allocates memory for the call.
Creating == Top.op \in {"create", "createCoder"}

(* ENet runs a callback, anywhere in a call.  While it creates an object   *)
(* that is noMemory, after which the call gives up.                        *)
Callback ==
    /\ BeginCallback
    /\ Creating => Top.host = NoHost
    /\ frame' = IF Creating THEN [frame EXCEPT ![calls].op = "refused"] ELSE frame
    /\ UNCHANGED <<live, handles, pendingEvents, history>>

HandlerReturns == EndCallback /\ UNCHANGED heVars

HandlerFails ==
    /\ \/ \E error \in Error : FailCallback(error)
       \/ PropagateError
    /\ UNCHANGED heVars

Catch == CatchError /\ UNCHANGED heVars

-----------------------------------------------------------------------------
(* create *)
BeginCreate == Push("create", NoHost, NoEvent) /\ UNCHANGED <<live, handles, pendingEvents, history>>

BeginCreateCoder ==
    /\ Push("createCoder", NoHost, NoEvent)
    /\ UNCHANGED <<live, handles, pendingEvents, history>>

\* enet_host_create, enet_range_coder_create: malloc gives out any pointer that
\* is not in use.
Allocate(object) ==
    /\ EnetRuns(IF object \in Host THEN "create" ELSE "createCoder") /\ Top.host = NoHost
    /\ object \notin live
    /\ live' = live \cup {object}
    /\ frame' = [frame EXCEPT ![calls].host = object]
    /\ UNCHANGED <<cbVars, handles, pendingEvents, history>>

\* create returns a handle, or null if ENet failed (the address may be in use),
\* or throws: then there is no handle.
EndCreate ==
    /\ EnetRuns("create") \/ EnetRuns("createCoder") \/ EnetRuns("refused")
    /\ Pop
    /\ handles' = IF Top.host # NoHost /\ FirstError = NoError
                  THEN handles \cup {Top.host} ELSE handles
    /\ UNCHANGED <<live, pendingEvents, history>>

\* destroy of range-coder.ts: a native call that runs no callback.
DestroyCoder(coder) ==
    /\ JsRuns
    /\ coder \in handles
    /\ live' = live \ {coder}
    /\ handles' = handles \ {coder}
    /\ UNCHANGED <<cbVars, pendingEvents, frame, history>>

-----------------------------------------------------------------------------
(* service and checkEvents *)

MayPoll(host) == (host \in handles \/ Dying(host)) /\ (Reentrant \/ WorksOn(host) = {})

\* Mutant of takePendingEvent: the event is read but not removed.
takePendingEventPeek(host) == UNCHANGED pendingEvents

\* The event is pendingEvents[host].
takePendingEvent(host) == pendingEvents' = [pendingEvents EXCEPT ![host] = Absent]

\* dispatchEvent, when the last call kept an event: ENet is not called.
DispatchPending(host) ==
    /\ JsRuns /\ MayPoll(host)
    /\ pendingEvents[host] # Absent
    /\ takePendingEvent(host)
    /\ Return(host, pendingEvents[host])
    /\ UNCHANGED <<cbVars, live, handles, frame, used, discarded, nested, taken, overtaken>>

\* Mutant of BeginDispatch: ENet is called although an event is kept.
BeginDispatchAnyway(host) ==
    /\ MayPoll(host)
    /\ Push("dispatch", host, NoEvent)
    /\ UNCHANGED <<live, handles, pendingEvents, history>>

\* dispatchEvent, when nothing is kept.
BeginDispatch(host) ==
    /\ MayPoll(host)
    /\ pendingEvents[host] = Absent
    /\ Push("dispatch", host, NoEvent)
    /\ UNCHANGED <<live, handles, pendingEvents, history>>

\* ENet fills in the event.  Callbacks can still follow: ENet resets the peer
\* of a disconnect event after filling it in, which frees packets.
TakeEvent(event) ==
    /\ EnetRuns("dispatch") /\ Top.event = NoEvent
    /\ event \notin used
    /\ used' = used \cup {event}
    /\ taken' = [taken EXCEPT ![Top.host] = Append(@, event)]
    /\ frame' = [frame EXCEPT ![calls].event = event]
    /\ nested' = IF WorksOn(Top.host) = {calls} THEN nested ELSE nested \cup {event}
    /\ UNCHANGED <<cbVars, live, handles, pendingEvents, returned, discarded, log, overtaken>>

\* Mutant of KeepEvent: events of type none are kept too.
KeepAnyEvent(host, event) ==
    pendingEvents' = IF FirstError # NoError
                     THEN [pendingEvents EXCEPT ![host] = event]
                     ELSE pendingEvents

\* Mutant of KeepEvent: the event is lost with the exception.
KeepNoEvent(host, event) == UNCHANGED pendingEvents

\* throwKeepingEvent: the event of a call that throws is kept.
KeepEvent(host, event) ==
    pendingEvents' = IF FirstError # NoError /\ event # NoEvent
                     THEN [pendingEvents EXCEPT ![host] = event]
                     ELSE pendingEvents

EndDispatch ==
    /\ EnetRuns("dispatch")
    /\ Pop
    /\ KeepEvent(Top.host, Top.event)
    /\ IF FirstError = NoError THEN Return(Top.host, Top.event)
                               ELSE UNCHANGED <<returned, log>>
    /\ UNCHANGED <<live, handles, used, discarded, nested, taken, overtaken>>

\* enet.peer.receive, for a peer of the host: ENet gives out a packet that no
\* poll has reported, whether or not an event is kept; it runs no callback.
ReceiveFromPeer(host, packet) ==
    /\ JsRuns
    /\ host \in handles \/ Dying(host)
    /\ packet \notin used
    /\ used' = used \cup {packet}
    /\ returned' = returned \cup {packet}
    /\ overtaken' = [overtaken EXCEPT ![packet] = Range(taken[host]) \ Range(log[host])]
    /\ UNCHANGED <<cbVars, live, handles, pendingEvents, frame, discarded, nested, taken, log>>

-----------------------------------------------------------------------------
(* destroy.  A program does not destroy a host that a call in progress     *)
(* works on; but a callback in destroy can still poll the host, after its  *)
(* event was taken out of pendingEvents, and a poll that throws can put    *)
(* another one there.                                                      *)
BeginDestroy(host) ==
    LET pending == pendingEvents[host]
    IN  /\ host \in handles
        /\ WorksOn(host) = {}
        /\ handles' = handles \ {host}
        /\ takePendingEvent(host)
        /\ IF pending \in Receive
           THEN Push("destroyPacket", host, pending) /\ UNCHANGED discarded
           ELSE /\ Push("destroyHost", host, NoEvent)
                /\ discarded' = discarded \cup ({pending} \ {Absent})
        /\ UNCHANGED <<live, used, returned, nested, taken, log, overtaken>>

\* Mutant of EndDestroyPacket: enet_packet_destroy in an afterCallbacks of its
\* own, so that an error of the free callback ends destroy.
EndDestroyPacketThrows ==
    /\ EnetRuns("destroyPacket")
    /\ discarded' = discarded \cup {Top.event}
    /\ IF FirstError = NoError
       THEN /\ frame' = [frame EXCEPT ![calls].op = "destroyHost",
                                      ![calls].event = NoEvent]
            /\ UNCHANGED cbVars
       ELSE Pop
    /\ UNCHANGED <<live, handles, pendingEvents, used, returned, nested, taken, log, overtaken>>

\* enet_packet_destroy returns and enet_host_destroy is called, whatever the
\* packet's free callback did.
EndDestroyPacket ==
    /\ EnetRuns("destroyPacket")
    /\ discarded' = discarded \cup {Top.event}
    /\ frame' = [frame EXCEPT ![calls].op = "destroyHost", ![calls].event = NoEvent]
    /\ UNCHANGED <<cbVars, live, handles, pendingEvents, used, returned, nested, taken, log, overtaken>>

EndDestroyHost ==
    /\ EnetRuns("destroyHost")
    /\ Pop
    /\ live' = live \ {Top.host}
    /\ taken' = [taken EXCEPT ![Top.host] = <<>>]
    /\ log' = [log EXCEPT ![Top.host] = <<>>]
    /\ UNCHANGED <<handles, pendingEvents, used, returned, discarded, nested, overtaken>>

-----------------------------------------------------------------------------
Poll(host) == DispatchPending(host) \/ BeginDispatch(host)

Next ==
    \/ OtherCall \/ EndOtherCall
    \/ Callback \/ HandlerReturns \/ HandlerFails \/ Catch
    \/ BeginCreate \/ BeginCreateCoder \/ EndCreate
    \/ EndDispatch
    \/ EndDestroyPacket \/ EndDestroyHost
    \/ \E event \in Event : TakeEvent(event)
    \/ \E object \in Object : Allocate(object)
    \/ \E host \in Host :
          \/ Poll(host)
          \/ \E packet \in Receive : ReceiveFromPeer(host, packet)
          \/ BeginDestroy(host)
    \/ \E coder \in Coder : DestroyCoder(coder)

Spec == Init /\ [][Next]_vars

Ending == \/ EndOtherCall \/ EndCreate \/ EndDispatch
          \/ EndDestroyPacket \/ EndDestroyHost

\* Every handler and every native call ends, however many calls and callbacks
\* it makes before, exceptions are handled, and a program polls the hosts it
\* has, as ENet requires of it.
Fairness ==
    /\ WF_vars(Catch \/ HandlerFails)
    /\ \A level \in Level :
          /\ SF_vars(calls = level /\ (HandlerReturns \/ HandlerFails))
          /\ SF_vars(calls = level /\ Ending)
    /\ \A host \in Host : SF_vars(calls = 0 /\ Poll(host))

FairSpec == Spec /\ Fairness

-----------------------------------------------------------------------------
\* Where an event is: with the program, destroyed with its host, held by a call
\* in progress or kept for the next call on its host, which still exists; not on
\* another one at the same pointer.
Places(event) ==
    {<<"program">> : e \in returned \cap {event}}
    \cup {<<"destroyed">> : e \in discarded \cap {event}}
    \cup {<<"held", level>> : level \in {l \in Level : frame[l].event = event}}
    \cup {<<"kept", host>> : host \in {h \in Host \cap live : /\ pendingEvents[h] = event
                                                         /\ event \in Range(taken[h])}}

\* host.ts 33, 80-90, 141-155, peer.ts 100-113: every event ENet handed over is
\* in exactly one place, so that none is lost, left behind by its host, returned
\* twice or returned after its packet was destroyed.  Only an event that a handler
\* polled for in a poll or in the destroy of the same host can be in none: there is
\* one entry for it and the event of the poll around it, and destroy has emptied
\* that entry before.
EventsConserved ==
    \A event \in used :
        \/ \E place \in Places(event) : Places(event) = {place}
        \/ event \in nested /\ Places(event) = {}

\* A sequence of the event, if it is one.
One(event) == IF event \in Event THEN <<event>> ELSE <<>>

HeldBy(host) ==
    LET holding == {level \in Polls(host) : frame[level].event # NoEvent}
    IN  IF holding = {} THEN <<>> ELSE <<frame[Min(holding)].event>>

\* The hosts that are polled from the main program or from calls on others.
PolledApart == {host \in handles \cap Host : Range(taken[host]) \cap nested = {}}

\* host.ts 93-113, 141-143, 178-181: the events a host's polls return come in the
\* order in which ENet handed them over.  A new host starts with none, its pointer
\* reused or not, but for at most one, returned first, that a callback polled for
\* while an earlier host at that pointer was destroyed.
ReturnedInOrder ==
    \A host \in PolledApart : \E left \in {<<>>} \cup {<<event>> : event \in nested} :
        left \o taken[host] = log[host] \o One(pendingEvents[host]) \o HeldBy(host)

\* peer.ts 100-113, host.ts 93-101: a packet that enet.peer.receive returns can be
\* ahead of events that ENet handed over before it, which wait in pendingEvents or
\* in a call, but only ever of one, but for those of polls in a poll
\* or in the destroy of the same host.
OvertakesAtMostOne ==
    \A packet \in Receive : Cardinality(overtaken[packet] \ nested) <= 1

\* host.ts 115-133, 141-155, range-coder.ts 14-24: the program has a handle for
\* every host and every range coder that is not being created or destroyed, so
\* that it can destroy it.
NoHostLeaked ==
    \A object \in live \ handles : \E level \in 1..calls : frame[level].host = object

\* host.ts 178-181, 194-198: a program that keeps polling gets every event that
\* ENet handed over, however often callbacks throw, unless it destroys the host.
TakenEventsSurface ==
    \A event \in Event : event \in used ~> event \in returned \cup discarded
=============================================================================
