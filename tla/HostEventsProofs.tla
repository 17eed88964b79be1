-------------------------- MODULE HostEventsProofs --------------------------
(***************************************************************************)
(* Theorems about HostEvents, for any number of hosts, range coders,       *)
(* events, errors and nested calls.                                        *)
(***************************************************************************)
EXTENDS HostEvents, FiniteSetTheorems, SequenceTheorems, WellFoundedInduction, TLAPS

(* What the calls in progress work on.  No callback has run in a call that *)
(* creates an object, or it would have given up.                           *)
FramesOK ==
    \A level \in Level :
        /\ level > calls => frame[level] = Idle
        /\ frame[level].op \in {"idle", "call", "refused"} => frame[level].host = NoHost
        /\ frame[level].op \in {"create", "createCoder"} =>
               /\ level = calls
               /\ running = "enet"
               /\ NestAfterError \/ callbackErrors = <<>>
        /\ frame[level].op \in {"dispatch", "destroyPacket", "destroyHost"}
           => frame[level].host \in Host
        /\ frame[level].op = "destroyPacket" => frame[level].event \in Event
        /\ frame[level].op \notin {"dispatch", "destroyPacket"} => frame[level].event = NoEvent

\* The call destroys the host.
Destroys(level, host) ==
    frame[level].op \in {"destroyPacket", "destroyHost"} /\ frame[level].host = host

\* Only a host that the program can use is polled, or one that a call below the
\* poll destroys.
PollsOK ==
    \A level \in Level :
        LET host == frame[level].host
        IN  frame[level].op = "dispatch"
            => host \in handles \/ \E i \in Level : i < level /\ Destroys(i, host)

\* The call creates or destroys the object of its frame.
Owns(level) ==
    /\ frame[level].op \in {"create", "createCoder", "destroyPacket", "destroyHost"}
    /\ frame[level].host # NoHost

\* Such an object exists, has no handle, and no other call creates or destroys it.
OwnedOnce ==
    /\ \A level \in Level : Owns(level) => frame[level].host \in live \ handles
    /\ \A i, j \in Level : Owns(i) /\ Owns(j) /\ i # j => frame[i].host # frame[j].host

\* Only events that ENet handed over are anywhere.
OnlyUsed ==
    /\ \A level \in Level : frame[level].event \in used \cup {NoEvent}
    /\ \A host \in Host : pendingEvents[host] \in used \cup {Absent}

\* No event is in two places.
OnePlace ==
    /\ returned \cap discarded = {}
    /\ \A level \in Level : frame[level].event \notin returned \cup discarded
    /\ \A host \in Host : pendingEvents[host] \notin returned \cup discarded
    /\ \A i, j \in Level : i # j /\ frame[i].event = frame[j].event => frame[i].event = NoEvent
    /\ \A g, h \in Host : g # h /\ pendingEvents[g] = pendingEvents[h] => pendingEvents[g] = Absent
    /\ \A level \in Level, host \in Host : frame[level].event # pendingEvents[host]

InSomePlace(event) ==
    \/ event \in returned \cup discarded
    \/ \E level \in Level : frame[level].event = event
    \/ \E host \in Host : pendingEvents[host] = event

\* An event that is in none was polled for in a poll or in the destroy of its host.
SomePlace == \A event \in used \ nested : InSomePlace(event)

\* So was an event that a poll in progress can overwrite, or write over, and one
\* that a poll in the host's destroy holds.
NestedInPolls ==
    /\ \A level \in Level :
          LET host == frame[level].host
          IN  frame[level].op = "dispatch" /\ pendingEvents[host] # Absent
              => pendingEvents[host] \in nested
    /\ \A i, j \in Level :
          /\ i < j
          /\ frame[i].op \in {"dispatch", "destroyPacket", "destroyHost"}
          /\ frame[j].op = "dispatch"
          /\ frame[i].host = frame[j].host
          /\ frame[j].event # NoEvent
          => frame[j].event \in nested

\* The inductive invariant.
IInv ==
    /\ TypeOK
    /\ FramesOK
    /\ PollsOK
    /\ OwnedOnce
    /\ OnlyUsed
    /\ OnePlace
    /\ SomePlace
    /\ NestedInPolls

-----------------------------------------------------------------------------
(* The stack of calls.                                                     *)

LEMMA CallTypes ==
    ASSUME CallbacksTypeOK, BeginCall \/ EndCall
    PROVE  CallbacksTypeOK'
  <1> USE CallbacksAssumption DEF CallbacksTypeOK
  <1>1. CASE BeginCall
    BY <1>1 DEF BeginCall, JsRuns
  <1>2. CASE EndCall
    BY <1>2 DEF EndCall, FirstError
  <1> QED BY <1>1, <1>2

LEMMA HandlerTypes ==
    ASSUME CallbacksTypeOK,
           \/ BeginCallback \/ EndCallback \/ PropagateError \/ CatchError
           \/ \E error \in Error : FailCallback(error)
    PROVE  /\ CallbacksTypeOK' /\ calls' = calls
           /\ BeginCallback \/ running = "js" \/ (thrown # NoError /\ CatchError)
  <1> USE CallbacksAssumption DEF CallbacksTypeOK
  <1>1. ASSUME NEW error \in Error, Record(error)
        PROVE  CallbacksTypeOK' /\ calls' = calls /\ running = "js"
    <2>1. Append(callbackErrors, error) \in Seq(Error)
      OBVIOUS
    <2> QED BY <1>1, <2>1 DEF Record, InHandler
  <1>2. CASE BeginCallback \/ CatchError
    BY <1>2 DEF BeginCallback, CatchError
  <1>3. CASE EndCallback
    BY <1>3 DEF EndCallback, InHandler, JsRuns
  <1>4. CASE PropagateError
    BY <1>1, <1>4 DEF PropagateError
  <1>5. ASSUME NEW error \in Error, FailCallback(error)
        PROVE  CallbacksTypeOK' /\ calls' = calls /\ running = "js"
    BY <1>1, <1>5 DEF FailCallback
  <1> QED BY <1>2, <1>3, <1>4, <1>5

\* The level of the new call was idle, and so are those above it.
LEMMA Pushed ==
    ASSUME TypeOK, FramesOK, NEW op, NEW host, NEW event, Push(op, host, event),
           [op |-> op, host |-> host, event |-> event] \in Frame \ {Idle}, op # "idle"
    PROVE  /\ CallbacksTypeOK' /\ calls' = calls + 1 /\ calls' \in Level
           /\ running = "js" /\ running' = "enet"
           /\ callbackErrors' = callbackErrors
           /\ NestAfterError \/ callbackErrors = <<>>
           /\ frame' \in [Level -> Frame]
           /\ frame[calls'] = Idle
           /\ frame'[calls'] = [op |-> op, host |-> host, event |-> event]
           /\ \A level \in Level \ {calls'} : frame'[level] = frame[level]
           /\ \A level \in Level : frame'[level].op = "idle" <=> level > calls'
           /\ \A level \in Level : level > calls' => frame'[level] = Idle
  <1> USE CallbacksAssumption DEF Push
  <1>1. CallbacksTypeOK'
    BY CallTypes DEF TypeOK
  <1>2. /\ calls' = calls + 1 /\ calls' \in Level /\ calls \in Nat
        /\ running = "js" /\ running' = "enet"
        /\ callbackErrors' = callbackErrors
        /\ NestAfterError \/ callbackErrors = <<>>
    BY DEF BeginCall, JsRuns, TypeOK, CallbacksTypeOK, Level
  <1>3. frame[calls'] = Idle
    BY <1>2 DEF FramesOK
  <1> QED BY <1>1, <1>2, <1>3 DEF TypeOK, FramesOK, Level

LEMMA Popped ==
    ASSUME TypeOK, FramesOK, Pop
    PROVE  /\ CallbacksTypeOK' /\ calls' = calls - 1 /\ calls \in Level /\ calls' \in 0..MaxCalls
           /\ running = "enet" /\ running' = "js"
           /\ frame' \in [Level -> Frame]
           /\ frame'[calls] = Idle
           /\ \A level \in Level \ {calls} : frame'[level] = frame[level]
           /\ \A level \in Level : frame'[level].op = "idle" <=> level > calls'
           /\ \A level \in Level : level > calls' => frame'[level] = Idle
  <1> USE CallbacksAssumption, HostEventsAssumption DEF Pop
  <1>1. CallbacksTypeOK'
    BY CallTypes DEF TypeOK
  <1>2. /\ calls' = calls - 1 /\ calls \in Level /\ calls' \in 0..MaxCalls
        /\ running = "enet" /\ running' = "js"
    BY DEF EndCall, TypeOK, CallbacksTypeOK, Level
  <1>3. Idle \in Frame /\ Idle.op = "idle"
    BY DEF Idle, Frame
  <1>4. /\ frame \in [Level -> Frame] /\ frame' = [frame EXCEPT ![calls] = Idle]
        /\ \A level \in Level : frame[level].op = "idle" <=> level > calls
        /\ \A level \in Level : level > calls => frame[level] = Idle
    BY DEF TypeOK, FramesOK
  <1> QED BY <1>1, <1>2, <1>3, <1>4 DEF Level
-----------------------------------------------------------------------------
(* Calls and callbacks that take no event and change no host.              *)

\* A step that begins no poll and ends no call below one.
LEMMA PollsSame ==
    ASSUME PollsOK, handles \subseteq handles',
           \A level \in Level : frame'[level].op = "dispatch" =>
               frame[level].op = "dispatch" /\ frame'[level].host = frame[level].host,
           \A i, level \in Level, host \in Host :
               i < level /\ frame'[level].op = "dispatch" /\ Destroys(i, host)
               => Destroys(i, host)',
           \A level \in Level : frame[level].op = "dispatch" => frame[level].host \in Host
    PROVE  PollsOK'
  BY DEF PollsOK

LEMMA InitInv == Init => IInv
  <1> SUFFICES ASSUME Init PROVE IInv
    OBVIOUS
  <1> USE CallbacksAssumption, HostEventsAssumption DEF Init, CallbacksInit
  <1>1. TypeOK
    BY DEF TypeOK, CallbacksTypeOK, Level, Idle, Frame
  <1>2. FramesOK /\ PollsOK /\ OwnedOnce /\ NestedInPolls
    BY DEF FramesOK, PollsOK, OwnedOnce, NestedInPolls, Owns, Level, Idle
  <1>3. OnlyUsed /\ OnePlace /\ SomePlace
    BY DEF OnlyUsed, OnePlace, SomePlace, Level, Idle
  <1> QED BY <1>1, <1>2, <1>3 DEF IInv

LEMMA HandlerInv ==
    ASSUME IInv, UNCHANGED heVars, CallbacksTypeOK', calls' = calls,
           running = "js" \/ UNCHANGED <<running, callbackErrors>>
    PROVE  IInv'
  <1> USE HostEventsAssumption DEF IInv, heVars, history
  <1>1. TypeOK'
    BY DEF TypeOK
  <1>2. FramesOK' /\ PollsOK'
    BY DEF FramesOK, PollsOK, Destroys
  <1>3. OwnedOnce' /\ NestedInPolls'
    BY DEF OwnedOnce, Owns, NestedInPolls
  <1>4. OnlyUsed' /\ OnePlace' /\ SomePlace'
    BY DEF OnlyUsed, OnePlace, SomePlace, InSomePlace
  <1> QED BY <1>1, <1>2, <1>3, <1>4

LEMMA CallbackInv ==
    ASSUME IInv, Callback
    PROVE  IInv'
  <1> USE HostEventsAssumption DEF IInv, Callback, history
  <1>1. CallbacksTypeOK' /\ calls' = calls /\ running = "enet"
    BY HandlerTypes DEF TypeOK, BeginCallback
  <1>2. calls \in Level
    BY <1>1, CallbacksAssumption DEF TypeOK, CallbacksTypeOK, Level
  <1>3. CASE ~Creating
    <2>1. UNCHANGED heVars
      BY <1>3 DEF heVars
    <2>2. FramesOK'
      BY <1>1, <1>2, <1>3, <2>1 DEF FramesOK, Creating, Top, heVars, history
    <2>3. TypeOK'
      BY <1>1, <2>1 DEF TypeOK, heVars, history
    <2>4. PollsOK' /\ OwnedOnce' /\ NestedInPolls'
      BY <2>1 DEF PollsOK, Destroys, OwnedOnce, Owns, NestedInPolls, heVars, history
    <2>5. OnlyUsed' /\ OnePlace' /\ SomePlace'
      BY <2>1 DEF OnlyUsed, OnePlace, SomePlace, InSomePlace, heVars, history
    <2> QED BY <2>2, <2>3, <2>4, <2>5
  <1>4. CASE Creating
    <2>1. /\ frame'[calls] = [frame[calls] EXCEPT !.op = "refused"]
          /\ \A level \in Level \ {calls} : frame'[level] = frame[level]
          /\ frame[calls].host = NoHost /\ frame[calls].op \in {"create", "createCoder"}
          /\ frame[calls] \in Frame /\ frame'[calls] \in Frame
          /\ frame'[calls].op = "refused"
          /\ frame'[calls].host = NoHost /\ frame'[calls].event = frame[calls].event
          /\ frame' \in [Level -> Frame]
      <3>1. /\ frame \in [Level -> Frame]
            /\ frame' = [frame EXCEPT ![calls].op = "refused"]
            /\ frame[calls].host = NoHost /\ frame[calls].op \in {"create", "createCoder"}
        BY <1>1, <1>4 DEF TypeOK, Creating, Top
      <3> HIDE DEF IInv, Callback
      <3> QED BY <1>2, <3>1 DEF Frame
    <2>2. TypeOK'
      BY <1>1, <2>1 DEF TypeOK
    <2>3. FramesOK'
      BY <1>1, <1>2, <2>1 DEF FramesOK, TypeOK, CallbacksTypeOK, Level
    <2>4. OwnedOnce' /\ NestedInPolls'
      BY <2>1 DEF OwnedOnce, Owns, NestedInPolls
    <2>5. OnlyUsed' /\ OnePlace' /\ SomePlace'
      BY <2>1 DEF OnlyUsed, OnePlace, SomePlace, InSomePlace
    <2>6. PollsOK'
      BY <2>1, PollsSame DEF FramesOK, Destroys
    <2> QED BY <2>2, <2>3, <2>4, <2>5, <2>6
  <1> QED BY <1>3, <1>4

\* OtherCall, BeginCreate, BeginCreateCoder
LEMMA BeginInv ==
    ASSUME IInv, NEW op \in {"call", "create", "createCoder"}, Push(op, NoHost, NoEvent),
           UNCHANGED <<live, handles, pendingEvents, history>>
    PROVE  IInv'
  <1> USE HostEventsAssumption DEF IInv, history
  <1>1. [op |-> op, host |-> NoHost, event |-> NoEvent] \in Frame \ {Idle} /\ op # "idle"
    BY DEF Frame, Idle
  <1> HIDE DEF IInv
  <1>2. /\ CallbacksTypeOK' /\ calls' = calls + 1 /\ calls' \in Level
        /\ running' = "enet" /\ running = "js"
        /\ callbackErrors' = callbackErrors /\ (NestAfterError \/ callbackErrors = <<>>)
        /\ frame' \in [Level -> Frame]
        /\ frame[calls'] = Idle
        /\ frame'[calls'] = [op |-> op, host |-> NoHost, event |-> NoEvent]
        /\ \A level \in Level \ {calls'} : frame'[level] = frame[level]
        /\ \A level \in Level : frame'[level].op = "idle" <=> level > calls'
        /\ \A level \in Level : level > calls' => frame'[level] = Idle
    BY <1>1, Pushed DEF IInv
  <1> USE DEF IInv
  <1>3. TypeOK'
    BY <1>2 DEF TypeOK
  <1>4. FramesOK'
    BY <1>2 DEF FramesOK
  <1>5. OwnedOnce' /\ NestedInPolls'
    BY <1>2 DEF OwnedOnce, Owns, NestedInPolls, Idle
  <1>6. \A level \in Level : frame'[level].event = frame[level].event
    BY <1>2 DEF Idle
  <1>7. OnlyUsed' /\ OnePlace' /\ SomePlace'
    BY <1>6 DEF OnlyUsed, OnePlace, SomePlace, InSomePlace
  <1>8. PollsOK'
    BY <1>2, PollsSame DEF FramesOK, Destroys, Idle
  <1> QED BY <1>3, <1>4, <1>5, <1>7, <1>8

\* A call that has no event ends.
LEMMA EndInv ==
    ASSUME IInv, Pop, frame[calls].event = NoEvent,
           UNCHANGED <<pendingEvents, used, returned, discarded, nested, overtaken>>,
           taken' \in [Host -> Seq(Event)], log' \in [Host -> Seq(Event)],
           \/ live' = live /\ handles' = handles
           \/ EnetRuns("destroyHost") /\ live' = live \ {Top.host} /\ handles' = handles
           \/ /\ EnetRuns("create") \/ EnetRuns("createCoder")
              /\ Top.host # NoHost
              /\ live' = live /\ handles' = handles \cup {Top.host}
    PROVE  IInv'
  <1> USE HostEventsAssumption DEF IInv
  <1>1. /\ CallbacksTypeOK' /\ calls' = calls - 1 /\ calls \in Level /\ calls' \in 0..MaxCalls
        /\ running = "enet" /\ running' = "js"
        /\ frame' \in [Level -> Frame]
        /\ frame'[calls] = Idle
        /\ \A level \in Level \ {calls} : frame'[level] = frame[level]
        /\ \A level \in Level : frame'[level].op = "idle" <=> level > calls'
        /\ \A level \in Level : level > calls' => frame'[level] = Idle
    BY Popped
  <1>2. \/ live' = live /\ handles' = handles
        \/ Owns(calls) /\ live' = live \ {frame[calls].host} /\ handles' = handles
        \/ Owns(calls) /\ live' = live /\ handles' = handles \cup {frame[calls].host}
    BY <1>1 DEF EnetRuns, Top, FramesOK, Owns, Object
  <1>3. handles' \subseteq live' /\ live' \subseteq Object /\ handles \cap handles' = handles
    <2>1. handles \subseteq live /\ live \subseteq Object
      BY DEF TypeOK
    <2>2. Owns(calls) => frame[calls].host \in live \ handles
      BY <1>1 DEF OwnedOnce
    <2> HIDE DEF IInv
    <2> QED BY <1>2, <2>1, <2>2
  <1>4. TypeOK'
    BY <1>1, <1>3 DEF TypeOK
  <1>5. FramesOK'
    BY <1>1, <1>3 DEF FramesOK, Idle
  <1> HIDE DEF IInv
  <1>6. OwnedOnce'
    <2>1. \A level \in Level : Owns(level)' => level # calls /\ Owns(level) /\ frame'[level] = frame[level]
      BY <1>1 DEF Owns, Idle
    <2> QED BY <1>2, <2>1, <1>1 DEF IInv, OwnedOnce
  <1>7. NestedInPolls'
    <2>1. \A level \in Level : frame'[level].op = "dispatch" => level # calls
      BY <1>1 DEF Idle
    <2>2. \A level \in Level : frame'[level].op # "idle" => frame'[level] = frame[level]
      BY <1>1 DEF Idle
    <2>3. pendingEvents' = pendingEvents /\ nested' = nested
      OBVIOUS
    <2> QED BY <2>1, <2>2, <2>3 DEF IInv, NestedInPolls
  <1>8. \A level \in Level : frame'[level].event = frame[level].event
    BY <1>1 DEF Idle
  <1>9. OnlyUsed' /\ OnePlace' /\ SomePlace'
    <2>1. /\ pendingEvents' = pendingEvents /\ used' = used /\ returned' = returned
          /\ discarded' = discarded /\ nested' = nested
      OBVIOUS
    <2>2. OnlyUsed /\ OnePlace /\ SomePlace
      BY DEF IInv
    <2>3. OnlyUsed' /\ OnePlace'
      BY <1>8, <2>1, <2>2 DEF OnlyUsed, OnePlace
    <2>4. ASSUME NEW event \in used \ nested, InSomePlace(event) PROVE InSomePlace(event)'
      BY <1>8, <2>1, <2>4 DEF InSomePlace
    <2> QED BY <2>1, <2>2, <2>3, <2>4 DEF SomePlace
  <1>10. PollsOK'
    <2>1. \A level \in Level : frame'[level].op = "dispatch" => level < calls
      BY <1>1 DEF Level, Idle
    <2> QED BY <1>1, <1>3, <2>1, PollsSame DEF IInv, FramesOK, Destroys, Idle, Level
  <1> QED BY <1>4, <1>5, <1>6, <1>7, <1>9, <1>10 DEF IInv
-----------------------------------------------------------------------------
(* One lemma for each action that changes hosts or takes events.           *)

LEMMA AllocateInv ==
    ASSUME IInv, NEW object \in Object, Allocate(object)
    PROVE  IInv'
  <1> USE HostEventsAssumption DEF IInv, Allocate, cbVars, history
  <1>1. calls \in Level /\ calls \in 1..calls
    BY CallbacksAssumption DEF EnetRuns, TypeOK, CallbacksTypeOK, Level
  <1>2. /\ frame' \in [Level -> Frame]
        /\ frame[calls].op \in {"create", "createCoder"}
        /\ frame'[calls].op = frame[calls].op
        /\ frame'[calls].host = object
        /\ \A level \in Level : frame'[level].event = frame[level].event
        /\ \A level \in Level : frame'[level].op = frame[level].op
        /\ \A level \in Level \ {calls} : frame'[level] = frame[level]
        /\ object # NoHost
    BY <1>1, ZenonT(30) DEF TypeOK, EnetRuns, Top, Frame
  <1>3. PollsOK'
    BY <1>2, PollsSame DEF FramesOK, Destroys
  <1>4. TypeOK'
    BY <1>2 DEF TypeOK, CallbacksTypeOK
  <1>5. FramesOK'
    BY <1>1, <1>2 DEF FramesOK, TypeOK, CallbacksTypeOK
  <1>6. OwnedOnce'
    BY <1>1, <1>2 DEF OwnedOnce, Owns, TypeOK
  <1>7. NestedInPolls'
    BY <1>1, <1>2 DEF NestedInPolls
  <1>8. OnlyUsed' /\ OnePlace' /\ SomePlace'
    BY <1>2 DEF OnlyUsed, OnePlace, SomePlace, InSomePlace
  <1> QED BY <1>3, <1>4, <1>5, <1>6, <1>7, <1>8

LEMMA EndCreateInv ==
    ASSUME IInv, EndCreate
    PROVE  IInv'
  <1> USE HostEventsAssumption DEF EndCreate
  <1>1. calls \in Level
    BY Popped DEF IInv
  <1>2. frame[calls].event = NoEvent
    BY <1>1 DEF EnetRuns, Top, IInv, FramesOK
  <1>3. EnetRuns("refused") => Top.host = NoHost
    BY <1>1 DEF EnetRuns, Top, IInv, FramesOK
  <1> QED BY <1>2, <1>3, EndInv DEF history, IInv, TypeOK

LEMMA DestroyCoderInv ==
    ASSUME IInv, NEW coder \in Coder, DestroyCoder(coder)
    PROVE  IInv'
  <1> USE HostEventsAssumption DEF IInv, DestroyCoder, cbVars, history
  <1>1. TypeOK'
    BY DEF TypeOK, CallbacksTypeOK
  <1>2. FramesOK' /\ PollsOK'
    BY DEF FramesOK, PollsOK, Destroys
  <1>3. OwnedOnce' /\ NestedInPolls'
    BY DEF OwnedOnce, Owns, NestedInPolls
  <1>4. OnlyUsed' /\ OnePlace' /\ SomePlace'
    BY DEF OnlyUsed, OnePlace, SomePlace, InSomePlace
  <1> QED BY <1>1, <1>2, <1>3, <1>4

\* Neither NoEvent nor Absent is an event.
LEMMA Events ==
    ASSUME TypeOK
    PROVE  /\ used \subseteq Event /\ NoEvent \notin used /\ Absent \notin used
           /\ returned \subseteq used /\ discarded \subseteq used
           /\ NoEvent # Absent /\ DOMAIN pendingEvents = Host
           /\ \A host \in Host : pendingEvents[host] # NoEvent
  BY HostEventsAssumption DEF TypeOK

\* An event appended to a host's sequence.
LEMMA Appended ==
    ASSUME NEW f \in [Host -> Seq(Event)], NEW host \in Host, NEW event \in Event
    PROVE  [f EXCEPT ![host] = Append(f[host], event)] \in [Host -> Seq(Event)]
  OBVIOUS

LEMMA DispatchPendingInv ==
    ASSUME IInv, NEW host \in Host, DispatchPending(host)
    PROVE  IInv'
  <1> USE HostEventsAssumption DEF IInv, DispatchPending, takePendingEvent, cbVars
  <1>1. /\ pendingEvents[host] \in used /\ pendingEvents[host] \in Event
        /\ pendingEvents[host] # NoEvent
    BY DEF OnlyUsed, TypeOK
  <1>2. returned' = returned \cup {pendingEvents[host]} /\ log' \in [Host -> Seq(Event)]
    <2>1. /\ returned' = returned \cup {pendingEvents[host]}
          /\ log' = [log EXCEPT ![host] = Append(log[host], pendingEvents[host])]
      BY <1>1 DEF Return
    <2>2. log \in [Host -> Seq(Event)]
      BY DEF TypeOK
    <2> QED BY <1>1, <2>1, <2>2, Appended
  <1>3. TypeOK'
    BY <1>1, <1>2 DEF TypeOK, CallbacksTypeOK
  <1>4. FramesOK' /\ PollsOK' /\ OwnedOnce'
    BY DEF FramesOK, PollsOK, Destroys, OwnedOnce, Owns
  <1>5. OnlyUsed' /\ OnePlace'
    BY <1>1, <1>2 DEF OnlyUsed, OnePlace, TypeOK
  <1>6. SomePlace'
    BY <1>1, <1>2 DEF SomePlace, InSomePlace, TypeOK
  <1>7. NestedInPolls'
    BY DEF NestedInPolls, TypeOK, FramesOK
  <1> QED BY <1>3, <1>4, <1>5, <1>6, <1>7

LEMMA BeginDispatchInv ==
    ASSUME IInv, NEW host \in Host, BeginDispatch(host)
    PROVE  IInv'
  <1> USE HostEventsAssumption DEF BeginDispatch, history
  <1>1. /\ [op |-> "dispatch", host |-> host, event |-> NoEvent] \in Frame \ {Idle}
        /\ "dispatch" # "idle"
    BY DEF Frame, Idle, Object
  <1>2. /\ CallbacksTypeOK' /\ calls' = calls + 1 /\ calls' \in Level
        /\ running' = "enet" /\ running = "js"
        /\ frame' \in [Level -> Frame]
        /\ frame[calls'] = Idle
        /\ frame'[calls'] = [op |-> "dispatch", host |-> host, event |-> NoEvent]
        /\ \A level \in Level \ {calls'} : frame'[level] = frame[level]
        /\ \A level \in Level : frame'[level].op = "idle" <=> level > calls'
        /\ \A level \in Level : level > calls' => frame'[level] = Idle
    BY <1>1, Pushed DEF IInv
  <1> USE DEF IInv
  <1>3. TypeOK'
    BY <1>2 DEF TypeOK
  <1>4. FramesOK'
    BY <1>2 DEF FramesOK
  <1>5. OwnedOnce'
    BY <1>2 DEF OwnedOnce, Owns, Idle
  <1>6. NestedInPolls'
    BY <1>2 DEF NestedInPolls, Idle
  <1>7. \A level \in Level : frame'[level].event = frame[level].event
    BY <1>2 DEF Idle
  <1>8. OnlyUsed' /\ OnePlace' /\ SomePlace'
    BY <1>7 DEF OnlyUsed, OnePlace, SomePlace, InSomePlace
  <1>9. PollsOK'
    <2>1. \A i \in Level, h \in Host : Destroys(i, h)' <=> Destroys(i, h)
      BY <1>2 DEF Destroys, Idle
    <2>2. host \in handles \/ \E i \in Level : i < calls' /\ Destroys(i, host)
      BY <1>2, CallbacksAssumption
      DEF MayPoll, Dying, WorksOn, Destroys, TypeOK, CallbacksTypeOK, Level
    <2> QED BY <1>2, <2>1, <2>2 DEF PollsOK, FramesOK
  <1> QED BY <1>3, <1>4, <1>5, <1>6, <1>8, <1>9

LEMMA TakeEventInv ==
    ASSUME IInv, NEW event \in Event, TakeEvent(event)
    PROVE  IInv'
  <1> USE HostEventsAssumption DEF IInv, TakeEvent, cbVars
  <1>1. calls \in Level /\ calls \in 1..calls
    BY CallbacksAssumption DEF EnetRuns, TypeOK, CallbacksTypeOK, Level
  <1>2. /\ frame' \in [Level -> Frame]
        /\ frame[calls].op = "dispatch" /\ frame[calls].event = NoEvent
        /\ frame'[calls].event = event
        /\ \A level \in Level : frame'[level].host = frame[level].host
        /\ \A level \in Level : frame'[level].op = frame[level].op
        /\ \A level \in Level \ {calls} : frame'[level] = frame[level]
        /\ frame[calls].host \in Host
    <2>1. frame[calls].op = "dispatch" /\ frame[calls].event = NoEvent
      BY DEF EnetRuns, Top
    <2>2. frame \in [Level -> Frame] /\ frame' = [frame EXCEPT ![calls].event = event]
      BY DEF TypeOK
    <2>3. frame[calls].host \in Host
      BY <1>1, <2>1 DEF FramesOK
    <2> HIDE DEF IInv, TakeEvent
    <2> QED BY <1>1, <2>1, <2>2, <2>3 DEF Frame
  <1>3. taken' \in [Host -> Seq(Event)] /\ nested' \subseteq used' /\ nested \subseteq nested'
    BY <1>2, Appended DEF TypeOK, Top
  <1>4. TypeOK'
    BY <1>2, <1>3 DEF TypeOK, CallbacksTypeOK
  <1>5. FramesOK'
    BY <1>1, <1>2 DEF FramesOK, TypeOK, CallbacksTypeOK, Idle
  <1>6. OwnedOnce'
    BY <1>2 DEF OwnedOnce, Owns
  <1>7. event \notin returned \cup discarded /\ \A host \in Host : pendingEvents[host] # event
    BY DEF TypeOK, OnlyUsed
  <1>8. \A level \in Level : frame[level].event # event
    BY DEF OnlyUsed
  <1>9. OnlyUsed' /\ OnePlace'
    BY <1>1, <1>2, <1>7, <1>8 DEF OnlyUsed, OnePlace
  <1>10. SomePlace'
    <2> SUFFICES ASSUME NEW e \in used' \ nested' PROVE InSomePlace(e)'
      BY DEF SomePlace
    <2>1. CASE e = event
      BY <1>1, <1>2, <2>1 DEF InSomePlace
    <2>2. CASE e # event
      <3>1. InSomePlace(e) /\ e \in Event
        BY <1>3, <2>2 DEF SomePlace, TypeOK
      <3> QED BY <1>2, <3>1 DEF InSomePlace
    <2> QED BY <2>1, <2>2
  <1>11. NestedInPolls'
    <2>1. ASSUME NEW i \in Level, i < calls, frame[i].host = frame[calls].host
          PROVE  event \in nested'
      BY <1>1, <1>2, <2>1 DEF WorksOn, Top, Level
    <2>2. \A level \in Level : level > calls => frame[level].op # "dispatch"
      BY DEF FramesOK, Idle
    <2> QED BY <1>1, <1>2, <1>3, <2>1, <2>2, CallbacksAssumption, SMTT(30)
            DEF NestedInPolls, TypeOK, CallbacksTypeOK, Level
  <1>12. PollsOK'
    BY <1>2, PollsSame DEF FramesOK, Destroys
  <1> QED BY <1>4, <1>5, <1>6, <1>9, <1>10, <1>11, <1>12

LEMMA EndDispatchInv ==
    ASSUME IInv, EndDispatch
    PROVE  IInv'
  <1> USE HostEventsAssumption DEF EndDispatch
  <1>1. /\ CallbacksTypeOK' /\ calls' = calls - 1 /\ calls \in Level /\ calls' \in 0..MaxCalls
        /\ frame' \in [Level -> Frame]
        /\ frame'[calls] = Idle
        /\ \A level \in Level \ {calls} : frame'[level] = frame[level]
        /\ \A level \in Level : frame'[level].op = "idle" <=> level > calls'
        /\ \A level \in Level : level > calls' => frame'[level] = Idle
    BY Popped DEF IInv
  <1> DEFINE host == frame[calls].host
             event == frame[calls].event
  <1>2. frame[calls].op = "dispatch" /\ host \in Host
    BY <1>1 DEF IInv, FramesOK, EnetRuns, Top
  <1>3. event \in used \cup {NoEvent}
    BY <1>1 DEF IInv, OnlyUsed
  <1>4. CASE event = NoEvent
    <2>1. pendingEvents' = pendingEvents /\ UNCHANGED <<returned, log>>
      BY <1>4 DEF KeepEvent, Return, Top
    <2> QED BY <1>4, <2>1, EndInv DEF IInv, TypeOK
  <1>5. CASE event # NoEvent
    <2>1. event \in used /\ event \in Event /\ event # Absent
      BY <1>3, <1>5 DEF IInv, TypeOK
    <2>2. /\ \A level \in Level : level # calls => frame[level].event # event
          /\ \A h \in Host : pendingEvents[h] # event
          /\ event \notin returned \cup discarded
      BY <1>1, <1>5 DEF IInv, OnePlace
    <2>3. FramesOK'
      BY <1>1 DEF IInv, FramesOK, Idle
    <2>4. OwnedOnce' /\ PollsOK'
      <3>1. OwnedOnce'
        BY <1>1 DEF IInv, OwnedOnce, Owns, Idle
      <3>2. PollsOK'
        BY <1>1, <1>2, PollsSame DEF IInv, FramesOK, Destroys, Idle
      <3> QED BY <3>1, <3>2
    <2>5. CASE FirstError = NoError
      <3>1. /\ pendingEvents' = pendingEvents
            /\ returned' = returned \cup {event}
            /\ log' = [log EXCEPT ![host] = Append(log[host], event)]
        BY <1>5, <2>5 DEF KeepEvent, Return, Top
      <3>2. log' \in [Host -> Seq(Event)]
        BY <1>2, <2>1, <3>1, Appended DEF IInv, TypeOK
      <3>3. TypeOK'
        BY <1>1, <2>1, <3>1, <3>2 DEF IInv, TypeOK
      <3>4. OnlyUsed'
        BY <1>1, <3>1 DEF IInv, OnlyUsed, Idle
      <3>7. OnePlace'
        BY <1>1, <2>1, <2>2, <3>1, Events DEF IInv, OnlyUsed, OnePlace, Idle
      <3>5. SomePlace'
        BY <1>1, <3>1 DEF IInv, SomePlace, InSomePlace, TypeOK
      <3>6. NestedInPolls'
        BY <1>1, <3>1 DEF IInv, NestedInPolls, Idle
      <3> QED BY <2>3, <2>4, <3>3, <3>4, <3>5, <3>6, <3>7 DEF IInv
    <2>6. CASE FirstError # NoError
      <3>1. /\ pendingEvents' = [pendingEvents EXCEPT ![host] = event]
            /\ UNCHANGED <<returned, log>>
        BY <1>5, <2>6 DEF KeepEvent, Top
      <3>2. TypeOK'
        BY <1>1, <2>1, <3>1 DEF IInv, TypeOK
      <3>3. OnlyUsed'
        BY <1>1, <2>1, <3>1, Events DEF IInv, OnlyUsed, Idle
      <3>7. OnePlace'
        <4>1. \A h \in Host : pendingEvents'[h] = IF h = host THEN event ELSE pendingEvents[h]
          BY <3>1, Events DEF IInv
        <4> QED BY <1>1, <2>1, <2>2, <3>1, <4>1, Events DEF IInv, OnePlace, Idle
      <3>4. pendingEvents[host] # Absent => pendingEvents[host] \in nested
        BY <1>1, <1>2 DEF IInv, NestedInPolls
      <3>5. SomePlace'
        <4> SUFFICES ASSUME NEW e \in used \ nested PROVE InSomePlace(e)'
          BY DEF SomePlace
        <4>1. CASE e = event
          BY <1>2, <3>1, <4>1 DEF IInv, TypeOK, InSomePlace
        <4>2. CASE e # event
          <5>1. InSomePlace(e) /\ e \in Event
            BY DEF IInv, SomePlace, TypeOK
          <5>2. ASSUME NEW h \in Host, pendingEvents[h] = e PROVE pendingEvents'[h] = e
            BY <3>1, <3>4, <5>1, <5>2 DEF IInv, TypeOK
          <5> QED BY <1>1, <3>1, <4>2, <5>1, <5>2 DEF InSomePlace
        <4> QED BY <4>1, <4>2
      <3>6. NestedInPolls'
        <4>1. ASSUME NEW level \in Level, frame'[level].op = "dispatch",
                     pendingEvents'[frame'[level].host] # Absent
              PROVE  pendingEvents'[frame'[level].host] \in nested
          <5>1. level < calls /\ frame'[level] = frame[level]
            BY <1>1, <4>1 DEF Level, Idle
          <5>2. frame[level].host \in Host
            BY <4>1, <5>1 DEF IInv, FramesOK
          <5>3. CASE frame[level].host = host
            BY <1>1, <1>2, <1>5, <3>1, <4>1, <5>1, <5>3 DEF IInv, TypeOK, NestedInPolls
          <5>4. CASE frame[level].host # host
            BY <1>2, <3>1, <4>1, <5>1, <5>2, <5>4 DEF IInv, TypeOK, NestedInPolls
          <5> QED BY <5>3, <5>4
        <4> QED BY <1>1, <4>1 DEF IInv, NestedInPolls, Idle
      <3> QED BY <2>3, <2>4, <3>2, <3>3, <3>5, <3>6, <3>7 DEF IInv
    <2> QED BY <2>5, <2>6
  <1> QED BY <1>4, <1>5

LEMMA ReceiveFromPeerInv ==
    ASSUME IInv, NEW host \in Host, NEW packet \in Receive, ReceiveFromPeer(host, packet)
    PROVE  IInv'
  <1> USE HostEventsAssumption DEF IInv, ReceiveFromPeer, cbVars
  <1>1. packet \in Event /\ packet # NoEvent /\ packet # Absent
    OBVIOUS
  <1>2. Range(taken[host]) \subseteq Event
    BY DEF TypeOK, Range
  <1>3. overtaken' \in [Receive -> SUBSET Event]
    BY <1>2 DEF TypeOK
  <1>4. TypeOK'
    BY <1>1, <1>3 DEF TypeOK, CallbacksTypeOK
  <1>5. FramesOK' /\ PollsOK' /\ OwnedOnce' /\ NestedInPolls'
    BY DEF FramesOK, PollsOK, Destroys, OwnedOnce, Owns, NestedInPolls
  <1>6. OnlyUsed' /\ OnePlace'
    BY <1>1 DEF OnlyUsed, OnePlace, TypeOK
  <1>7. SomePlace'
    BY DEF SomePlace, InSomePlace
  <1> QED BY <1>4, <1>5, <1>6, <1>7

LEMMA BeginDestroyInv ==
    ASSUME IInv, NEW host \in Host, BeginDestroy(host)
    PROVE  IInv'
  <1> USE HostEventsAssumption
  <1> DEFINE pending == pendingEvents[host]
             op == IF pending \in Receive THEN "destroyPacket" ELSE "destroyHost"
             event == IF pending \in Receive THEN pending ELSE NoEvent
  <1>1. /\ host \in handles /\ handles' = handles \ {host}
        /\ \A level \in 1..calls : frame[level].host # host
        /\ pendingEvents' = [pendingEvents EXCEPT ![host] = Absent]
        /\ Push(op, host, event)
        /\ discarded' = IF pending \in Receive THEN discarded
                        ELSE discarded \cup ({pending} \ {Absent})
        /\ UNCHANGED <<live, used, returned, nested, taken, log, overtaken>>
    BY DEF BeginDestroy, takePendingEvent, WorksOn
  <1>2. pending \in used \cup {Absent} /\ event \in used \cup {NoEvent} /\ event \in Event \cup {NoEvent}
    BY DEF IInv, OnlyUsed, TypeOK
  <1>3. [op |-> op, host |-> host, event |-> event] \in Frame \ {Idle} /\ op # "idle"
    BY <1>2 DEF Frame, Idle, Object
  <1>4. /\ CallbacksTypeOK' /\ calls' = calls + 1 /\ calls' \in Level
        /\ running' = "enet" /\ running = "js"
        /\ frame' \in [Level -> Frame]
        /\ frame[calls'] = Idle
        /\ frame'[calls'] = [op |-> op, host |-> host, event |-> event]
        /\ \A level \in Level \ {calls'} : frame'[level] = frame[level]
        /\ \A level \in Level : frame'[level].op = "idle" <=> level > calls'
        /\ \A level \in Level : level > calls' => frame'[level] = Idle
    <2> HIDE DEF op, event
    <2> QED BY <1>1, <1>3, Pushed DEF IInv
  <1>5. /\ frame'[calls'].op = op /\ frame'[calls'].host = host /\ frame'[calls'].event = event
        /\ op \in {"destroyPacket", "destroyHost"}
        /\ op = "destroyPacket" => event \in Event
        /\ op = "destroyHost" => event = NoEvent
    BY <1>4
  <1>6. \A level \in Level : frame[level].host # host
    BY <1>1 DEF IInv, FramesOK, Idle, Level, TypeOK, CallbacksTypeOK, Object
  <1>7. TypeOK'
    BY <1>1, <1>2, <1>4 DEF IInv, TypeOK
  <1>8. FramesOK'
    <2> HIDE DEF op, event
    <2> QED BY <1>1, <1>4, <1>5, <1>6 DEF IInv, FramesOK
  <1>9. OwnedOnce'
    <2> HIDE DEF op, event
    <2>1. host \in live /\ host # NoHost
      BY <1>1 DEF IInv, TypeOK, Object
    <2> QED BY <1>1, <1>4, <1>5, <1>6, <2>1 DEF IInv, OwnedOnce, Owns
  <1>10. NestedInPolls'
    <2> HIDE DEF op, event
    <2>1. \A level \in Level : frame'[level].op = "dispatch" => frame'[level] = frame[level]
      BY <1>4, <1>5
    <2>2. \A level \in Level : frame'[level].op = "dispatch" =>
              frame[level].host \in Host /\ frame[level].host # host
      BY <1>6, <2>1 DEF IInv, FramesOK
    <2>3. /\ frame'[calls'].host = host
          /\ \A level \in Level \ {calls'} : frame'[level] = frame[level]
      BY <1>4
    <2>4. ASSUME NEW level \in Level, frame'[level].op = "dispatch",
                 pendingEvents'[frame'[level].host] # Absent
          PROVE  pendingEvents'[frame'[level].host] \in nested
      BY <1>1, <2>1, <2>2, <2>4 DEF IInv, NestedInPolls, TypeOK
    <2>5. ASSUME NEW i \in Level, NEW j \in Level, i < j,
                 frame'[i].op \in {"dispatch", "destroyPacket", "destroyHost"},
                 frame'[j].op = "dispatch", frame'[i].host = frame'[j].host,
                 frame'[j].event # NoEvent
          PROVE  frame'[j].event \in nested
      <3>1. frame'[j] = frame[j] /\ frame'[i] = frame[i]
        BY <2>1, <2>2, <2>3, <2>5
      <3> QED BY <2>5, <3>1 DEF IInv, NestedInPolls
    <2> QED BY <1>1, <2>4, <2>5 DEF NestedInPolls
  <1>11. \A h \in Host : pendingEvents'[h] = IF h = host THEN Absent ELSE pendingEvents[h]
    BY <1>1, Events DEF IInv
  <1>13. OnlyUsed'
    BY <1>1, <1>2, <1>4, <1>5, <1>11 DEF IInv, OnlyUsed
  <1>14. OnePlace'
    <2> HIDE DEF op, event, pending
    <2>1. \/ event = pending /\ pending # Absent /\ discarded' = discarded
          \/ event = NoEvent /\ discarded' \subseteq discarded \cup {pending}
      BY <1>1 DEF event, pending
    <2>2. /\ pending \notin returned \cup discarded
          /\ \A level \in Level : frame[level].event # pending
          /\ \A h \in Host : h # host /\ pendingEvents[h] = pending => pending = Absent
      BY DEF pending, IInv, OnePlace
    <2>3. pending # NoEvent
      BY <1>2, Events DEF IInv
    <2>4. \A level \in Level :
              frame'[level].event = IF level = calls' THEN event ELSE frame[level].event
      BY <1>4, <1>5
    <2>5. /\ returned' \cap discarded' = {}
          /\ \A level \in Level : frame'[level].event \notin returned' \cup discarded'
          /\ \A h \in Host : pendingEvents'[h] \notin returned' \cup discarded'
      BY <1>1, <1>11, <2>1, <2>2, <2>3, <2>4, Events DEF IInv, OnePlace
    <2>6. \A i, j \in Level :
              i # j /\ frame'[i].event = frame'[j].event => frame'[i].event = NoEvent
      BY <2>1, <2>2, <2>4 DEF IInv, OnePlace
    <2>7. \A g, h \in Host :
              g # h /\ pendingEvents'[g] = pendingEvents'[h] => pendingEvents'[g] = Absent
      BY <1>11 DEF IInv, OnePlace
    <2>8. ASSUME NEW level \in Level, NEW h \in Host
          PROVE  frame'[level].event # pendingEvents'[h]
      <3>1. CASE level = calls'
        BY <1>11, <2>1, <2>2, <2>3, <2>4, <3>1, Events DEF IInv
      <3>2. CASE level # calls'
        <4>1. frame[level].event # Absent
          BY Events DEF IInv, OnlyUsed
        <4> QED BY <1>11, <2>4, <3>2, <4>1 DEF IInv, OnePlace
      <3> QED BY <3>1, <3>2
    <2> QED BY <2>5, <2>6, <2>7, <2>8 DEF OnePlace
  <1>12. SomePlace'
    <2> SUFFICES ASSUME NEW e \in used \ nested PROVE InSomePlace(e)'
      BY <1>1 DEF SomePlace
    <2>1. InSomePlace(e) /\ e \in Event
      BY DEF IInv, SomePlace, TypeOK
    <2>2. CASE e = pending
      <3>1. \/ event = e
            \/ e \in discarded'
        BY <1>1, <2>1, <2>2, HostEventsAssumption
      <3> HIDE DEF op, event, pending
      <3> QED BY <1>4, <1>5, <3>1 DEF InSomePlace
    <2>3. CASE e # pending
      <3>1. discarded \subseteq discarded'
        BY <1>1
      <3> HIDE DEF op, event, pending
      <3>2. ASSUME NEW level \in Level, frame[level].event = e PROVE frame'[level].event = e
        BY <1>4, <2>1, <3>2, HostEventsAssumption DEF Idle
      <3>3. ASSUME NEW h \in Host, pendingEvents[h] = e PROVE pendingEvents'[h] = e
        BY <1>11, <2>3, <3>3 DEF pending
      <3> QED BY <1>1, <2>1, <3>1, <3>2, <3>3 DEF InSomePlace
    <2> QED BY <2>2, <2>3
  <1>15. PollsOK'
    <2> HIDE DEF op, event
    <2>1. \A level \in Level : frame'[level].op = "dispatch" => frame'[level] = frame[level]
      BY <1>4, <1>5
    <2>2. \A i \in Level, h \in Host : Destroys(i, h) => Destroys(i, h)'
      BY <1>4 DEF Destroys, Idle
    <2> QED BY <1>1, <1>6, <2>1, <2>2 DEF IInv, PollsOK, FramesOK
  <1> QED BY <1>7, <1>8, <1>9, <1>10, <1>12, <1>13, <1>14, <1>15 DEF IInv

LEMMA EndDestroyPacketInv ==
    ASSUME IInv, EndDestroyPacket
    PROVE  IInv'
  <1> USE HostEventsAssumption DEF IInv, EndDestroyPacket, cbVars
  <1>1. calls \in Level
    BY CallbacksAssumption DEF EnetRuns, TypeOK, CallbacksTypeOK, Level
  <1>2. /\ frame' \in [Level -> Frame]
        /\ frame[calls].op = "destroyPacket" /\ frame[calls].event \in Event
        /\ frame'[calls].op = "destroyHost" /\ frame'[calls].event = NoEvent
        /\ frame'[calls].host = frame[calls].host /\ frame[calls].host \in Host
        /\ \A level \in Level \ {calls} : frame'[level] = frame[level]
    <2>1. frame[calls].op = "destroyPacket"
      BY DEF EnetRuns, Top
    <2>2. /\ frame \in [Level -> Frame]
          /\ frame' = [frame EXCEPT ![calls].op = "destroyHost", ![calls].event = NoEvent]
      BY DEF TypeOK
    <2>3. frame[calls].host \in Host /\ frame[calls].event \in Event
      BY <1>1, <2>1 DEF FramesOK
    <2> HIDE DEF IInv, EndDestroyPacket
    <2> QED BY <1>1, <2>1, <2>2, <2>3 DEF Frame
  <1>3. frame[calls].event \in used /\ discarded' = discarded \cup {frame[calls].event}
    BY <1>1, <1>2 DEF OnlyUsed, Top
  <1>4. TypeOK'
    BY <1>1, <1>2, <1>3 DEF TypeOK, CallbacksTypeOK
  <1>5. FramesOK'
    BY <1>1, <1>2 DEF FramesOK, TypeOK, CallbacksTypeOK, Idle
  <1>6. OwnedOnce' /\ NestedInPolls'
    BY <1>2 DEF OwnedOnce, Owns, NestedInPolls
  <1>7. OnlyUsed' /\ OnePlace'
    BY <1>1, <1>2, <1>3 DEF OnlyUsed, OnePlace, TypeOK
  <1>8. SomePlace'
    BY <1>1, <1>2, <1>3 DEF SomePlace, InSomePlace
  <1>9. PollsOK'
    BY <1>2, PollsSame DEF FramesOK, Destroys
  <1> QED BY <1>4, <1>5, <1>6, <1>7, <1>8, <1>9
-----------------------------------------------------------------------------
LEMMA NextInv ==
    ASSUME IInv, [Next]_vars
    PROVE  IInv'
  <1>1. CASE OtherCall \/ BeginCreate \/ BeginCreateCoder
    BY <1>1, BeginInv DEF OtherCall, BeginCreate, BeginCreateCoder
  <1>2. CASE EndOtherCall \/ EndDestroyHost
    <2>1. calls \in Level
      BY <1>2, Popped DEF EndOtherCall, EndDestroyHost, IInv
    <2>2. frame[calls].event = NoEvent
      BY <1>2, <2>1 DEF EndOtherCall, EndDestroyHost, EnetRuns, Top, IInv, FramesOK
    <2>3. taken' \in [Host -> Seq(Event)] /\ log' \in [Host -> Seq(Event)]
      <3>1. taken \in [Host -> Seq(Event)] /\ log \in [Host -> Seq(Event)] /\ <<>> \in Seq(Event)
        BY DEF IInv, TypeOK
      <3>2. \/ taken' = taken /\ log' = log
            \/ /\ taken' = [taken EXCEPT ![Top.host] = <<>>]
               /\ log' = [log EXCEPT ![Top.host] = <<>>]
        BY <1>2 DEF EndOtherCall, EndDestroyHost, history
      <3> QED BY <3>1, <3>2
    <2> QED BY <1>2, <2>2, <2>3, EndInv DEF EndOtherCall, EndDestroyHost, history
  <1>3. CASE Callback
    BY <1>3, CallbackInv
  <1>4. CASE HandlerReturns \/ HandlerFails
    <2>1. CallbacksTypeOK' /\ calls' = calls
      BY <1>4, HandlerTypes DEF HandlerReturns, HandlerFails, IInv, TypeOK
    <2>2. running = "js"
      BY <1>4 DEF HandlerReturns, HandlerFails, EndCallback, FailCallback, PropagateError,
         Record, InHandler
    <2> QED BY <1>4, <2>1, <2>2, HandlerInv DEF HandlerReturns, HandlerFails
  <1>5. CASE Catch
    BY <1>5, HandlerTypes, HandlerInv DEF Catch, CatchError, IInv, TypeOK
  <1>6. CASE EndCreate \/ EndDispatch \/ EndDestroyPacket
    BY <1>6, EndCreateInv, EndDispatchInv, EndDestroyPacketInv
  <1>7. ASSUME NEW event \in Event, TakeEvent(event) PROVE IInv'
    BY <1>7, TakeEventInv
  <1>8. ASSUME NEW object \in Object, Allocate(object) PROVE IInv'
    BY <1>8, AllocateInv
  <1>9. ASSUME NEW host \in Host,
               \/ Poll(host)
               \/ \E packet \in Receive : ReceiveFromPeer(host, packet)
               \/ BeginDestroy(host)
        PROVE  IInv'
    BY <1>9, DispatchPendingInv, BeginDispatchInv, ReceiveFromPeerInv, BeginDestroyInv DEF Poll
  <1>10. ASSUME NEW coder \in Coder, DestroyCoder(coder) PROVE IInv'
    BY <1>10, DestroyCoderInv
  <1>11. CASE UNCHANGED vars
    BY <1>11, HandlerInv DEF vars, cbVars, IInv, TypeOK, CallbacksTypeOK
  <1> QED
    BY <1>1, <1>2, <1>3, <1>4, <1>5, <1>6, <1>7, <1>8, <1>9, <1>10, <1>11 DEF Next

LEMMA Inductive == Spec => []IInv
  <1>1. IInv /\ [Next]_vars => IInv'
    BY NextInv
  <1> QED BY InitInv, <1>1, PTL DEF Spec

\* The variables have their types; in particular no handle outlives its object.
THEOREM Typing == Spec => []TypeOK
  BY Inductive, PTL DEF IInv

-----------------------------------------------------------------------------
(* The order of events.  A second invariant, which uses the first.         *)

\* The poll at the level has taken an event of the host.
Holds(level, host) ==
    /\ frame[level].op = "dispatch"
    /\ frame[level].host = host
    /\ frame[level].event # NoEvent

\* For any other host, only an event that was polled for in its destroy is kept.
PendingOfHandles ==
    \A host \in Host :
        pendingEvents[host] # Absent => host \in handles \/ pendingEvents[host] \in nested

\* What is kept was taken from the host itself, or was left by an earlier host at
\* its pointer; then the host is not being polled.
KeptTaken ==
    \A host \in Host :
        pendingEvents[host] # Absent =>
            \/ pendingEvents[host] \in Range(taken[host])
            \/ /\ pendingEvents[host] \in nested
               /\ \A level \in Level : frame[level].op = "dispatch" => frame[level].host # host

\* A host that does not exist, or is being created, has taken none.
Fresh ==
    \A host \in Host :
        \/ host \notin live
        \/ \E level \in Level : /\ frame[level].op \in {"create", "createCoder"}
                                /\ frame[level].host = host
        => taken[host] = <<>> /\ log[host] = <<>>

HeldInTaken ==
    \A level \in Level, host \in Host :
        Holds(level, host) => frame[level].event \in Range(taken[host])

Leftovers == {<<>>} \cup {<<event>> : event \in nested}

InOrder(host) ==
    Range(taken[host]) \cap nested = {}
    => \E left \in Leftovers :
           left \o taken[host] = log[host] \o One(pendingEvents[host]) \o HeldBy(host)

\* An event the host has taken was returned, or is kept, or held.
Waiting(host) ==
    \A event \in Range(taken[host]) \ nested :
        \/ event \in Range(log[host])
        \/ pendingEvents[host] = event
        \/ \E level \in Level : Holds(level, host) /\ frame[level].event = event

Ordered == \A host \in handles \cap Host : InOrder(host) /\ Waiting(host)

\* Of the events taken from a host and not returned, one was polled for by itself.
AtMostOne(host) ==
    \A e, f \in (Range(taken[host]) \ Range(log[host])) \ nested : e = f

\* So it was when the host's destroy began, and so it stays.
DyingOne ==
    \A level \in Level, host \in Host : Destroys(level, host) => AtMostOne(host)

OvertakesOne ==
    \A packet \in Receive : \A e, f \in overtaken[packet] \ nested : e = f

OInv ==
    /\ PendingOfHandles
    /\ KeptTaken
    /\ Fresh
    /\ HeldInTaken
    /\ Ordered
    /\ DyingOne
    /\ OvertakesOne

LEMMA LeastOf ==
    ASSUME NEW S \in SUBSET Level, S # {}
    PROVE  Min(S) \in S
  <1>1. S \subseteq Nat
    BY DEF Level
  <1>2. PICK x \in S : \A y \in S : ~ (<<y, x>> \in OpToRel(<, Nat))
    BY <1>1, WFMin, NatLessThanWellFounded
  <1>3. \A y \in S : ~ (y < x)
    BY <1>1, <1>2 DEF OpToRel
  <1>4. \A y \in S : x <= y
    BY <1>1, <1>3
  <1> QED BY <1>4 DEF Min

LEMMA LeastOfOne ==
    ASSUME NEW level \in Level
    PROVE  Min({level}) = level
  BY LeastOf DEF Level

\* HeldBy in terms of Holds, before and after a step.
LEMMA HeldNone ==
    ASSUME IInv, NEW host, \A level \in Level : ~ Holds(level, host)
    PROVE  HeldBy(host) = <<>>
  BY CallbacksAssumption DEF HeldBy, Polls, WorksOn, Holds, IInv, TypeOK, CallbacksTypeOK, Level

LEMMA HeldNoneAfter ==
    ASSUME IInv', NEW host, \A level \in Level : ~ Holds(level, host)'
    PROVE  HeldBy(host)' = <<>>
  BY CallbacksAssumption DEF HeldBy, Polls, WorksOn, Holds, IInv, TypeOK, CallbacksTypeOK, Level

LEMMA HeldOne ==
    ASSUME IInv, NEW host, NEW level \in Level,
           Holds(level, host), \A l \in Level : Holds(l, host) => l = level
    PROVE  HeldBy(host) = <<frame[level].event>>
  <1>1. {l \in Polls(host) : frame[l].event # NoEvent} = {level}
    BY CallbacksAssumption DEF Polls, WorksOn, Holds, IInv, TypeOK, CallbacksTypeOK, FramesOK, Idle, Level
  <1> QED BY <1>1, LeastOfOne DEF HeldBy

LEMMA HeldOneAfter ==
    ASSUME IInv', NEW host, NEW level \in Level,
           Holds(level, host)', \A l \in Level : Holds(l, host)' => l = level
    PROVE  HeldBy(host)' = <<frame'[level].event>>
  <1>1. {l \in Polls(host)' : frame'[l].event # NoEvent} = {level}
    BY CallbacksAssumption DEF Polls, WorksOn, Holds, IInv, TypeOK, CallbacksTypeOK, FramesOK, Idle, Level
  <1> QED BY <1>1, LeastOfOne DEF HeldBy

LEMMA HeldSame ==
    ASSUME IInv, IInv', NEW host,
           \A level \in Level : Holds(level, host)' <=> Holds(level, host),
           \A level \in Level : Holds(level, host) => frame'[level].event = frame[level].event
    PROVE  HeldBy(host)' = HeldBy(host)
  <1> DEFINE holding == {level \in Level : Holds(level, host)}
  <1>1. /\ {l \in Polls(host) : frame[l].event # NoEvent} = holding
        /\ {l \in Polls(host)' : frame'[l].event # NoEvent} = holding
    BY CallbacksAssumption DEF Polls, WorksOn, Holds, IInv, TypeOK, CallbacksTypeOK, FramesOK, Idle, Level
  <1>2. holding # {} => Min(holding) \in holding
    BY LeastOf
  <1> HIDE DEF holding
  <1>3. holding # {} => frame'[Min(holding)].event = frame[Min(holding)].event
    BY <1>2 DEF holding
  <1> QED BY <1>1, <1>3 DEF HeldBy

-----------------------------------------------------------------------------
LEMMA RangeOfAppend ==
    ASSUME NEW s \in Seq(Event), NEW event \in Event
    PROVE  Range(Append(s, event)) = Range(s) \cup {event}
  <1> DEFINE t == Append(s, event)
  <1>1. /\ DOMAIN s = 1..Len(s) /\ DOMAIN t = 1..Len(s) + 1 /\ Len(s) \in Nat
        /\ \A i \in 1..Len(s) : t[i] = s[i]
        /\ t[Len(s) + 1] = event
    OBVIOUS
  <1>2. 1..Len(s) + 1 = (1..Len(s)) \cup {Len(s) + 1}
    BY <1>1
  <1> HIDE DEF t
  <1> QED BY <1>1, <1>2 DEF Range

LEMMA OvertakesSame ==
    ASSUME OInv, overtaken' = overtaken, nested \subseteq nested'
    PROVE  OvertakesOne'
  BY DEF OInv, OvertakesOne

LEMMA FreshSame ==
    ASSUME OInv, UNCHANGED <<taken, log>>, live \subseteq live',
           \A level \in Level : frame'[level].op \in {"create", "createCoder"} =>
               \/ frame'[level] = frame[level]
               \/ frame'[level].host = NoHost \/ frame'[level].host \notin live
    PROVE  Fresh'
  <1> SUFFICES ASSUME NEW host \in Host,
                      \/ host \notin live'
                      \/ \E level \in Level :
                            /\ frame'[level].op \in {"create", "createCoder"}
                            /\ frame'[level].host = host
               PROVE  taken[host] = <<>> /\ log[host] = <<>>
    BY DEF Fresh
  <1>1. host # NoHost
    BY HostEventsAssumption DEF Object
  <1>2. \/ host \notin live
        \/ \E level \in Level : /\ frame[level].op \in {"create", "createCoder"}
                                /\ frame[level].host = host
    BY <1>1
  <1> QED BY <1>2 DEF OInv, Fresh

LEMMA DyingSame ==
    ASSUME OInv, UNCHANGED <<taken, log>>, nested \subseteq nested',
           \A level \in Level, host \in Host : Destroys(level, host)' => Destroys(level, host)
    PROVE  DyingOne'
  BY DEF OInv, DyingOne, AtMostOne

\* A step that moves no event of the host.
LEMMA HostSame ==
    ASSUME IInv, IInv', NEW host, InOrder(host), Waiting(host),
           nested \subseteq nested', taken'[host] = taken[host], log'[host] = log[host],
           pendingEvents'[host] = pendingEvents[host],
           \A level \in Level : Holds(level, host)' <=> Holds(level, host),
           \A level \in Level : Holds(level, host) => frame'[level].event = frame[level].event
    PROVE  InOrder(host)' /\ Waiting(host)'
  <1>1. HeldBy(host)' = HeldBy(host)
    BY HeldSame
  <1>2. InOrder(host)'
    BY <1>1 DEF InOrder, Leftovers
  <1>3. Waiting(host)'
    BY DEF Waiting
  <1> QED BY <1>2, <1>3

\* A step that moves no event.
LEMMA QuietStep ==
    ASSUME IInv, IInv', OInv, Fresh', OvertakesOne',
           UNCHANGED <<pendingEvents, nested, taken, log>>,
           handles' \cap Host = handles \cap Host,
           \A level \in Level, host \in Host : Destroys(level, host)' => Destroys(level, host),
           \A level \in Level :
               \/ frame'[level] = frame[level]
               \/ frame'[level].op # "dispatch" /\ frame[level].op # "dispatch"
               \/ /\ frame[level].op = "dispatch" => frame[level].event = NoEvent
                  /\ frame'[level].op = "dispatch" =>
                         /\ frame'[level].event = NoEvent
                         /\ pendingEvents[frame'[level].host] = Absent
    PROVE  OInv'
  <1>1. \A level \in Level, host \in Host :
            /\ Holds(level, host)' <=> Holds(level, host)
            /\ Holds(level, host) => frame'[level].event = frame[level].event
    BY DEF Holds
  <1>2. PendingOfHandles'
    BY DEF OInv, PendingOfHandles
  <1>3. HeldInTaken'
    BY <1>1 DEF OInv, HeldInTaken
  <1>4. KeptTaken'
    BY DEF OInv, KeptTaken
  <1>5. DyingOne'
    BY DyingSame
  <1>6. ASSUME NEW host \in handles' \cap Host PROVE InOrder(host)' /\ Waiting(host)'
    <2>1. InOrder(host) /\ Waiting(host)
      BY <1>6 DEF OInv, Ordered
    <2> QED BY <1>1, <2>1, HostSame
  <1> QED BY <1>2, <1>3, <1>4, <1>5, <1>6 DEF OInv, Ordered

LEMMA InitOInv == Init => OInv
  <1> SUFFICES ASSUME Init PROVE OInv
    OBVIOUS
  <1>1. /\ taken = [host \in Host |-> <<>>] /\ log = [host \in Host |-> <<>>]
        /\ overtaken = [packet \in Receive |-> {}]
        /\ handles = {} /\ pendingEvents = [host \in Host |-> Absent]
        /\ frame = [level \in Level |-> Idle]
    BY DEF Init
  <1>2. Fresh
    BY <1>1 DEF Fresh
  <1>3. DyingOne
    BY <1>1 DEF DyingOne, Destroys, Idle
  <1> QED
    BY <1>1, <1>2, <1>3
    DEF OInv, PendingOfHandles, KeptTaken, HeldInTaken, Holds, Ordered, OvertakesOne, Idle

\* OtherCall, BeginCreate, BeginCreateCoder, BeginDispatch
LEMMA BeginOrder ==
    ASSUME IInv, IInv', OInv, NEW op \in {"call", "create", "createCoder", "dispatch"},
           NEW host \in Host \cup {NoHost}, host = NoHost <=> op # "dispatch",
           op = "dispatch" => pendingEvents[host] = Absent,
           Push(op, host, NoEvent), UNCHANGED <<live, handles, pendingEvents, history>>
    PROVE  OInv'
  <1>1. [op |-> op, host |-> host, event |-> NoEvent] \in Frame \ {Idle} /\ op # "idle"
    BY DEF Frame, Idle, Object
  <1>2. /\ calls' \in Level
        /\ frame[calls'] = Idle
        /\ frame'[calls'] = [op |-> op, host |-> host, event |-> NoEvent]
        /\ \A level \in Level \ {calls'} : frame'[level] = frame[level]
    BY <1>1, Pushed DEF IInv
  <1>3. Fresh'
    BY <1>2, FreshSame DEF history
  <1>4. OvertakesOne'
    BY OvertakesSame DEF history
  <1>5. \A level \in Level, h \in Host : Destroys(level, h)' => Destroys(level, h)
    BY <1>2 DEF Destroys
  <1> QED BY <1>2, <1>3, <1>4, <1>5, QuietStep DEF history, Idle

LEMMA HandlerOrder ==
    ASSUME IInv, IInv', OInv, UNCHANGED heVars
    PROVE  OInv'
  <1> USE DEF heVars, history
  <1>1. Fresh' /\ OvertakesOne'
    BY FreshSame, OvertakesSame
  <1> QED BY <1>1, QuietStep DEF Destroys

LEMMA CallbackOrder ==
    ASSUME IInv, IInv', OInv, Callback
    PROVE  OInv'
  <1> USE DEF history
  <1>1. UNCHANGED <<live, handles, pendingEvents, history>>
    BY DEF Callback
  <1>2. frame \in [Level -> Frame] /\ calls \in Level
    BY CallbacksAssumption
    DEF Callback, BeginCallback, IInv, TypeOK, CallbacksTypeOK, Level
  <1>3. \A level \in Level :
            \/ frame'[level] = frame[level]
            \/ frame'[level].op = "refused" /\ frame[level].op \in {"create", "createCoder"}
    BY <1>2 DEF Callback, Creating, Top, Frame
  <1>4. Fresh' /\ OvertakesOne'
    BY <1>1, <1>3, FreshSame, OvertakesSame
  <1> QED BY <1>1, <1>3, <1>4, QuietStep DEF Destroys

\* EndOtherCall, and EndCreate and EndDispatch when nothing comes of them
LEMMA EndOrder ==
    ASSUME IInv, IInv', OInv, Pop, frame[calls].event = NoEvent,
           UNCHANGED <<live, pendingEvents, history>>, handles' \cap Host = handles \cap Host
    PROVE  OInv'
  <1> USE DEF history
  <1>1. \A level \in Level : frame'[level] = frame[level] \/ (level = calls /\ frame'[level] = Idle)
    BY Popped DEF IInv
  <1>2. Fresh' /\ OvertakesOne'
    BY <1>1, FreshSame, OvertakesSame DEF Idle
  <1>3. \A level \in Level, h \in Host : Destroys(level, h)' => Destroys(level, h)
    BY <1>1 DEF Destroys, Idle
  <1>4. \A level \in Level :
            \/ frame'[level] = frame[level]
            \/ /\ frame[level].op = "dispatch" => frame[level].event = NoEvent
               /\ frame'[level].op # "dispatch"
    BY <1>1 DEF Idle
  <1> QED BY <1>2, <1>3, <1>4, QuietStep

LEMMA EndDestroyHostOrder ==
    ASSUME IInv, IInv', OInv, EndDestroyHost
    PROVE  OInv'
  <1>1. /\ calls \in Level /\ frame'[calls] = Idle
        /\ \A level \in Level \ {calls} : frame'[level] = frame[level]
        /\ frame[calls].op = "destroyHost"
    BY Popped DEF EndDestroyHost, EnetRuns, Top, IInv
  <1>2. PICK host \in Host : host = frame[calls].host /\ host \notin handles /\ Owns(calls)
    BY <1>1, HostEventsAssumption DEF IInv, FramesOK, OwnedOnce, Owns, Object
  <1>3. /\ live' = live \ {host}
        /\ taken' = [taken EXCEPT ![host] = <<>>] /\ log' = [log EXCEPT ![host] = <<>>]
        /\ taken \in [Host -> Seq(Event)] /\ log \in [Host -> Seq(Event)]
        /\ UNCHANGED <<handles, pendingEvents, nested, overtaken>>
    BY <1>2 DEF EndDestroyHost, Top, IInv, TypeOK
  <1>4. /\ taken'[host] = <<>> /\ log'[host] = <<>>
        /\ \A h \in Host \ {host} : taken'[h] = taken[h] /\ log'[h] = log[h]
    BY <1>3
  <1>5. \A level \in Level : frame'[level].op = "dispatch" => frame'[level].host # host
    <2> SUFFICES ASSUME NEW level \in Level, frame'[level].op = "dispatch",
                        frame'[level].host = host
                 PROVE  FALSE
      OBVIOUS
    <2>1. PICK i \in Level : i < level /\ Destroys(i, host)'
      BY <1>2, <1>3 DEF IInv, PollsOK
    <2>2. i # calls /\ frame'[i] = frame[i]
      BY <1>1, <2>1 DEF Destroys, Idle
    <2> QED BY <1>1, <1>2, <2>1, <2>2 DEF Destroys, Owns, IInv, OwnedOnce
  <1>6. \A level \in Level, h \in Host :
            /\ Holds(level, h)' => h # host
            /\ Holds(level, h)' <=> Holds(level, h)
            /\ Holds(level, h) => frame'[level].event = frame[level].event
    BY <1>1, <1>5 DEF Holds, Idle
  <1>7. PendingOfHandles'
    BY <1>3 DEF OInv, PendingOfHandles
  <1>8. KeptTaken'
    <2>1. pendingEvents[host] # Absent => pendingEvents[host] \in nested
      BY <1>2 DEF OInv, PendingOfHandles
    <2>2. \A level \in Level : frame'[level].op = "dispatch" => frame'[level] = frame[level]
      BY <1>1 DEF Idle
    <2> QED BY <1>3, <1>4, <1>5, <2>1, <2>2 DEF OInv, KeptTaken
  <1>9. Fresh'
    <2>1. \A level \in Level : frame'[level].op \in {"create", "createCoder"} => frame'[level] = frame[level]
      BY <1>1 DEF Idle
    <2> QED BY <1>3, <1>4, <2>1 DEF OInv, Fresh
  <1>10. HeldInTaken'
    BY <1>4, <1>6 DEF OInv, HeldInTaken
  <1>11. DyingOne'
    <2>1. \A level \in Level, h \in Host : Destroys(level, h)' => Destroys(level, h) /\ h # host
      BY <1>1, <1>2, HostEventsAssumption DEF Destroys, Idle, Owns, IInv, OwnedOnce, Object
    <2> QED BY <1>3, <1>4, <2>1 DEF OInv, DyingOne, AtMostOne
  <1>12. ASSUME NEW h \in handles' \cap Host PROVE InOrder(h)' /\ Waiting(h)'
    <2>1. InOrder(h) /\ Waiting(h) /\ h # host
      BY <1>2, <1>3, <1>12 DEF OInv, Ordered
    <2> QED BY <1>3, <1>4, <1>6, <2>1, HostSame
  <1>13. OvertakesOne'
    BY <1>3, OvertakesSame
  <1> QED BY <1>7, <1>8, <1>9, <1>10, <1>11, <1>12, <1>13 DEF OInv, Ordered

LEMMA AllocateOrder ==
    ASSUME IInv, IInv', OInv, NEW object \in Object, Allocate(object)
    PROVE  OInv'
  <1>1. /\ calls \in Level /\ frame \in [Level -> Frame] /\ object \notin live
        /\ frame[calls].op = (IF object \in Host THEN "create" ELSE "createCoder")
        /\ frame' = [frame EXCEPT ![calls].host = object]
        /\ live' = live \cup {object}
        /\ UNCHANGED <<handles, pendingEvents, nested, taken, log, overtaken>>
    BY CallbacksAssumption
    DEF Allocate, EnetRuns, Top, IInv, TypeOK, CallbacksTypeOK, FramesOK, Level, history
  <1>2. /\ frame'[calls].op = frame[calls].op
        /\ frame[calls].op \in {"create", "createCoder"}
        /\ frame'[calls].host = object
        /\ \A level \in Level \ {calls} : frame'[level] = frame[level]
    BY <1>1 DEF Frame
  <1>3. Fresh' /\ OvertakesOne'
    BY <1>1, <1>2, FreshSame, OvertakesSame
  <1>4. \A level \in Level, h \in Host : Destroys(level, h)' => Destroys(level, h)
    BY <1>2 DEF Destroys
  <1> QED BY <1>1, <1>2, <1>3, <1>4, QuietStep

LEMMA DestroyCoderOrder ==
    ASSUME IInv, IInv', OInv, NEW coder \in Coder, DestroyCoder(coder)
    PROVE  OInv'
  <1> USE DEF DestroyCoder, history
  <1>1. \A host \in Host : host # coder
    BY HostEventsAssumption
  <1>2. Fresh' /\ OvertakesOne'
    BY <1>1, OvertakesSame DEF OInv, Fresh
  <1> QED BY <1>1, <1>2, QuietStep DEF Destroys

LEMMA EndDestroyPacketOrder ==
    ASSUME IInv, IInv', OInv, EndDestroyPacket
    PROVE  OInv'
  <1>1. UNCHANGED <<live, handles, pendingEvents, nested, taken, log, overtaken>>
    BY DEF EndDestroyPacket
  <1>2. frame \in [Level -> Frame] /\ frame[calls].op = "destroyPacket"
    BY DEF EndDestroyPacket, EnetRuns, Top, IInv, TypeOK
  <1>3. \A level \in Level :
            \/ frame'[level] = frame[level]
            \/ /\ frame[level].op = "destroyPacket" /\ frame'[level].op = "destroyHost"
               /\ frame'[level].host = frame[level].host
    BY <1>2 DEF EndDestroyPacket, Frame
  <1>4. Fresh' /\ OvertakesOne'
    BY <1>1, <1>3, FreshSame, OvertakesSame
  <1> QED BY <1>1, <1>3, <1>4, QuietStep DEF Destroys

\* When no poll of the host has been in another, its polls in progress keep nothing...
LEMMA NoneKept ==
    ASSUME IInv, OInv, NEW host \in Host, Range(taken[host]) \cap nested = {},
           NEW level \in Level, frame[level].op = "dispatch", frame[level].host = host
    PROVE  pendingEvents[host] = Absent
  BY DEF IInv, NestedInPolls, OInv, KeptTaken

\* ... and only the first of them can hold an event.
LEMMA FirstHolds ==
    ASSUME IInv, OInv, NEW host \in Host, Range(taken[host]) \cap nested = {},
           NEW i \in Level, NEW j \in Level,
           frame[i].op = "dispatch", frame[i].host = host, Holds(j, host)
    PROVE  ~ (i < j)
  BY DEF Holds, IInv, NestedInPolls, OInv, HeldInTaken

\* A host that is polled or destroyed exists, and no call creates it.
LEMMA Old ==
    ASSUME IInv, NEW host \in Host,
           host \in handles \/ \E level \in Level : Destroys(level, host)
    PROVE  /\ host \in live
           /\ \A level \in Level :
                 frame[level].op \in {"create", "createCoder"} => frame[level].host # host
  BY HostEventsAssumption DEF Destroys, Owns, OwnedOnce, IInv, TypeOK, Object

\* So it may take and return events.
LEMMA FreshOthers ==
    ASSUME IInv, OInv, NEW host \in Host,
           host \in handles \/ \E level \in Level : Destroys(level, host),
           UNCHANGED live,
           \A h \in Host \ {host} : taken'[h] = taken[h] /\ log'[h] = log[h],
           \A level \in Level : \/ frame'[level].op \notin {"create", "createCoder"}
                               \/ frame'[level] = frame[level]
    PROVE  Fresh'
  <1>1. /\ host \in live
        /\ \A level \in Level :
              frame[level].op \in {"create", "createCoder"} => frame[level].host # host
    BY Old
  <1> QED BY <1>1 DEF OInv, Fresh

LEMMA AppendAfter ==
    ASSUME NEW s \in Seq(Event), NEW t \in Seq(Event), NEW u \in Seq(Event),
           NEW event \in Event, s \o t = u \o <<>> \o <<>>
    PROVE  s \o Append(t, event) = u \o <<>> \o <<event>>
  <1> DEFINE before == Append(s \o t, event)
             after == s \o Append(t, event)
  <1>1. /\ before \in Seq(Event) /\ Len(before) = Len(s) + Len(t) + 1
        /\ after \in Seq(Event) /\ Len(after) = Len(s) + Len(t) + 1
    OBVIOUS
  <1>2. \A i \in 1..Len(s) + Len(t) + 1 : before[i] = after[i]
    OBVIOUS
  <1>3. Append(u \o <<>> \o <<>>, event) = u \o <<>> \o <<event>>
    OBVIOUS
  <1>4. before = after
    <2> HIDE DEF before, after
    <2> QED BY <1>1, <1>2, SeqEqual
  <1> QED BY <1>3, <1>4

\* A call in progress works on the host of its frame.
LEMMA InWorksOn ==
    ASSUME IInv, NEW level \in Level, frame[level].op # "idle"
    PROVE  level \in WorksOn(frame[level].host)
  BY CallbacksAssumption DEF WorksOn, IInv, TypeOK, CallbacksTypeOK, FramesOK, Idle, Level

LEMMA TakeEventOrder ==
    ASSUME IInv, IInv', OInv, NEW event \in Event, TakeEvent(event)
    PROVE  OInv'
  <1>0. /\ calls \in Level /\ calls \in Nat
        /\ frame[calls].op = "dispatch" /\ frame[calls].event = NoEvent
    BY CallbacksAssumption
    DEF TakeEvent, EnetRuns, Top, IInv, TypeOK, CallbacksTypeOK, FramesOK, Level
  <1>1. PICK host \in Host :
            /\ host = frame[calls].host
            /\ host \in handles \/ \E level \in Level : Destroys(level, host)
    BY <1>0 DEF IInv, FramesOK, PollsOK
  <1>2. /\ frame \in [Level -> Frame] /\ taken \in [Host -> Seq(Event)]
        /\ nested \in SUBSET Event /\ event # NoEvent
        /\ frame' = [frame EXCEPT ![calls].event = event]
        /\ taken' = [taken EXCEPT ![host] = Append(taken[host], event)]
        /\ nested' = IF WorksOn(host) = {calls} THEN nested ELSE nested \cup {event}
        /\ UNCHANGED <<calls, live, handles, pendingEvents, log, overtaken>>
    BY <1>1, HostEventsAssumption DEF TakeEvent, Top, IInv, TypeOK, cbVars
  <1>3. /\ frame'[calls].op = "dispatch" /\ frame'[calls].host = host
        /\ frame'[calls].event = event
        /\ \A level \in Level \ {calls} : frame'[level] = frame[level]
    BY <1>0, <1>1, <1>2 DEF Frame
  <1>4. /\ taken'[host] = Append(taken[host], event) /\ taken[host] \in Seq(Event)
        /\ \A h \in Host \ {host} : taken'[h] = taken[h]
        /\ nested \subseteq nested'
    BY <1>1, <1>2
  <1>5. Range(taken'[host]) = Range(taken[host]) \cup {event}
    BY <1>4, RangeOfAppend
  <1>6. Holds(calls, host)' /\ \A h : ~ Holds(calls, h)
    BY <1>0, <1>2, <1>3 DEF Holds
  <1>7. \A level \in Level \ {calls}, h \in Host : Holds(level, h)' <=> Holds(level, h)
    BY <1>3 DEF Holds
  <1>8. ASSUME host \in handles PROVE InOrder(host)'
    <2> SUFFICES ASSUME Range(taken'[host]) \cap nested' = {}
                 PROVE  \E left \in Leftovers' :
                            left \o taken'[host]
                            = log'[host] \o One(pendingEvents'[host]) \o HeldBy(host)'
      BY DEF InOrder
    <2>1. WorksOn(host) = {calls} /\ nested' = nested /\ Range(taken[host]) \cap nested = {}
      BY <1>2, <1>5
    <2>2. \A level \in Level \ {calls} : ~ Holds(level, host)
      BY <2>1, InWorksOn DEF Holds
    <2>3. HeldBy(host) = <<>>
      BY <1>6, <2>2, HeldNone
    <2>4. HeldBy(host)' = <<event>>
      BY <1>0, <1>2, <1>3, <1>6, <1>7, <2>2, HeldOneAfter
    <2>5. pendingEvents[host] = Absent
      BY <1>0, <1>1, <2>1, NoneKept
    <2>6. One(Absent) = <<>>
      BY HostEventsAssumption DEF One
    <2>7. log[host] \in Seq(Event)
      BY DEF IInv, TypeOK
    <2>8. PICK left \in Leftovers : left \o taken[host] = log[host] \o <<>> \o <<>>
      BY <1>8, <2>1, <2>3, <2>5, <2>6 DEF OInv, Ordered, InOrder
    <2>9. left \in Seq(Event)
      <3>1. left = <<>> \/ \E e \in nested : left = <<e>>
        BY <2>8 DEF Leftovers
      <3>2. \A e \in nested : <<e>> \in Seq(Event)
        BY <1>2
      <3>3. <<>> \in Seq(Event)
        OBVIOUS
      <3> QED BY <3>1, <3>2, <3>3
    <2>10. left \o Append(taken[host], event) = log[host] \o <<>> \o <<event>>
      BY <1>4, <2>7, <2>8, <2>9, AppendAfter
    <2>11. left \in Leftovers'
      BY <2>1, <2>8 DEF Leftovers
    <2> QED BY <1>2, <1>4, <2>4, <2>5, <2>6, <2>10, <2>11
  <1>9. ASSUME host \in handles PROVE Waiting(host)'
    <2> SUFFICES ASSUME NEW e \in Range(taken'[host]) \ nested'
                 PROVE  \/ e \in Range(log'[host])
                        \/ pendingEvents'[host] = e
                        \/ \E level \in Level : Holds(level, host)' /\ frame'[level].event = e
      BY DEF Waiting
    <2>1. CASE e = event
      BY <1>0, <1>2, <1>3, <1>6, <2>1
    <2>2. CASE e # event
      <3>1. e \in Range(taken[host]) \ nested
        BY <1>4, <1>5, <2>2
      <3>2. Waiting(host)
        BY <1>9 DEF OInv, Ordered
      <3>3. ASSUME NEW level \in Level, Holds(level, host), frame[level].event = e
            PROVE  Holds(level, host)' /\ frame'[level].event = e
        BY <1>3, <1>6, <1>7, <3>3
      <3> QED BY <1>2, <3>1, <3>2, <3>3 DEF Waiting
    <2> QED BY <2>1, <2>2
  <1>10. ASSUME NEW h \in handles' \cap Host, h # host
         PROVE  InOrder(h)' /\ Waiting(h)'
    <2>1. InOrder(h) /\ Waiting(h)
      BY <1>2 DEF OInv, Ordered
    <2>2. \A level \in Level :
              /\ Holds(level, h)' <=> Holds(level, h)
              /\ Holds(level, h) => frame'[level].event = frame[level].event
      BY <1>1, <1>3, <1>7, <1>10 DEF Holds
    <2> QED BY <1>2, <1>4, <1>10, <2>1, <2>2, HostSame
  <1>11. PendingOfHandles'
    BY <1>2, <1>4 DEF OInv, PendingOfHandles
  <1>12. KeptTaken'
    <2>1. \A level \in Level :
              frame'[level].op = frame[level].op /\ frame'[level].host = frame[level].host
      BY <1>0, <1>1, <1>3
    <2>2. \A h \in Host : Range(taken[h]) \subseteq Range(taken'[h])
      BY <1>4, <1>5
    <2> QED BY <1>2, <1>4, <2>1, <2>2 DEF OInv, KeptTaken
  <1>13. Fresh'
    BY <1>1, <1>2, <1>3, <1>4, FreshOthers
  <1>14. HeldInTaken'
    <2> SUFFICES ASSUME NEW level \in Level, NEW h \in Host, Holds(level, h)'
                 PROVE  frame'[level].event \in Range(taken'[h])
      BY DEF HeldInTaken
    <2>1. CASE level = calls
      BY <1>3, <1>5, <2>1 DEF Holds
    <2>2. CASE level # calls
      <3>1. frame'[level].event \in Range(taken[h])
        BY <1>3, <1>7, <2>2 DEF OInv, HeldInTaken
      <3> QED BY <1>4, <1>5, <3>1
    <2> QED BY <2>1, <2>2
  <1>15. DyingOne'
    <2> SUFFICES ASSUME NEW level \in Level, NEW h \in Host, Destroys(level, h)'
                 PROVE  AtMostOne(h)'
      BY DEF DyingOne
    <2>1. Destroys(level, h) /\ level # calls
      BY <1>3 DEF Destroys
    <2>2. AtMostOne(h)
      BY <2>1 DEF OInv, DyingOne
    <2>3. CASE h = host
      <3>1. level \in WorksOn(host)
        BY <2>1, <2>3, InWorksOn DEF Destroys
      <3>2. nested' = nested \cup {event}
        BY <1>2, <2>1, <3>1
      <3> QED BY <1>2, <1>5, <2>2, <2>3, <3>2 DEF AtMostOne
    <2>4. CASE h # host
      BY <1>2, <1>4, <2>2, <2>4 DEF AtMostOne
    <2> QED BY <2>3, <2>4
  <1>16. OvertakesOne'
    BY <1>2, <1>4, OvertakesSame
  <1>17. Ordered'
    BY <1>2, <1>8, <1>9, <1>10 DEF Ordered
  <1> QED BY <1>11, <1>12, <1>13, <1>14, <1>15, <1>16, <1>17 DEF OInv

LEMMA DispatchPendingOrder ==
    ASSUME IInv, IInv', OInv, NEW host \in Host, DispatchPending(host)
    PROVE  OInv'
  <1> DEFINE event == pendingEvents[host]
  <1>1. /\ host \in handles \/ \E level \in Level : Destroys(level, host)
        /\ event \in Event /\ event # Absent
        /\ pendingEvents' = [pendingEvents EXCEPT ![host] = Absent]
        /\ log' = [log EXCEPT ![host] = Append(log[host], event)]
        /\ log \in [Host -> Seq(Event)] /\ taken \in [Host -> Seq(Event)]
        /\ pendingEvents \in [Host -> Event \cup {Absent}]
        /\ UNCHANGED <<live, handles, frame, nested, taken, overtaken>>
    <2>1. event \in Event /\ event # NoEvent
      BY HostEventsAssumption DEF DispatchPending, IInv, TypeOK
    <2>2. WorksOn(host) \subseteq Level
      BY CallbacksAssumption DEF WorksOn, IInv, TypeOK, CallbacksTypeOK, Level
    <2>3. host \in handles \/ \E level \in Level : Destroys(level, host)
      BY <2>2 DEF DispatchPending, MayPoll, Dying, Destroys, WorksOn
    <2> QED BY <2>1, <2>3 DEF DispatchPending, takePendingEvent, Return, IInv, TypeOK
  <1>2. \A level \in Level, h \in Host : Holds(level, h)' <=> Holds(level, h)
    BY <1>1 DEF Holds
  <1>3. /\ log[host] \in Seq(Event) /\ log'[host] = Append(log[host], event)
        /\ pendingEvents'[host] = Absent
        /\ Range(log'[host]) = Range(log[host]) \cup {event}
        /\ \A h \in Host \ {host} : /\ pendingEvents'[h] = pendingEvents[h]
                                    /\ log'[h] = log[h]
    BY <1>1, RangeOfAppend
  <1>4. host \in handles => InOrder(host) /\ Waiting(host)
    BY <1>1 DEF OInv, Ordered
  <1>5. ASSUME host \in handles PROVE InOrder(host)'
    <2> SUFFICES ASSUME Range(taken[host]) \cap nested = {}
                 PROVE  \E left \in Leftovers :
                            left \o taken[host]
                            = log'[host] \o One(pendingEvents'[host]) \o HeldBy(host)'
      BY <1>1 DEF InOrder, Leftovers
    <2>1. HeldBy(host)' = HeldBy(host)
      BY <1>1, <1>2, HeldSame
    <2>2. \A level \in Level : ~ Holds(level, host)
      BY <1>1, NoneKept DEF Holds
    <2>3. HeldBy(host) = <<>>
      BY <2>2, HeldNone
    <2>4. One(event) = <<event>> /\ One(Absent) = <<>>
      BY <1>1, HostEventsAssumption DEF One
    <2>5. PICK left \in Leftovers : left \o taken[host] = log[host] \o <<event>> \o <<>>
      BY <1>4, <1>5, <2>3, <2>4 DEF InOrder
    <2>6. log[host] \o <<event>> \o <<>> = Append(log[host], event) \o <<>> \o <<>>
      BY <1>1, <1>3
    <2> QED BY <1>3, <2>1, <2>3, <2>4, <2>5, <2>6
  <1>6. host \in handles => Waiting(host)'
    BY <1>1, <1>2, <1>3, <1>4 DEF Waiting
  <1>7. ASSUME NEW h \in handles' \cap Host, h # host
        PROVE  InOrder(h)' /\ Waiting(h)'
    <2>1. InOrder(h) /\ Waiting(h)
      BY <1>1 DEF OInv, Ordered
    <2> QED BY <1>1, <1>2, <1>3, <1>7, <2>1, HostSame
  <1>8. PendingOfHandles' /\ KeptTaken' /\ HeldInTaken'
    BY <1>1, <1>2, <1>3 DEF OInv, PendingOfHandles, KeptTaken, HeldInTaken
  <1>9. Fresh'
    BY <1>1, <1>3, FreshOthers
  <1>10. DyingOne'
    <2>1. \A h \in Host : Range(log[h]) \subseteq Range(log'[h])
      BY <1>3
    <2> QED BY <1>1, <2>1 DEF OInv, DyingOne, AtMostOne, Destroys
  <1>11. OvertakesOne'
    BY <1>1, OvertakesSame
  <1>12. Ordered'
    BY <1>1, <1>5, <1>6, <1>7 DEF Ordered
  <1> QED BY <1>8, <1>9, <1>10, <1>11, <1>12 DEF OInv

LEMMA EndDispatchOrder ==
    ASSUME IInv, IInv', OInv, EndDispatch
    PROVE  OInv'
  <1>1. /\ calls \in Level /\ calls \in Nat /\ calls' = calls - 1 /\ running' = "js"
        /\ frame'[calls] = Idle
        /\ \A level \in Level \ {calls} : frame'[level] = frame[level]
    BY CallbacksAssumption, Popped DEF EndDispatch, IInv, TypeOK, CallbacksTypeOK
  <1>2. PICK host \in Host :
            /\ host = frame[calls].host
            /\ host \in handles \/ \E level \in Level : level < calls /\ Destroys(level, host)
    BY <1>1 DEF EndDispatch, EnetRuns, Top, IInv, FramesOK, PollsOK
  <1>3. PICK event \in Event \cup {NoEvent} : event = frame[calls].event
    BY <1>1 DEF IInv, TypeOK, Frame
  <1>4. CASE event = NoEvent
    <2>1. UNCHANGED <<live, pendingEvents, history>> /\ handles' = handles
      BY <1>3, <1>4 DEF EndDispatch, KeepEvent, Return, Top, history
    <2> QED BY <1>3, <1>4, <2>1, EndOrder DEF EndDispatch
  <1>5. CASE event # NoEvent
    <2>1. /\ Holds(calls, host) /\ event \in Event /\ event # Absent
          /\ frame[calls].op = "dispatch"
          /\ UNCHANGED <<live, handles, nested, taken, overtaken>>
      BY <1>2, <1>3, <1>5, HostEventsAssumption DEF EndDispatch, EnetRuns, Top, Holds
    <2>2. \A level \in Level, h \in Host :
              Holds(level, h)' <=> (Holds(level, h) /\ level # calls)
      <3>1. frame'[calls].op # "dispatch"
        BY <1>1 DEF Idle
      <3> QED BY <1>1, <3>1 DEF Holds
    <2>3. /\ log[host] \in Seq(Event) /\ taken[host] \in Seq(Event)
          /\ pendingEvents \in [Host -> Event \cup {Absent}] /\ log \in [Host -> Seq(Event)]
      BY <1>2 DEF IInv, TypeOK
    <2>4. \/ /\ pendingEvents' = pendingEvents
             /\ log' = [log EXCEPT ![host] = Append(log[host], event)]
          \/ /\ pendingEvents' = [pendingEvents EXCEPT ![host] = event]
             /\ log' = log
      BY <1>2, <1>3, <1>5 DEF EndDispatch, KeepEvent, Return, Top
    <2>5. Range(Append(log[host], event)) = Range(log[host]) \cup {event}
      BY <2>1, <2>3, RangeOfAppend
    <2>6. host \in handles => InOrder(host) /\ Waiting(host)
      BY <1>2 DEF OInv, Ordered
    <2>7. ASSUME host \in handles PROVE InOrder(host)'
      <3> SUFFICES ASSUME Range(taken[host]) \cap nested = {}
                   PROVE  \E left \in Leftovers :
                              left \o taken[host]
                              = log'[host] \o One(pendingEvents'[host]) \o HeldBy(host)'
        BY <2>1 DEF InOrder, Leftovers
      <3>1. \A level \in Level : Holds(level, host) => level = calls
        <4> SUFFICES ASSUME NEW level \in Level, Holds(level, host) PROVE level = calls
          OBVIOUS
        <4>1. level <= calls
          BY <1>1 DEF Holds, IInv, FramesOK, Idle, Level
        <4>2. ~ (level < calls)
          BY <1>1, <2>1, FirstHolds DEF Holds
        <4> QED BY <1>1, <4>1, <4>2 DEF Level
      <3>2. HeldBy(host) = <<event>>
        BY <1>1, <1>3, <2>1, <3>1, HeldOne
      <3>3. HeldBy(host)' = <<>>
        BY <2>2, <3>1, HeldNoneAfter
      <3>4. pendingEvents[host] = Absent
        BY <1>1, <1>2, <2>1, NoneKept
      <3>5. One(event) = <<event>> /\ One(Absent) = <<>>
        BY <2>1, HostEventsAssumption DEF One
      <3>6. PICK left \in Leftovers : left \o taken[host] = log[host] \o <<>> \o <<event>>
        BY <2>6, <2>7, <3>2, <3>4, <3>5 DEF InOrder
      <3>7. \/ log'[host] = Append(log[host], event) /\ One(pendingEvents'[host]) = <<>>
            \/ log'[host] = log[host] /\ One(pendingEvents'[host]) = <<event>>
        BY <2>3, <2>4, <3>4, <3>5
      <3>8. /\ log[host] \o <<>> \o <<event>> = Append(log[host], event)
            /\ Append(log[host], event) \o <<>> \o <<>> = Append(log[host], event)
            /\ log[host] \o <<event>> \o <<>> = Append(log[host], event)
        BY <2>1, <2>3
      <3> QED BY <3>3, <3>6, <3>7, <3>8
    <2>8. ASSUME host \in handles PROVE Waiting(host)'
      <3> SUFFICES ASSUME NEW e \in Range(taken[host]) \ nested
                   PROVE  \/ e \in Range(log'[host])
                          \/ pendingEvents'[host] = e
                          \/ \E level \in Level : Holds(level, host)' /\ frame'[level].event = e
        BY <2>1 DEF Waiting
      <3>1. e \in Range(log[host]) => e \in Range(log'[host])
        BY <2>3, <2>4, <2>5
      <3>2. pendingEvents[host] = e => pendingEvents[host] = Absent \/ pendingEvents' = pendingEvents
        BY <1>1, <1>2, <2>1, <2>4 DEF IInv, NestedInPolls
      <3>3. pendingEvents[host] = e => pendingEvents'[host] = e
        <4>1. e # Absent
          BY <2>3, HostEventsAssumption DEF Range
        <4> QED BY <3>2, <4>1
      <3>4. ASSUME NEW level \in Level, Holds(level, host), frame[level].event = e
            PROVE  \/ e \in Range(log'[host])
                   \/ pendingEvents'[host] = e
                   \/ Holds(level, host)' /\ frame'[level].event = e
        <4>1. CASE level = calls
          BY <1>3, <2>3, <2>4, <2>5, <3>4, <4>1
        <4>2. CASE level # calls
          BY <1>1, <2>2, <3>4, <4>2
        <4> QED BY <4>1, <4>2
      <3> QED BY <2>6, <2>8, <3>1, <3>3, <3>4 DEF Waiting
    <2>9. ASSUME NEW h \in handles' \cap Host, h # host
          PROVE  InOrder(h)' /\ Waiting(h)'
      <3>1. InOrder(h) /\ Waiting(h)
        BY <2>1 DEF OInv, Ordered
      <3>2. pendingEvents'[h] = pendingEvents[h] /\ log'[h] = log[h] /\ taken'[h] = taken[h]
        BY <2>1, <2>3, <2>4, <2>9
      <3>3. \A level \in Level :
                /\ Holds(level, h)' <=> Holds(level, h)
                /\ Holds(level, h) => frame'[level].event = frame[level].event
        BY <1>1, <1>2, <2>2, <2>9 DEF Holds
      <3> QED BY <2>1, <3>1, <3>2, <3>3, HostSame
    <2>10. PendingOfHandles'
      <3>1. host \in handles \/ event \in nested
        <4> SUFFICES ASSUME NEW level \in Level, level < calls, Destroys(level, host)
                     PROVE  event \in nested
          BY <1>2
        <4>1. /\ frame[level].op \in {"dispatch", "destroyPacket", "destroyHost"}
              /\ frame[level].host = frame[calls].host
              /\ frame[calls].event # NoEvent
          BY <1>2, <1>3, <1>5 DEF Destroys
        <4> QED BY <1>1, <1>3, <2>1, <4>1 DEF IInv, NestedInPolls
      <3> QED BY <2>1, <2>3, <2>4, <3>1 DEF OInv, PendingOfHandles
    <2>11. KeptTaken'
      <3>1. event \in Range(taken[host])
        BY <1>1, <1>3, <2>1 DEF OInv, HeldInTaken
      <3>2. \A level \in Level : frame'[level].op = "dispatch" => frame'[level] = frame[level]
        BY <1>1 DEF Idle
      <3> QED BY <2>1, <2>3, <2>4, <3>1, <3>2 DEF OInv, KeptTaken
    <2>12. HeldInTaken'
      BY <1>1, <2>1, <2>2 DEF OInv, HeldInTaken
    <2>13. Fresh'
      <3>1. \A h \in Host \ {host} : log'[h] = log[h]
        BY <2>3, <2>4
      <3>2. \A level \in Level : \/ frame'[level].op \notin {"create", "createCoder"}
                                \/ frame'[level] = frame[level]
        <4>1. frame'[calls].op = "idle"
          BY <1>1 DEF Idle
        <4> QED BY <1>1, <4>1
      <3> QED BY <1>2, <2>1, <3>1, <3>2, FreshOthers
    <2>14. DyingOne'
      <3>1. \A h \in Host : Range(log[h]) \subseteq Range(log'[h])
        BY <2>3, <2>4, <2>5
      <3>2. \A level \in Level, h \in Host : Destroys(level, h)' => Destroys(level, h)
        BY <1>1 DEF Destroys, Idle
      <3> QED BY <2>1, <3>1, <3>2 DEF OInv, DyingOne, AtMostOne
    <2>15. OvertakesOne'
      BY <2>1, OvertakesSame
    <2>16. Ordered'
      BY <2>1, <2>7, <2>8, <2>9 DEF Ordered
    <2> QED BY <2>10, <2>11, <2>12, <2>13, <2>14, <2>15, <2>16 DEF OInv
  <1> QED BY <1>4, <1>5

LEMMA EndCreateOrder ==
    ASSUME IInv, IInv', OInv, EndCreate
    PROVE  OInv'
  <1>1. /\ calls \in Level /\ calls \in Nat /\ running' = "js"
        /\ frame'[calls] = Idle
        /\ \A level \in Level \ {calls} : frame'[level] = frame[level]
        /\ UNCHANGED <<live, pendingEvents, nested, taken, log, overtaken>>
    BY CallbacksAssumption, Popped DEF EndCreate, IInv, TypeOK, CallbacksTypeOK, history
  <1>2. frame[calls].op \in {"create", "createCoder", "refused"} /\ frame[calls].event = NoEvent
    BY <1>1 DEF EndCreate, EnetRuns, Top, IInv, FramesOK
  <1>3. CASE handles' \cap Host = handles \cap Host
    BY <1>1, <1>2, <1>3, EndOrder DEF EndCreate
  <1>4. CASE handles' \cap Host # handles \cap Host
    <2>1. PICK host \in Host : /\ host = frame[calls].host
                               /\ host \notin handles
                               /\ handles' = handles \cup {host}
      BY <1>1, <1>4 DEF EndCreate, Top
    <2>2. frame[calls].op \in {"create", "createCoder"}
      BY <1>1, <1>2, <2>1, HostEventsAssumption DEF IInv, FramesOK, Object
    <2>3. \A level \in Level, h \in Host :
              /\ Holds(level, h)' <=> Holds(level, h)
              /\ Holds(level, h) => frame'[level].event = frame[level].event
      BY <1>1, <2>2 DEF Holds, Idle
    <2>4. taken[host] = <<>> /\ log[host] = <<>>
      BY <1>1, <2>1, <2>2 DEF OInv, Fresh
    <2>5. \A level \in Level : frame[level].op = "dispatch" => frame[level].host # host
      <3> SUFFICES ASSUME NEW level \in Level, frame[level].op = "dispatch",
                          frame[level].host = host
                   PROVE  FALSE
        OBVIOUS
      <3>1. PICK i \in Level : Destroys(i, host)
        BY <2>1 DEF IInv, PollsOK
      <3> QED BY <1>1, <2>1, <2>2, <3>1, Old
    <2>6. HeldBy(host)' = <<>>
      BY <2>3, <2>5, HeldNoneAfter DEF Holds
    <2>7. One(pendingEvents[host]) \in Leftovers
      BY <2>1, HostEventsAssumption DEF OInv, PendingOfHandles, One, Leftovers
    <2>8. InOrder(host)'
      <3>1. One(pendingEvents[host]) \o <<>> = <<>> \o One(pendingEvents[host]) \o <<>>
        BY HostEventsAssumption DEF One
      <3> QED BY <1>1, <2>4, <2>6, <2>7, <3>1 DEF InOrder, Leftovers
    <2>9. Waiting(host)'
      BY <1>1, <2>4 DEF Waiting, Range
    <2>10. ASSUME NEW h \in handles' \cap Host, h # host
           PROVE  InOrder(h)' /\ Waiting(h)'
      <3>1. InOrder(h) /\ Waiting(h)
        BY <2>1, <2>10 DEF OInv, Ordered
      <3> QED BY <1>1, <2>3, <3>1, HostSame
    <2>11. PendingOfHandles'
      BY <1>1, <2>1 DEF OInv, PendingOfHandles
    <2>12. KeptTaken'
      <3>1. \A level \in Level : frame'[level].op = "dispatch" => frame'[level] = frame[level]
        BY <1>1 DEF Idle
      <3> QED BY <1>1, <3>1 DEF OInv, KeptTaken
    <2>13. HeldInTaken'
      BY <1>1, <2>3 DEF OInv, HeldInTaken
    <2>14. Fresh'
      <3>1. \A level \in Level : \/ frame'[level].op \notin {"create", "createCoder"}
                                \/ frame'[level] = frame[level]
        <4>1. frame'[calls].op = "idle"
          BY <1>1 DEF Idle
        <4> QED BY <1>1, <4>1
      <3> QED BY <1>1, <3>1, FreshSame
    <2>15. DyingOne'
      <3>1. \A level \in Level, h \in Host : Destroys(level, h)' => Destroys(level, h)
        BY <1>1 DEF Destroys, Idle
      <3> QED BY <1>1, <3>1, DyingSame
    <2>16. OvertakesOne'
      BY <1>1, OvertakesSame
    <2>17. Ordered'
      BY <2>8, <2>9, <2>10 DEF Ordered
    <2> QED BY <2>11, <2>12, <2>13, <2>14, <2>15, <2>16, <2>17 DEF OInv
  <1> QED BY <1>3, <1>4

\* Of the events a host has taken and not returned, at most one was not polled
\* for in a poll of the same host.
LEMMA OneWaits ==
    ASSUME IInv, OInv, NEW host \in handles \cap Host,
           NEW e \in (Range(taken[host]) \ Range(log[host])) \ nested,
           NEW f \in (Range(taken[host]) \ Range(log[host])) \ nested
    PROVE  e = f
  <1>1. /\ e \in Event /\ f \in Event /\ Waiting(host)
    BY DEF IInv, TypeOK, OInv, Ordered, Range
  <1>2. \A event \in {e, f} :
            \/ pendingEvents[host] = event
            \/ \E level \in Level : Holds(level, host) /\ frame[level].event = event
    BY <1>1 DEF Waiting
  <1>3. pendingEvents[host] # Absent /\ pendingEvents[host] \notin nested
        => \A level \in Level : ~ Holds(level, host)
    BY DEF Holds, IInv, NestedInPolls
  <1>4. \A i, j \in Level :
            /\ Holds(i, host) /\ Holds(j, host)
            /\ frame[i].event \notin nested /\ frame[j].event \notin nested
            => ~ (i < j)
    BY DEF Holds, IInv, NestedInPolls
  <1>5. \A i, j \in Level :
            /\ Holds(i, host) /\ Holds(j, host)
            /\ frame[i].event \notin nested /\ frame[j].event \notin nested
            => i = j
    BY <1>4 DEF Level
  <1>6. e # Absent /\ f # Absent
    BY <1>1, HostEventsAssumption
  <1> QED BY <1>2, <1>3, <1>5, <1>6

LEMMA ReceiveFromPeerOrder ==
    ASSUME IInv, IInv', OInv, NEW host \in Host, NEW packet \in Receive,
           ReceiveFromPeer(host, packet)
    PROVE  OInv'
  <1> DEFINE past == Range(taken[host]) \ Range(log[host])
  <1>1. /\ host \in handles \/ \E level \in Level : Destroys(level, host)
        /\ overtaken' = [overtaken EXCEPT ![packet] = past]
        /\ overtaken \in [Receive -> SUBSET Event]
        /\ UNCHANGED <<live, handles, pendingEvents, frame, nested, taken, log>>
    <2>1. WorksOn(host) \subseteq Level
      BY CallbacksAssumption DEF WorksOn, IInv, TypeOK, CallbacksTypeOK, Level
    <2>2. host \in handles \/ \E level \in Level : Destroys(level, host)
      BY <2>1 DEF ReceiveFromPeer, Dying, Destroys, WorksOn
    <2> QED BY <2>2 DEF ReceiveFromPeer, IInv, TypeOK
  <1>2. AtMostOne(host)
    BY <1>1, OneWaits DEF OInv, DyingOne, AtMostOne
  <1>3. \A e, f \in past \ nested : e = f
    BY <1>2 DEF AtMostOne
  <1> HIDE DEF past
  <1>4. OvertakesOne'
    BY <1>1, <1>3 DEF OInv, OvertakesOne
  <1>5. Fresh'
    BY <1>1, FreshSame
  <1> QED BY <1>1, <1>4, <1>5, QuietStep DEF Destroys

LEMMA BeginDestroyOrder ==
    ASSUME IInv, IInv', OInv, NEW host \in Host, BeginDestroy(host)
    PROVE  OInv'
  <1>1. /\ host \in handles /\ handles' = handles \ {host}
        /\ pendingEvents' = [pendingEvents EXCEPT ![host] = Absent]
        /\ pendingEvents \in [Host -> Event \cup {Absent}]
        /\ UNCHANGED <<live, nested, taken, log, overtaken>>
    BY DEF BeginDestroy, takePendingEvent, IInv, TypeOK
  <1>2. PICK op \in {"destroyPacket", "destroyHost"}, event \in Event \cup {NoEvent} :
            Push(op, host, event)
    BY HostEventsAssumption DEF BeginDestroy
  <1>3. [op |-> op, host |-> host, event |-> event] \in Frame \ {Idle} /\ op # "idle"
    BY DEF Frame, Idle, Object
  <1>4. /\ calls' \in Level
        /\ frame[calls'] = Idle
        /\ frame'[calls'] = [op |-> op, host |-> host, event |-> event]
        /\ \A level \in Level \ {calls'} : frame'[level] = frame[level]
    BY <1>2, <1>3, Pushed DEF IInv
  <1>5. /\ pendingEvents'[host] = Absent
        /\ \A h \in Host \ {host} : pendingEvents'[h] = pendingEvents[h]
    BY <1>1
  <1>6. /\ frame[calls'].op = "idle"
        /\ frame'[calls'].op \in {"destroyPacket", "destroyHost"} /\ frame'[calls'].host = host
    BY <1>4 DEF Idle
  <1>7. \A level \in Level :
            \/ frame'[level] = frame[level]
            \/ frame'[level].op # "dispatch" /\ frame[level].op # "dispatch"
    BY <1>4, <1>6
  <1>8. \A level \in Level, h \in Host :
            /\ Holds(level, h)' <=> Holds(level, h)
            /\ Holds(level, h) => frame'[level].event = frame[level].event
    BY <1>7 DEF Holds
  <1>9. PendingOfHandles'
    BY <1>1, <1>5 DEF OInv, PendingOfHandles
  <1>10. KeptTaken'
    BY <1>1, <1>5, <1>7 DEF OInv, KeptTaken
  <1>11. HeldInTaken'
    BY <1>1, <1>8 DEF OInv, HeldInTaken
  <1>12. Fresh'
    BY <1>1, <1>4, <1>6, FreshSame
  <1>13. DyingOne'
    <2>1. AtMostOne(host)
      BY <1>1, OneWaits DEF AtMostOne
    <2>2. \A level \in Level, h \in Host : Destroys(level, h)' => Destroys(level, h) \/ h = host
      BY <1>4, <1>6 DEF Destroys
    <2> QED BY <1>1, <2>1, <2>2 DEF OInv, DyingOne, AtMostOne
  <1>14. ASSUME NEW h \in handles' \cap Host PROVE InOrder(h)' /\ Waiting(h)'
    <2>1. InOrder(h) /\ Waiting(h) /\ h # host
      BY <1>1, <1>14 DEF OInv, Ordered
    <2> QED BY <1>1, <1>5, <1>8, <2>1, HostSame
  <1>15. OvertakesOne'
    BY <1>1, OvertakesSame
  <1> QED BY <1>9, <1>10, <1>11, <1>12, <1>13, <1>14, <1>15 DEF OInv, Ordered

LEMMA NextOrder ==
    ASSUME IInv, IInv', OInv, [Next]_vars
    PROVE  OInv'
  <1>1. CASE OtherCall \/ BeginCreate \/ BeginCreateCoder
    BY <1>1, BeginOrder DEF OtherCall, BeginCreate, BeginCreateCoder
  <1>2. CASE EndOtherCall
    <2>1. calls \in Level
      BY <1>2, Popped DEF EndOtherCall, IInv
    <2>2. frame[calls].event = NoEvent
      BY <1>2, <2>1 DEF EndOtherCall, EnetRuns, Top, IInv, FramesOK
    <2> QED BY <1>2, <2>2, EndOrder DEF EndOtherCall
  <1>3. CASE Callback
    BY <1>3, CallbackOrder
  <1>4. CASE HandlerReturns \/ HandlerFails \/ Catch \/ UNCHANGED vars
    BY <1>4, HandlerOrder DEF HandlerReturns, HandlerFails, Catch, vars
  <1>5. CASE EndCreate \/ EndDispatch \/ EndDestroyPacket \/ EndDestroyHost
    BY <1>5, EndCreateOrder, EndDispatchOrder, EndDestroyPacketOrder, EndDestroyHostOrder
  <1>6. ASSUME NEW event \in Event, TakeEvent(event) PROVE OInv'
    BY <1>6, TakeEventOrder
  <1>7. ASSUME NEW object \in Object, Allocate(object) PROVE OInv'
    BY <1>7, AllocateOrder
  <1>8. ASSUME NEW host \in Host, BeginDispatch(host) PROVE OInv'
    BY <1>8, BeginOrder, HostEventsAssumption DEF BeginDispatch, Object
  <1>9. ASSUME NEW host \in Host,
               \/ DispatchPending(host)
               \/ \E packet \in Receive : ReceiveFromPeer(host, packet)
               \/ BeginDestroy(host)
        PROVE  OInv'
    BY <1>9, DispatchPendingOrder, ReceiveFromPeerOrder, BeginDestroyOrder
  <1>10. ASSUME NEW coder \in Coder, DestroyCoder(coder) PROVE OInv'
    BY <1>10, DestroyCoderOrder
  <1> QED
    BY <1>1, <1>2, <1>3, <1>4, <1>5, <1>6, <1>7, <1>8, <1>9, <1>10 DEF Next, Poll

LEMMA OrderInductive == Spec => []OInv
  <1>1. IInv /\ IInv' /\ OInv /\ [Next]_vars => OInv'
    BY NextOrder
  <1> QED BY InitOInv, <1>1, Inductive, PTL DEF Spec

\* host.ts 33, 80-90, 141-155, peer.ts 100-113: no event that ENet handed over is
\* lost, left behind by its host, returned twice or returned after its packet was
\* destroyed, except that one polled for in a poll or in the destroy of its host can
\* be in no place.
THEOREM ConservedTheorem == Spec => []EventsConserved
  <1>1. ASSUME IInv, OInv PROVE EventsConserved
    <2> SUFFICES ASSUME NEW event \in used
                 PROVE  \/ \E place \in Places(event) : Places(event) = {place}
                        \/ event \in nested /\ Places(event) = {}
      BY DEF EventsConserved
    <2>1. /\ event \in Event /\ event # NoEvent /\ event # Absent
          /\ frame \in [Level -> Frame] /\ pendingEvents \in [Host -> Event \cup {Absent}]
      BY <1>1, HostEventsAssumption DEF IInv, TypeOK
    <2>2. \A p, q \in Places(event) : p = q
      BY <1>1, <2>1 DEF Places, IInv, OnePlace
    <2>3. event \notin nested => Places(event) # {}
      <3> SUFFICES ASSUME event \notin nested PROVE Places(event) # {}
        OBVIOUS
      <3>1. CASE \E host \in Host : pendingEvents[host] = event
        <4>1. PICK host \in Host : pendingEvents[host] = event
          BY <3>1
        <4>2. event \in Range(taken[host])
          BY <1>1, <2>1, <4>1 DEF OInv, KeptTaken
        <4>3. host \in live
          BY <1>1, <2>1, <4>1 DEF OInv, PendingOfHandles, IInv, TypeOK
        <4>4. <<"kept", host>> \in Places(event)
          BY <4>1, <4>2, <4>3 DEF Places
        <4> QED BY <4>4
      <3>2. CASE \A host \in Host : pendingEvents[host] # event
        BY <1>1, <3>2, ZenonT(30) DEF IInv, SomePlace, InSomePlace, Places
      <3> QED BY <3>1, <3>2
    <2> QED BY <2>2, <2>3
  <1> QED BY <1>1, Inductive, OrderInductive, PTL

\* host.ts 93-113, 141-143, 178-181: what the polls of a host have returned, then the
\* event kept for it, then the one a poll in progress holds, are the events its polls
\* took, in order, unless a poll of the host was in another.  Before them can be one
\* event, which was polled for while an earlier host at the pointer was destroyed.
THEOREM OrderedTheorem == Spec => []ReturnedInOrder
  <1>1. OInv => ReturnedInOrder
    BY DEF OInv, Ordered, InOrder, Leftovers, ReturnedInOrder, PolledApart
  <1> QED BY <1>1, OrderInductive, PTL

\* peer.ts 100-113: a packet that enet.peer.receive returns is ahead of at most one
\* event taken before it, not counting those of polls in a poll or in a destroy.
THEOREM OvertakesTheorem == Spec => []OvertakesAtMostOne
  <1>1. ASSUME NEW S, \A e, f \in S : e = f PROVE Cardinality(S) <= 1
    <2>1. CASE S = {}
      BY <2>1, FS_EmptySet
    <2>2. CASE S # {}
      <3>1. PICK e : S = {e}
        BY <1>1, <2>2
      <3> QED BY <3>1, FS_Singleton
    <2> QED BY <2>1, <2>2
  <1>2. OInv => OvertakesAtMostOne
    BY <1>1 DEF OInv, OvertakesOne, OvertakesAtMostOne
  <1> QED BY <1>2, OrderInductive, PTL

-----------------------------------------------------------------------------
\* Every object has a handle, or a call in progress creates or destroys it.
LEMMA LeakStep ==
    ASSUME NestAfterError = FALSE, IInv, IInv', NoHostLeaked, [Next]_vars
    PROVE  NoHostLeaked'
  <1> SUFFICES ASSUME NEW object \in live' \ handles'
               PROVE  \E level \in 1..calls' : frame'[level].host = object
    BY DEF NoHostLeaked
  <1> USE HostEventsAssumption
  <1>1. /\ object \in Object /\ object # NoHost
        /\ calls \in Nat /\ calls' \in Nat /\ 1..calls \subseteq Level /\ 1..calls' \subseteq Level
        /\ frame \in [Level -> Frame]
    BY CallbacksAssumption DEF IInv, TypeOK, CallbacksTypeOK, Level
  <1>2. SUFFICES \E level \in Level : frame'[level].host = object
    BY <1>1 DEF IInv, TypeOK, FramesOK, Idle, Level
  <1>3. ASSUME NEW level \in 1..calls, frame[level].host = object, object \in live \ handles,
               frame[level].op # "dispatch"
        PROVE  frame'[level].host = object
    <2>1. CASE EndCreate
      <3>1. frame' = [frame EXCEPT ![calls] = Idle]
        BY <2>1 DEF EndCreate, Pop
      <3>2. level # calls
        <4> SUFFICES ASSUME level = calls PROVE FALSE
          OBVIOUS
        <4>1. frame[calls].op \in {"create", "createCoder"} /\ FirstError = NoError
          BY <1>1, <1>3, <2>1 DEF EndCreate, EnetRuns, Top, IInv, FramesOK, FirstError
        <4> QED BY <1>1, <1>3, <2>1, <4>1 DEF EndCreate, Top
      <3> QED BY <1>1, <1>3, <3>1, <3>2
    <2>2. CASE EndDispatch \/ EndOtherCall \/ EndDestroyHost
      <3>1. frame' = [frame EXCEPT ![calls] = Idle]
        BY <2>2 DEF EndDispatch, EndOtherCall, EndDestroyHost, Pop
      <3>2. level # calls
        BY <1>1, <1>3, <2>2
        DEF EndDispatch, EndOtherCall, EndDestroyHost, EnetRuns, Top, IInv, FramesOK
      <3> QED BY <1>1, <1>3, <3>1, <3>2
    <2>3. ASSUME NEW op, NEW host, NEW event, Push(op, host, event)
          PROVE  frame'[level].host = object
      BY <1>1, <1>3, <2>3 DEF Push
    <2>4. CASE \/ OtherCall \/ BeginCreate \/ BeginCreateCoder
               \/ \E host \in Host : BeginDispatch(host) \/ BeginDestroy(host)
      BY <2>3, <2>4 DEF OtherCall, BeginCreate, BeginCreateCoder, BeginDispatch, BeginDestroy
    <2>5. ASSUME NEW new \in Object, Allocate(new) PROVE frame'[level].host = object
      BY <1>1, <1>3, <2>5 DEF Allocate, Top
    <2>6. CASE Callback \/ EndDestroyPacket \/ \E event \in Event : TakeEvent(event)
      <3>1. /\ frame[level] \in Frame
            /\ \/ frame' = frame
               \/ frame' = [frame EXCEPT ![calls].op = "refused"]
               \/ frame' = [frame EXCEPT ![calls].op = "destroyHost", ![calls].event = NoEvent]
               \/ \E event \in Event : frame' = [frame EXCEPT ![calls].event = event]
        BY <1>1, <2>6 DEF Callback, EndDestroyPacket, TakeEvent
      <3> QED BY <1>1, <1>3, <3>1 DEF Frame
    <2>7. CASE frame' = frame
      BY <1>3, <2>7
    <2> QED
      BY <2>1, <2>2, <2>4, <2>5, <2>6, <2>7
      DEF Next, Poll, DispatchPending, ReceiveFromPeer, DestroyCoder, HandlerReturns,
          HandlerFails, Catch, heVars, vars
  <1>4. CASE object \in live \ handles
    <2>1. PICK level \in 1..calls : frame[level].host = object
      BY <1>4 DEF NoHostLeaked
    <2>2. CASE frame[level].op = "dispatch"
      <3>1. PICK i \in Level : i < level /\ Destroys(i, object)
        BY <1>1, <1>4, <2>1, <2>2 DEF IInv, PollsOK
      <3>2. i \in 1..calls
        BY <1>1, <2>1, <3>1 DEF Level
      <3> QED BY <1>1, <1>3, <1>4, <3>1, <3>2 DEF Destroys
    <2>3. CASE frame[level].op # "dispatch"
      BY <1>1, <1>3, <1>4, <2>1, <2>3
    <2> QED BY <2>2, <2>3
  <1>5. CASE object \notin live \ handles
    <2>1. ASSUME NEW new \in Object, Allocate(new) PROVE frame'[calls].host = object /\ calls \in Level
      <3>1. object = new /\ calls \in Level
        BY <1>1, <1>5, <2>1 DEF Allocate, EnetRuns, IInv, TypeOK, CallbacksTypeOK, Level
      <3> QED BY <1>1, <2>1, <3>1 DEF Allocate, Frame
    <2>2. ASSUME NEW host \in Host, BeginDestroy(host)
          PROVE  frame'[calls + 1].host = object /\ calls + 1 \in Level
      <3>1. object = host /\ calls + 1 \in Level
        BY <1>1, <1>5, <2>2 DEF BeginDestroy, Push, BeginCall, Level, IInv, TypeOK, CallbacksTypeOK
      <3>2. Push("destroyPacket", host, pendingEvents[host]) \/ Push("destroyHost", host, NoEvent)
        BY <2>2 DEF BeginDestroy
      <3> QED BY <1>1, <3>1, <3>2 DEF Push
    <2>3. CASE live' = live /\ handles' = handles
      BY <1>5, <2>3
    <2>4. CASE EndCreate \/ EndDestroyHost \/ \E coder \in Coder : DestroyCoder(coder)
      BY <1>5, <2>4 DEF EndCreate, EndDestroyHost, DestroyCoder
    <2>5. \/ \E new \in Object : Allocate(new)
          \/ \E host \in Host : BeginDestroy(host)
          \/ EndCreate \/ EndDestroyHost \/ \E coder \in Coder : DestroyCoder(coder)
          \/ live' = live /\ handles' = handles
      BY DEF Next, vars, heVars, OtherCall, EndOtherCall, Callback, HandlerReturns, HandlerFails,
         Catch, BeginCreate, BeginCreateCoder, EndDispatch, EndDestroyPacket, TakeEvent, Poll,
         DispatchPending, BeginDispatch, ReceiveFromPeer
    <2> QED BY <2>1, <2>2, <2>3, <2>4, <2>5
  <1> QED BY <1>4, <1>5

\* host.ts 115-133, range-coder.ts 14-24: when no handler makes native calls while
\* an error waits, no host and no range coder is ever without a handle.
THEOREM LeakTheorem == NestAfterError = FALSE /\ Spec => []NoHostLeaked
  <1> SUFFICES ASSUME NestAfterError = FALSE PROVE Spec => []NoHostLeaked
    OBVIOUS
  <1>1. Init => NoHostLeaked
    BY DEF Init, NoHostLeaked
  <1>2. IInv /\ IInv' /\ NoHostLeaked /\ [Next]_vars => NoHostLeaked'
    BY LeakStep
  <1> QED BY <1>1, <1>2, Inductive, PTL DEF Spec
=============================================================================
