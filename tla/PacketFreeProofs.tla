-------------------------- MODULE PacketFreeProofs --------------------------
(***************************************************************************)
(* Theorems about PacketFree, for any number of packets, handlers, errors  *)
(* and nested calls, when no free callback assigns the free callback of    *)
(* the packet that is being freed.                                         *)
(***************************************************************************)
EXTENDS PacketFree, TLAPS

\* The Map and the field of a packet that is not being freed say what the program
\* assigned, whether it has a handle of the packet or not.
EntriesAreAssigned ==
    \A packet \in allocated :
        ~BeingFreed(packet) =>
            /\ freeCallbacks[packet] = assigned[packet]
            /\ field[packet] = (assigned[packet] # Absent)

\* No two calls free one packet.
FreedByOneCall ==
    \A i, j \in 1..calls : freeing[i] = freeing[j] /\ i # j => freeing[i] = NoPacket

\* A call that frees a packet runs what was assigned to it.
RunsAssigned ==
    \A level \in 1..calls :
        freeing[level] # NoPacket => handler[level] = assigned[freeing[level]]

\* The inductive invariant.
IInv ==
    /\ TypeOK
    /\ EntriesAreAssigned
    /\ NoStaleEntry
    /\ FreedByOneCall
    /\ RunsAssigned

-----------------------------------------------------------------------------
(* The stack of calls.                                                     *)

LEMMA CallTypes ==
    ASSUME CallbacksTypeOK, BeginCall \/ EndCall
    PROVE  CallbacksTypeOK'
  <1> USE CallbacksAssumption DEF CallbacksTypeOK
  <1>1. CASE BeginCall
    BY <1>1 DEF BeginCall, JsRuns
  <1>2. CASE EndCall
    BY <1>2 DEF EndCall, FirstError
  <1> QED BY <1>1, <1>2

LEMMA HandlerTypes ==
    ASSUME CallbacksTypeOK,
           \/ BeginCallback \/ EndCallback \/ PropagateError \/ CatchError
           \/ \E error \in Error : FailCallback(error)
    PROVE  CallbacksTypeOK' /\ calls' = calls
  <1> USE CallbacksAssumption DEF CallbacksTypeOK
  <1>1. ASSUME NEW error \in Error, Record(error)
        PROVE  CallbacksTypeOK' /\ calls' = calls
    <2>1. Append(callbackErrors, error) \in Seq(Error)
      OBVIOUS
    <2> QED BY <1>1, <2>1 DEF Record, InHandler
  <1>2. CASE BeginCallback \/ CatchError
    BY <1>2 DEF BeginCallback, CatchError
  <1>3. CASE EndCallback
    BY <1>3 DEF EndCallback, InHandler, JsRuns
  <1>4. CASE PropagateError
    BY <1>1, <1>4 DEF PropagateError
  <1>5. ASSUME NEW error \in Error, FailCallback(error)
        PROVE  CallbacksTypeOK' /\ calls' = calls
    BY <1>1, <1>5 DEF FailCallback
  <1> QED BY <1>2, <1>3, <1>4, <1>5

\* The level of a call in progress is one of Level.
LEMMA Levels ==
    ASSUME CallbacksTypeOK
    PROVE  1..calls \subseteq Level /\ (running = "enet" => calls \in 1..calls)
  BY CallbacksAssumption DEF CallbacksTypeOK, Level

\* A step that leaves the packets alone, and the calls that free one.
LEMMA StackInv ==
    ASSUME IInv, CallbacksTypeOK', UNCHANGED pfVars,
           \/ calls' = calls
           \/ calls' = calls + 1
           \/ calls' = calls - 1 /\ freeing[calls] = NoPacket
    PROVE  IInv'
  <1> USE CallbacksAssumption, PacketFreeAssumption DEF IInv, pfVars
  <1>1. calls \in Nat /\ calls' \in Nat /\ 1..calls \subseteq Level /\ 1..calls' \subseteq Level
    BY DEF TypeOK, CallbacksTypeOK, Level
  <1>2. \A level \in Level : level > calls' => freeing[level] = NoPacket
    BY <1>1 DEF TypeOK, Level
  <1>3. \A packet \in Packet : BeingFreed(packet)' = BeingFreed(packet)
    BY <1>1, <1>2 DEF BeingFreed, TypeOK, Level
  <1>4. TypeOK'
    BY <1>2 DEF TypeOK
  <1>5. EntriesAreAssigned' /\ NoStaleEntry'
    BY <1>3 DEF TypeOK, EntriesAreAssigned, NoStaleEntry
  <1>6. FreedByOneCall' /\ RunsAssigned'
    BY <1>1, <1>2 DEF TypeOK, FreedByOneCall, RunsAssigned, Level
  <1> QED BY <1>4, <1>5, <1>6

-----------------------------------------------------------------------------
(* One lemma for each action that changes a packet.                        *)

LEMMA InitInv == Init => IInv
  <1> SUFFICES ASSUME Init PROVE IInv
    OBVIOUS
  <1> USE CallbacksAssumption, PacketFreeAssumption DEF Init, CallbacksInit
  <1>1. TypeOK
    BY DEF TypeOK, CallbacksTypeOK, Level
  <1> QED
    BY <1>1 DEF IInv, EntriesAreAssigned, NoStaleEntry, FreedByOneCall, RunsAssigned

LEMMA AllocateInv ==
    ASSUME IInv, NEW packet \in Packet, Allocate(packet)
    PROVE  IInv'
  <1> USE PacketFreeAssumption DEF IInv, TypeOK, Allocate, cbVars
  <1>1. TypeOK'
    BY DEF CallbacksTypeOK
  <1>2. \A p \in Packet : BeingFreed(p)' = BeingFreed(p)
    BY DEF BeingFreed
  <1>3. EntriesAreAssigned' /\ NoStaleEntry'
    BY <1>2 DEF EntriesAreAssigned, NoStaleEntry
  <1>4. FreedByOneCall' /\ RunsAssigned'
    BY Levels DEF FreedByOneCall, RunsAssigned
  <1> QED BY <1>1, <1>3, <1>4

LEMMA SetFreeCallbackInv ==
    ASSUME SetInHandler = FALSE, IInv, NEW packet \in Packet,
           NEW value \in Handler \cup {Absent}, SetFreeCallback(packet, value)
    PROVE  IInv'
  <1> USE PacketFreeAssumption DEF IInv, TypeOK, SetFreeCallback, Installed, cbVars
  <1>1. TypeOK'
    BY DEF CallbacksTypeOK
  <1>2. \A p \in Packet : BeingFreed(p)' = BeingFreed(p)
    BY DEF BeingFreed
  <1>3. EntriesAreAssigned' /\ NoStaleEntry'
    BY <1>2 DEF EntriesAreAssigned, NoStaleEntry
  <1>4. FreedByOneCall' /\ RunsAssigned'
    BY Levels DEF FreedByOneCall, RunsAssigned, BeingFreed
  <1> QED BY <1>1, <1>3, <1>4

LEMMA FreeSilentlyInv ==
    ASSUME IInv, NEW packet \in Packet, FreeSilently(packet)
    PROVE  IInv'
  <1> USE PacketFreeAssumption DEF IInv, TypeOK, FreeSilently, cbVars
  <1>1. \A level \in Level : freeing[level] # packet
    BY CallbacksAssumption DEF BeingFreed, Level, CallbacksTypeOK
  <1>2. TypeOK'
    BY <1>1 DEF CallbacksTypeOK
  <1>3. \A p \in Packet : BeingFreed(p)' = BeingFreed(p)
    BY DEF BeingFreed
  <1>4. EntriesAreAssigned' /\ NoStaleEntry'
    BY <1>3 DEF EntriesAreAssigned, NoStaleEntry
  <1>5. FreedByOneCall' /\ RunsAssigned'
    BY DEF FreedByOneCall, RunsAssigned
  <1> QED BY <1>2, <1>4, <1>5

LEMMA BeginFreeInv ==
    ASSUME IInv, NEW packet \in Packet, BeginFree(packet)
    PROVE  IInv'
  <1> USE PacketFreeAssumption DEF IInv, TypeOK, BeginFree, EnetRuns, Forget
  <1>1. CallbacksTypeOK' /\ calls' = calls
    BY HandlerTypes
  <1>2. calls \in 1..calls /\ 1..calls \subseteq Level /\ packet # NoPacket
    BY Levels
  <1>3. TypeOK'
    BY <1>1, <1>2 DEF CallbacksTypeOK
  <1>4. \A p \in Packet : BeingFreed(p)' <=> BeingFreed(p) \/ p = packet
    BY <1>1, <1>2 DEF BeingFreed
  <1>5. EntriesAreAssigned' /\ NoStaleEntry'
    BY <1>4 DEF EntriesAreAssigned, NoStaleEntry
  <1>6. FreedByOneCall'
    BY <1>1, <1>2 DEF FreedByOneCall, BeingFreed
  <1>7. RunsAssigned'
    BY <1>1, <1>2 DEF RunsAssigned, EntriesAreAssigned
  <1> QED BY <1>3, <1>5, <1>6, <1>7

LEMMA EndFreeInv ==
    ASSUME IInv, EndFree
    PROVE  IInv'
  <1> USE PacketFreeAssumption DEF IInv, TypeOK, EndFree, cbVars
  <1>1. calls \in 1..calls /\ 1..calls \subseteq Level
    BY Levels
  <1>2. \A level \in Level : level # calls => freeing[level] # freeing[calls]
    BY <1>1, CallbacksAssumption DEF FreedByOneCall, CallbacksTypeOK, Level
  <1>3. TypeOK'
    BY <1>1, <1>2 DEF CallbacksTypeOK
  <1>4. \A p \in Packet : BeingFreed(p)' <=> BeingFreed(p) /\ p # freeing[calls]
    BY <1>1, <1>2 DEF BeingFreed
  <1>5. EntriesAreAssigned' /\ NoStaleEntry'
    BY <1>1, <1>4 DEF EntriesAreAssigned, NoStaleEntry, BeingFreed
  <1>6. FreedByOneCall' /\ RunsAssigned'
    BY <1>1 DEF FreedByOneCall, RunsAssigned
  <1> QED BY <1>3, <1>5, <1>6

-----------------------------------------------------------------------------
LEMMA EndCallWithInv ==
    ASSUME IInv, NEW packets \in SUBSET allocated, EndCallWith(packets)
    PROVE  IInv'
  <1> USE PacketFreeAssumption DEF EndCallWith, EnetRuns
  <1>1. CallbacksTypeOK' /\ calls' = calls - 1
    BY CallTypes DEF IInv, TypeOK, EndCall
  <1>2. calls \in Nat /\ calls' \in Nat /\ 1..calls \subseteq Level /\ 1..calls' \subseteq Level
    BY <1>1, CallbacksAssumption DEF IInv, TypeOK, CallbacksTypeOK, Level
  <1>3. \A level \in Level : level > calls' => freeing[level] = NoPacket
    BY <1>1, <1>2 DEF IInv, TypeOK, Level
  <1>4. \A packet \in Packet : BeingFreed(packet)' = BeingFreed(packet)
    BY <1>1, <1>2, <1>3 DEF BeingFreed, Level
  <1>5. TypeOK'
    BY <1>1, <1>3 DEF IInv, TypeOK
  <1>6. EntriesAreAssigned' /\ NoStaleEntry'
    BY <1>4 DEF IInv, TypeOK, EntriesAreAssigned, NoStaleEntry
  <1>7. FreedByOneCall' /\ RunsAssigned'
    BY <1>1, <1>2 DEF IInv, FreedByOneCall, RunsAssigned
  <1> QED BY <1>5, <1>6, <1>7 DEF IInv

LEMMA NextInv ==
    ASSUME SetInHandler = FALSE, IInv, [Next]_vars
    PROVE  IInv'
  <1>1. CASE Call
    BY <1>1, CallTypes, StackInv DEF Call, BeginCall, IInv, TypeOK
  <1>2. CASE OtherCallback \/ HandlerReturns \/ HandlerFails \/ Catch
    BY <1>2, HandlerTypes, StackInv
    DEF OtherCallback, HandlerReturns, HandlerFails, Catch, IInv, TypeOK
  <1>3. CASE EndFree
    BY <1>3, EndFreeInv
  <1>4. CASE EndCallWith({})
    BY <1>4, EndCallWithInv
  <1>5. ASSUME NEW packet \in Packet, EndCallWith({packet} \cap allocated)
        PROVE  IInv'
    BY <1>5, EndCallWithInv
  <1>6. ASSUME NEW packet \in Packet,
               Allocate(packet) \/ FreeSilently(packet) \/ BeginFree(packet)
        PROVE  IInv'
    BY <1>6, AllocateInv, FreeSilentlyInv, BeginFreeInv
  <1>7. ASSUME NEW packet \in Packet, NEW value \in Handler \cup {Absent},
               SetFreeCallback(packet, value)
        PROVE  IInv'
    BY <1>7, SetFreeCallbackInv
  <1>8. CASE UNCHANGED vars
    BY <1>8, StackInv DEF vars, cbVars, IInv, TypeOK, CallbacksTypeOK
  <1> QED BY <1>1, <1>2, <1>3, <1>4, <1>5, <1>6, <1>7, <1>8 DEF Next

LEMMA Inductive == SetInHandler = FALSE /\ Spec => []IInv
  <1> SUFFICES ASSUME SetInHandler = FALSE PROVE Spec => []IInv
    OBVIOUS
  <1>1. IInv /\ [Next]_vars => IInv'
    BY NextInv
  <1> QED BY InitInv, <1>1, PTL DEF Spec

\* The variables have their types; no packet that was given back is known.
THEOREM Typing == SetInHandler = FALSE /\ Spec => []TypeOK
  BY Inductive, PTL DEF IInv

\* packet.ts 60-78: the getter tells what the program assigned and ENet will run.
THEOREM GetterTheorem == SetInHandler = FALSE /\ Spec => []GetterTellsWhatRuns
  <1>1. IInv => GetterTellsWhatRuns
    BY DEF IInv, TypeOK, EntriesAreAssigned, GetterTellsWhatRuns
  <1> QED BY <1>1, Inductive, PTL

\* packet.ts 31-45: no entry of freeCallbacks outlives its packet.
THEOREM NoStaleTheorem == SetInHandler = FALSE /\ Spec => []NoStaleEntry
  BY Inductive, PTL DEF IInv

\* structs.ts 39-43: a packet is given back after its callback, and no other, ran.
THEOREM FreedTheorem == SetInHandler = FALSE /\ Spec => FreedAfterItsCallback
  <1>1. IInv /\ [Next]_vars => FreesOnlyAfterCallback
    <2> SUFFICES ASSUME IInv, [Next]_vars, NEW packet \in allocated \ allocated'
                 PROVE  RanItsCallback(packet)
      BY DEF FreesOnlyAfterCallback
    <2>1. \/ EndFree
          \/ \E p \in Packet : FreeSilently(p) \/ Allocate(p)
          \/ allocated' = allocated
      BY DEF Next, vars, pfVars, Call, OtherCallback, HandlerReturns, HandlerFails, Catch,
         EndCallWith, SetFreeCallback, BeginFree
    <2>2. CASE EndFree
      <3>1. packet = freeing[calls] /\ calls \in 1..calls
        BY <2>2, Levels DEF EndFree, IInv, TypeOK
      <3> QED
        BY <2>2, <3>1, PacketFreeAssumption DEF EndFree, IInv, TypeOK, RunsAssigned, RanItsCallback
    <2>3. ASSUME NEW p \in Packet, FreeSilently(p) PROVE RanItsCallback(packet)
      BY <2>3 DEF FreeSilently, IInv, TypeOK, EntriesAreAssigned, RanItsCallback
    <2> QED BY <2>1, <2>2, <2>3 DEF Allocate
  <1> QED BY <1>1, Inductive, PTL DEF Spec, FreedAfterItsCallback
=============================================================================
