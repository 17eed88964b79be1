------------------------ MODULE HostCallbacksProofs -------------------------
(***************************************************************************)
(* Theorems about HostCallbacks, for any number of hosts, slots and        *)
(* handlers.                                                               *)
(***************************************************************************)
EXTENDS HostCallbacks, TLAPS

\* ENet has nothing of a host that does not exist in the Maps.
MapsOfLive ==
    \A host \in Host \ live : checksums[host] = NoChecksum /\ intercepts[host] = Absent

\* A host that points to a slot has it for itself, and the slot is in use; the Map
\* knows it unless an assignment failed.
OwnSlot(host) ==
    checksumField[host] \in Slot =>
        /\ koffi[checksumField[host]] # Absent
        /\ kept[checksumField[host]] = Absent
        /\ \A other \in live \ {host} : checksumField[other] # checksumField[host]
        /\ host \notin failed => checksums[host] # NoChecksum

InMap(host) ==
    checksums[host] # NoChecksum =>
        /\ checksumField[host] = checksums[host].address
        /\ koffi[checksums[host].address] = checksums[host].handler

FieldsOwnSlots ==
    \A host \in live :
        /\ OwnSlot(host)
        /\ InMap(host)
        /\ interceptField[host] = (intercepts[host] # Absent)

\* The inductive invariant.
IInv ==
    /\ TypeOK
    /\ MapsOfLive
    /\ FieldsOwnSlots
    /\ OnlyFailuresLeak
    /\ NoMemoryKept

-----------------------------------------------------------------------------
\* An entry of checksums, if there is one, has a slot and a handler.
LEMMA Entry ==
    ASSUME TypeOK, NEW host \in Host
    PROVE  \/ checksums[host] = NoChecksum
           \/ /\ checksums[host] \in [address : Slot, handler : Handler]
              /\ checksums[host].address \in Slot
              /\ checksums[host].handler \in Handler
              /\ checksums[host] # NoChecksum
  BY HostCallbacksAssumption DEF TypeOK, NoChecksum

LEMMA InitInv == Init => IInv
  BY HostCallbacksAssumption DEF Init, IInv, TypeOK, MapsOfLive, FieldsOwnSlots,
     OwnSlot, InMap, OnlyFailuresLeak, NoMemoryKept, Kept, NoChecksum

LEMMA CreateInv ==
    ASSUME IInv, NEW host \in Host, Create(host)
    PROVE  IInv'
  <1> USE HostCallbacksAssumption DEF IInv, Create, hostVars, history
  <1>1. TypeOK'
    BY DEF TypeOK
  <1>2. MapsOfLive'
    BY DEF TypeOK, MapsOfLive
  <1>3. FieldsOwnSlots'
    <2> SUFFICES ASSUME NEW h \in live'
                 PROVE  OwnSlot(h)' /\ InMap(h)' /\ interceptField'[h] = (intercepts'[h] # Absent)
      BY DEF FieldsOwnSlots
    <2>1. OwnSlot(h)'
      BY DEF TypeOK, FieldsOwnSlots, OwnSlot
    <2>2. InMap(h)'
      BY DEF TypeOK, MapsOfLive, FieldsOwnSlots, InMap
    <2>3. interceptField'[h] = (intercepts'[h] # Absent)
      BY DEF TypeOK, MapsOfLive, FieldsOwnSlots
    <2> QED BY <2>1, <2>2, <2>3
  <1>4. OnlyFailuresLeak'
    BY Entry DEF TypeOK, MapsOfLive, OnlyFailuresLeak, Owned, Kept, NoChecksum
  <1>5. NoMemoryKept'
    BY DEF NoMemoryKept, Kept
  <1> QED BY <1>1, <1>2, <1>3, <1>4, <1>5

\* The slot of the old checksum is this host's only, so that no other one loses it.
LEMMA ClearChecksumInv ==
    ASSUME IInv, NEW host \in Host, NEW value \in {Null, Crc32}, ClearChecksum(host, value)
    PROVE  IInv'
  <1> USE HostCallbacksAssumption DEF IInv, ClearChecksum
  <1>1. TypeOK'
    BY Entry DEF TypeOK, Unregister
  <1>2. MapsOfLive'
    BY DEF TypeOK, MapsOfLive
  <1>3. FieldsOwnSlots'
    <2> SUFFICES ASSUME NEW h \in live'
                 PROVE  OwnSlot(h)' /\ InMap(h)' /\ interceptField'[h] = (intercepts'[h] # Absent)
      BY DEF FieldsOwnSlots
    <2>1. OwnSlot(h)'
      BY Entry DEF TypeOK, FieldsOwnSlots, OwnSlot, InMap, Unregister
    <2>2. InMap(h)'
      BY Entry DEF TypeOK, FieldsOwnSlots, OwnSlot, InMap, Unregister
    <2>3. interceptField'[h] = (intercepts'[h] # Absent)
      BY DEF TypeOK, FieldsOwnSlots
    <2> QED BY <2>1, <2>2, <2>3
  <1>4. OnlyFailuresLeak'
    BY Entry DEF TypeOK, OnlyFailuresLeak, Owned, Kept, Unregister, NoChecksum
  <1>5. NoMemoryKept'
    BY Entry DEF TypeOK, MapsOfLive, FieldsOwnSlots, OwnSlot, InMap, NoMemoryKept, Kept, Unregister
  <1> QED BY <1>1, <1>2, <1>3, <1>4, <1>5

LEMMA SetChecksumInv ==
    ASSUME IInv, NEW host \in Host, NEW handler \in Handler, NEW slot \in Slot,
           SetChecksum(host, handler, slot)
    PROVE  IInv'
  <1> USE HostCallbacksAssumption DEF IInv, SetChecksum, FreeSlots
  <1>1. TypeOK'
    BY Entry DEF TypeOK, Unregister
  <1>2. MapsOfLive'
    BY DEF TypeOK, MapsOfLive
  <1>3. FieldsOwnSlots'
    <2> SUFFICES ASSUME NEW h \in live'
                 PROVE  OwnSlot(h)' /\ InMap(h)' /\ interceptField'[h] = (intercepts'[h] # Absent)
      BY DEF FieldsOwnSlots
    <2>1. OwnSlot(h)'
      BY Entry DEF TypeOK, FieldsOwnSlots, OwnSlot, InMap, Unregister, NoMemoryKept, Kept, NoChecksum
    <2>2. InMap(h)'
      BY Entry DEF TypeOK, FieldsOwnSlots, OwnSlot, InMap, Unregister
    <2>3. interceptField'[h] = (intercepts'[h] # Absent)
      BY DEF TypeOK, FieldsOwnSlots
    <2> QED BY <2>1, <2>2, <2>3
  <1>4. OnlyFailuresLeak'
    BY Entry DEF TypeOK, FieldsOwnSlots, OwnSlot, InMap, OnlyFailuresLeak, Owned, Kept, Unregister, NoChecksum
  <1>5. NoMemoryKept'
    BY Entry DEF TypeOK, FieldsOwnSlots, OwnSlot, InMap, NoMemoryKept, Kept, Unregister
  <1> QED BY <1>1, <1>2, <1>3, <1>4, <1>5

LEMMA FailChecksumInv ==
    ASSUME IInv, NEW host \in Host, FailChecksum(host)
    PROVE  IInv'
  <1> USE HostCallbacksAssumption DEF IInv, FailChecksum
  <1>1. TypeOK'
    BY Entry DEF TypeOK, NoChecksum
  <1>2. MapsOfLive'
    BY DEF TypeOK, MapsOfLive
  <1>3. FieldsOwnSlots'
    BY Entry DEF TypeOK, FieldsOwnSlots, OwnSlot, InMap
  <1>4. OnlyFailuresLeak'
    BY Entry DEF TypeOK, OnlyFailuresLeak, Owned, Kept, NoChecksum
  <1>5. NoMemoryKept'
    BY DEF NoMemoryKept, Kept
  <1> QED BY <1>1, <1>2, <1>3, <1>4, <1>5

LEMMA SetInterceptInv ==
    ASSUME IInv, NEW host \in Host, NEW handler \in Handler \cup {Absent},
           SetIntercept(host, handler)
    PROVE  IInv'
  <1> USE HostCallbacksAssumption DEF IInv, SetIntercept, Installed, history
  <1>1. TypeOK'
    BY DEF TypeOK
  <1>2. MapsOfLive'
    BY DEF TypeOK, MapsOfLive
  <1>3. FieldsOwnSlots'
    <2> SUFFICES ASSUME NEW h \in live'
                 PROVE  OwnSlot(h)' /\ InMap(h)' /\ interceptField'[h] = (intercepts'[h] # Absent)
      BY DEF FieldsOwnSlots
    <2>1. OwnSlot(h)' /\ InMap(h)'
      BY DEF FieldsOwnSlots, OwnSlot, InMap
    <2>2. interceptField'[h] = (intercepts'[h] # Absent)
      BY DEF TypeOK, FieldsOwnSlots
    <2> QED BY <2>1, <2>2
  <1>4. OnlyFailuresLeak' /\ NoMemoryKept'
    BY DEF OnlyFailuresLeak, Owned, NoMemoryKept, Kept
  <1> QED BY <1>1, <1>2, <1>3, <1>4

LEMMA EndDestroyInv ==
    ASSUME IInv, NEW host \in Host, EndDestroy(host)
    PROVE  IInv'
  <1> USE HostCallbacksAssumption DEF IInv, EndDestroy, ForgetHost
  <1>1. TypeOK'
    BY Entry DEF TypeOK, Unregister
  <1>2. MapsOfLive'
    BY DEF TypeOK, MapsOfLive
  <1>3. FieldsOwnSlots'
    <2> SUFFICES ASSUME NEW h \in live'
                 PROVE  OwnSlot(h)' /\ InMap(h)' /\ interceptField'[h] = (intercepts'[h] # Absent)
      BY DEF FieldsOwnSlots
    <2>1. OwnSlot(h)'
      BY Entry DEF TypeOK, FieldsOwnSlots, OwnSlot, InMap, Unregister
    <2>2. InMap(h)'
      BY Entry DEF TypeOK, FieldsOwnSlots, OwnSlot, InMap, Unregister
    <2>3. interceptField'[h] = (intercepts'[h] # Absent)
      BY DEF TypeOK, FieldsOwnSlots
    <2> QED BY <2>1, <2>2, <2>3
  <1>4. OnlyFailuresLeak'
    BY Entry DEF TypeOK, OnlyFailuresLeak, Owned, Kept, Unregister, NoChecksum
  <1>5. NoMemoryKept'
    BY Entry DEF TypeOK, FieldsOwnSlots, OwnSlot, InMap, NoMemoryKept, Kept, Unregister
  <1> QED BY <1>1, <1>2, <1>3, <1>4, <1>5

\* A slot that is free is no host's and no noMemory's.
LEMMA InitializeInv ==
    ASSUME IInv, NEW handler \in Handler, NEW slot \in Slot, Initialize(handler, slot)
    PROVE  IInv'
  <1> USE HostCallbacksAssumption DEF IInv, Initialize, hostVars, FreeSlots
  <1>1. TypeOK'
    BY DEF TypeOK
  <1>2. MapsOfLive'
    BY DEF MapsOfLive
  <1>3. FieldsOwnSlots'
    BY Entry DEF TypeOK, FieldsOwnSlots, OwnSlot, InMap
  <1>4. OnlyFailuresLeak'
    BY Entry DEF TypeOK, OnlyFailuresLeak, Owned, Kept
  <1>5. NoMemoryKept'
    BY DEF TypeOK, NoMemoryKept, Kept
  <1> QED BY <1>1, <1>2, <1>3, <1>4, <1>5
\* A failed call leaves the old noMemory, if it stores nothing before it fails.
LEMMA NextInv ==
    ASSUME StoresBeforeFailing = FALSE, IInv, [Next]_vars
    PROVE  IInv'
  <1>1. CASE UNCHANGED vars
    BY <1>1 DEF IInv, vars, hostVars, history, TypeOK, MapsOfLive, FieldsOwnSlots, OwnSlot,
       InMap, OnlyFailuresLeak, Owned, NoMemoryKept, Kept
  <1>2. ASSUME NEW slot \in Slot, FailInitialize(slot) PROVE IInv'
    BY <1>2 DEF FailInitialize, IInv, vars, hostVars, history, TypeOK, MapsOfLive,
       FieldsOwnSlots, OwnSlot, InMap, OnlyFailuresLeak, Owned, NoMemoryKept, Kept
  <1>3. ASSUME NEW host \in Host, BeginDestroy(host) PROVE IInv'
    BY <1>3 DEF BeginDestroy, IInv, history, TypeOK, MapsOfLive,
       FieldsOwnSlots, OwnSlot, InMap, OnlyFailuresLeak, Owned, NoMemoryKept, Kept
  <1> QED
    BY <1>1, <1>2, <1>3, CreateInv, ClearChecksumInv, SetChecksumInv, FailChecksumInv,
       SetInterceptInv, EndDestroyInv, InitializeInv DEF Next

LEMMA Inductive == StoresBeforeFailing = FALSE /\ Spec => []IInv
  <1> SUFFICES ASSUME StoresBeforeFailing = FALSE PROVE Spec => []IInv
    OBVIOUS
  <1> QED BY InitInv, NextInv, PTL DEF Spec

\* What the Maps, the C fields and Koffi's slots can contain.
THEOREM Typing == StoresBeforeFailing = FALSE /\ Spec => []TypeOK
  BY Inductive, PTL DEF IInv

\* The getters of host-handle.ts return what ENet runs.
THEOREM GettersTheorem == StoresBeforeFailing = FALSE /\ Spec => []GettersTellWhatRuns
  <1>1. IInv => GettersTellWhatRuns
    <2> SUFFICES ASSUME IInv, NEW host \in live
                 PROVE  /\ host \notin failed => GetChecksum(host) = RunsChecksum(host)
                        /\ GetIntercept(host) = RunsIntercept(host)
      BY DEF GettersTellWhatRuns
    <2> USE HostCallbacksAssumption DEF IInv, TypeOK, FieldsOwnSlots
    <2>1. ASSUME host \notin failed PROVE GetChecksum(host) = RunsChecksum(host)
      <3>1. CASE checksums[host] = NoChecksum
        BY <2>1, <3>1 DEF OwnSlot, NoChecksum, GetChecksum, RunsChecksum, OrNull
      <3>2. CASE checksums[host] # NoChecksum
        <4>1. checksums[host].address \in Slot /\ checksums[host].handler \in Handler
          BY <3>2, Entry
        <4> QED BY <2>1, <3>2, <4>1 DEF InMap, GetChecksum, RunsChecksum, OrNull
      <3> QED BY <3>1, <3>2
    <2>2. GetIntercept(host) = RunsIntercept(host)
      BY DEF GetIntercept, RunsIntercept, OrNull
    <2> QED BY <2>1, <2>2
  <1> QED BY <1>1, Inductive, PTL

\* Nothing but an assignment that throws loses a slot.
THEOREM OnlyFailuresTheorem == StoresBeforeFailing = FALSE /\ Spec => []OnlyFailuresLeak
  BY Inductive, PTL DEF IInv

\* A noMemory that ENet accepted keeps its slot.
THEOREM NoMemoryTheorem == StoresBeforeFailing = FALSE /\ Spec => []NoMemoryKept
  BY Inductive, PTL DEF IInv

-----------------------------------------------------------------------------
(* The refinement of HostFields by what ENet runs.                         *)

\* An action that changes neither of the two for any host, nor the hosts.
LEMMA NativeStutter ==
    ASSUME live' = live,
           \A host \in live : /\ RunsChecksum(host)' = RunsChecksum(host)
                              /\ RunsIntercept(host)' = RunsIntercept(host)
    PROVE  UNCHANGED Native!vars
  BY DEF Native!vars, OfLive

\* A slot that is freed or filled belongs to no other host.
LEMMA NativeSetChecksum ==
    ASSUME IInv, NEW host \in Host,
           \/ \E value \in {Null, Crc32} : ClearChecksum(host, value)
           \/ \E handler \in Handler, slot \in Slot : SetChecksum(host, handler, slot)
    PROVE  \E value \in Handler \cup {Null, Crc32} : Native!SetChecksum(host, value)
  <1> USE HostCallbacksAssumption DEF IInv
  <1>1. ASSUME NEW value \in {Null, Crc32}, ClearChecksum(host, value)
        PROVE  Native!SetChecksum(host, value)
    <2>1. RunsChecksum(host)' = value /\ host \in live /\ live' = live
      BY <1>1 DEF ClearChecksum, RunsChecksum, TypeOK
    <2>2. ASSUME NEW h \in live PROVE h # host => RunsChecksum(h)' = RunsChecksum(h)
      BY <1>1, Entry DEF ClearChecksum, RunsChecksum, TypeOK, FieldsOwnSlots, OwnSlot, InMap, Unregister
    <2>3. ASSUME NEW h \in live PROVE RunsIntercept(h)' = RunsIntercept(h)
      BY <1>1 DEF ClearChecksum, RunsIntercept
    <2> QED BY <2>1, <2>2, <2>3 DEF Native!SetChecksum, OfLive, TypeOK
  <1>2. ASSUME NEW handler \in Handler, NEW slot \in Slot, SetChecksum(host, handler, slot)
        PROVE  Native!SetChecksum(host, handler)
    <2>1. RunsChecksum(host)' = handler /\ host \in live /\ live' = live
      BY <1>2, Entry DEF SetChecksum, FreeSlots, RunsChecksum, TypeOK, FieldsOwnSlots, OwnSlot, InMap, Unregister
    <2>2. ASSUME NEW h \in live PROVE h # host => RunsChecksum(h)' = RunsChecksum(h)
      BY <1>2, Entry DEF SetChecksum, FreeSlots, RunsChecksum, TypeOK, FieldsOwnSlots, OwnSlot, InMap, Unregister
    <2>3. ASSUME NEW h \in live PROVE RunsIntercept(h)' = RunsIntercept(h)
      BY <1>2 DEF SetChecksum, RunsIntercept
    <2> QED BY <2>1, <2>2, <2>3 DEF Native!SetChecksum, OfLive, TypeOK
  <1> QED BY <1>1, <1>2

LEMMA NativeSetIntercept ==
    ASSUME IInv, NEW host \in Host, NEW handler \in Handler \cup {Absent},
           SetIntercept(host, handler)
    PROVE  Native!SetIntercept(host, OrNull(handler))
  <1> USE HostCallbacksAssumption DEF IInv, SetIntercept, Installed
  <1>1. RunsIntercept(host)' = OrNull(handler) /\ host \in live /\ live' = live
    BY DEF RunsIntercept, OrNull, TypeOK
  <1>2. ASSUME NEW h \in live PROVE h # host => RunsIntercept(h)' = RunsIntercept(h)
    BY DEF RunsIntercept, TypeOK
  <1>3. ASSUME NEW h \in live PROVE RunsChecksum(h)' = RunsChecksum(h)
    BY DEF RunsChecksum
  <1> QED BY <1>1, <1>2, <1>3 DEF Native!SetIntercept, OfLive, TypeOK

LEMMA NativeCreate ==
    ASSUME IInv, NEW host \in Host, Create(host)
    PROVE  Native!Create(host)
  <1> USE HostCallbacksAssumption DEF IInv, Create
  <1>1. RunsIntercept(host)' = Null /\ RunsChecksum(host)' = Null
    BY DEF RunsIntercept, RunsChecksum, TypeOK
  <1>2. ASSUME NEW h \in live
        PROVE  RunsIntercept(h)' = RunsIntercept(h) /\ RunsChecksum(h)' = RunsChecksum(h)
    BY DEF RunsIntercept, RunsChecksum, TypeOK
  <1> QED BY <1>1, <1>2 DEF Native!Create, OfLive, TypeOK

LEMMA NativeDestroy ==
    ASSUME IInv, NEW host \in Host, EndDestroy(host)
    PROVE  Native!Destroy(host)
  <1> USE HostCallbacksAssumption DEF IInv, EndDestroy, ForgetHost
  <1>1. host \in live /\ live' = live \ {host}
    BY DEF TypeOK
  <1>2. ASSUME NEW h \in live PROVE h # host => RunsChecksum(h)' = RunsChecksum(h)
    BY Entry, <1>1 DEF RunsChecksum, TypeOK, FieldsOwnSlots, OwnSlot, InMap, Unregister
  <1>3. ASSUME NEW h \in live PROVE h # host => RunsIntercept(h)' = RunsIntercept(h)
    BY DEF RunsIntercept, TypeOK
  <1> QED BY <1>1, <1>2, <1>3 DEF Native!Destroy, OfLive, TypeOK

LEMMA NativeNext ==
    ASSUME StoresBeforeFailing = FALSE, IInv, [Next]_vars
    PROVE  [Native!Next]_(Native!vars)
  <1>1. ASSUME UNCHANGED <<live, checksumField, interceptField, intercepts, koffi>>
        PROVE  UNCHANGED Native!vars
    BY <1>1, NativeStutter DEF RunsChecksum, RunsIntercept
  <1>2. ASSUME NEW handler \in Handler, NEW slot \in Slot, Initialize(handler, slot)
        PROVE  UNCHANGED Native!vars
    BY <1>2, NativeStutter, HostCallbacksAssumption
    DEF Initialize, hostVars, FreeSlots, RunsChecksum, RunsIntercept, IInv, TypeOK, FieldsOwnSlots, OwnSlot
  <1>3. CASE UNCHANGED vars
    BY <1>1, <1>3 DEF vars, hostVars
  <1>4. ASSUME NEW slot \in Slot, FailInitialize(slot) PROVE UNCHANGED Native!vars
    BY <1>1, <1>4 DEF FailInitialize, hostVars
  <1>5. ASSUME NEW host \in Host, FailChecksum(host) \/ BeginDestroy(host)
        PROVE  UNCHANGED Native!vars
    BY <1>1, <1>5 DEF FailChecksum, BeginDestroy
  <1>6. ASSUME NEW host \in Host, NEW handler \in Handler \cup {Absent}, SetIntercept(host, handler)
        PROVE  Native!Next
    BY <1>6, NativeSetIntercept DEF Native!Next, OrNull
  <1>7. ASSUME NEW host \in Host, Create(host) \/ EndDestroy(host) PROVE Native!Next
    BY <1>7, NativeCreate, NativeDestroy DEF Native!Next
  <1>8. ASSUME NEW host \in Host,
               \/ \E value \in {Null, Crc32} : ClearChecksum(host, value)
               \/ \E handler \in Handler, slot \in Slot : SetChecksum(host, handler, slot)
        PROVE  Native!Next
    BY <1>8, NativeSetChecksum DEF Native!Next
  <1> QED
    BY <1>2, <1>3, <1>4, <1>5, <1>6, <1>7, <1>8 DEF Next

\* To ENet, checksum and intercept are fields of each host: it never runs a
\* function of another host, nor of a slot that was freed.
THEOREM NativeTheorem == StoresBeforeFailing = FALSE /\ Spec => NativeAreFields
  <1> SUFFICES ASSUME StoresBeforeFailing = FALSE PROVE Spec => NativeAreFields
    OBVIOUS
  <1>1. Init => Native!Init
    BY DEF Init, Native!Init, OfLive
  <1>2. IInv /\ [Next]_vars => [Native!Next]_(Native!vars)
    BY NativeNext
  <1> QED BY <1>1, <1>2, Inductive, PTL DEF Spec, NativeAreFields, Native!Spec
-----------------------------------------------------------------------------
(* The refinement of HostFields by what the getters return.                *)

\* An assignment changes what the getter of that host returns, and no other.
LEMMA GettersSet ==
    ASSUME IInv, NEW host \in Host,
           \/ \E value \in {Null, Crc32} : ClearChecksum(host, value)
           \/ \E handler \in Handler, slot \in Slot : SetChecksum(host, handler, slot)
           \/ FailChecksum(host)
    PROVE  \E value \in Handler \cup {Null, Crc32} : Getters!SetChecksum(host, value)
  <1> USE HostCallbacksAssumption DEF IInv, TypeOK, ClearChecksum, SetChecksum, FailChecksum
  <1>1. GetChecksum(host)' \in Handler \cup {Null, Crc32} /\ host \in live /\ live' = live
    <2>1. host \in live /\ live' = live
      OBVIOUS
    <2>2. \/ checksums' = [checksums EXCEPT ![host] = NoChecksum]
          \/ \E handler \in Handler, slot \in Slot :
                checksums' = [checksums EXCEPT ![host] = [address |-> slot, handler |-> handler]]
      OBVIOUS
    <2>3. DOMAIN checksums = Host
      OBVIOUS
    <2> HIDE DEF IInv, TypeOK, ClearChecksum, SetChecksum, FailChecksum
    <2>4. CASE checksums' = [checksums EXCEPT ![host] = NoChecksum]
      BY <2>1, <2>3, <2>4 DEF NoChecksum, GetChecksum, OrNull
    <2>5. ASSUME NEW handler \in Handler, NEW slot \in Slot,
                 checksums' = [checksums EXCEPT ![host] = [address |-> slot, handler |-> handler]]
          PROVE  GetChecksum(host)' \in Handler \cup {Null, Crc32}
      BY <2>3, <2>5 DEF GetChecksum, OrNull
    <2> QED BY <2>1, <2>2, <2>4, <2>5
  <1>2. ASSUME NEW h \in live, h # host PROVE GetChecksum(h)' = GetChecksum(h)
    BY <1>2 DEF GetChecksum
  <1>3. ASSUME NEW h \in live PROVE GetIntercept(h)' = GetIntercept(h)
    BY DEF GetIntercept
  <1> HIDE DEF ClearChecksum, SetChecksum, FailChecksum
  <1>4. PICK value \in Handler \cup {Null, Crc32} : value = GetChecksum(host)'
    BY <1>1
  <1>5. Getters!SetChecksum(host, value)
    BY <1>1, <1>2, <1>3, <1>4, ZenonT(30) DEF Getters!SetChecksum, OfLive
  <1> QED BY <1>5

LEMMA GettersNext ==
    ASSUME IInv, [Next]_vars
    PROVE  [Getters!Next]_(Getters!vars)
  <1> USE HostCallbacksAssumption
  <1>1. ASSUME UNCHANGED <<live, checksumField, checksums, intercepts>>
        PROVE  UNCHANGED Getters!vars
    BY <1>1 DEF Getters!vars, OfLive, GetChecksum, GetIntercept
  <1>2. CASE \/ \E handler \in Handler, slot \in Slot : Initialize(handler, slot)
             \/ \E slot \in Slot : FailInitialize(slot)
             \/ \E host \in Host : BeginDestroy(host)
             \/ UNCHANGED vars
    BY <1>1, <1>2 DEF Initialize, FailInitialize, BeginDestroy, vars, hostVars
  <1>3. ASSUME NEW host \in Host,
               \/ \E value \in {Null, Crc32} : ClearChecksum(host, value)
               \/ \E handler \in Handler, slot \in Slot : SetChecksum(host, handler, slot)
               \/ FailChecksum(host)
        PROVE  Getters!Next
    BY <1>3, GettersSet DEF Getters!Next
  <1>4. ASSUME NEW host \in Host, NEW handler \in Handler \cup {Absent}, SetIntercept(host, handler)
        PROVE  Getters!Next
    <2>1. Getters!SetIntercept(host, OrNull(handler))
      BY <1>4 DEF Getters!SetIntercept, SetIntercept, OfLive, GetIntercept, GetChecksum, OrNull,
         IInv, TypeOK
    <2> QED BY <2>1 DEF Getters!Next, OrNull
  <1>5. ASSUME NEW host \in Host, Create(host) PROVE Getters!Next
    <2>1. GetChecksum(host)' = Null /\ GetIntercept(host)' = Null
      BY <1>5 DEF Create, GetChecksum, GetIntercept, OrNull, IInv, TypeOK, MapsOfLive, NoChecksum
    <2>2. ASSUME NEW h \in live
          PROVE  GetChecksum(h)' = GetChecksum(h) /\ GetIntercept(h)' = GetIntercept(h)
      BY <1>5 DEF Create, GetChecksum, GetIntercept, IInv, TypeOK
    <2>3. Getters!Create(host)
      BY <1>5, <2>1, <2>2 DEF Create, Getters!Create, OfLive, IInv, TypeOK
    <2> QED BY <2>3 DEF Getters!Next
  <1>6. ASSUME NEW host \in Host, EndDestroy(host) PROVE Getters!Next
    <2>1. host \in live /\ live' = live \ {host}
      BY <1>6 DEF EndDestroy, IInv, TypeOK
    <2>2. ASSUME NEW h \in live, h # host
          PROVE  GetChecksum(h)' = GetChecksum(h) /\ GetIntercept(h)' = GetIntercept(h)
      BY <1>6, <2>2 DEF EndDestroy, ForgetHost, GetChecksum, GetIntercept, IInv, TypeOK
    <2>3. Getters!Destroy(host)
      BY <2>1, <2>2 DEF Getters!Destroy, OfLive, IInv, TypeOK
    <2> QED BY <2>3 DEF Getters!Next
  <1> QED BY <1>2, <1>3, <1>4, <1>5, <1>6 DEF Next

\* To the program, checksum and intercept are fields of each host, and a host at a
\* reused pointer starts with neither.
THEOREM GettersRefine == StoresBeforeFailing = FALSE /\ Spec => GettersAreFields
  <1> SUFFICES ASSUME StoresBeforeFailing = FALSE PROVE Spec => GettersAreFields
    OBVIOUS
  <1>1. Init => Getters!Init
    BY DEF Init, Getters!Init, OfLive
  <1>2. IInv /\ [Next]_vars => [Getters!Next]_(Getters!vars)
    BY GettersNext
  <1> QED BY <1>1, <1>2, Inductive, PTL DEF Spec, GettersAreFields, Getters!Spec
=============================================================================
