------------------------ MODULE CallbackErrorsProofs ------------------------
(***************************************************************************)
(* Theorems about CallbackErrors, for every nesting depth, every number of *)
(* waiting errors and every set of error numbers.                          *)
(***************************************************************************)
EXTENDS CallbackErrors, SequenceTheorems, TLAPS

USE CallbacksAssumption, ErrorsAreNumbered

\* The waiting errors, oldest first.
Sorted ==
    \A i, j \in 1..Len(callbackErrors) :
        i < j => callbackErrors[i] < callbackErrors[j]

\* Everything in flight or waiting was raised.
Known ==
    /\ thrown <= raised
    /\ \A i \in 1..Len(callbackErrors) : callbackErrors[i] <= raised

\* While an exception unwinds JS code, no error waits: the call that threw it
\* has just drained the array.
Unwinding ==
    thrown # NoError => callbackErrors = <<>> /\ thrown \in surfaced

\* JS code catches only what was raised.
CaughtInRaised == \A error \in caught : error <= raised

\* The inductive invariant.
IInv ==
    /\ TypeOK
    /\ DrainedWhenIdle
    /\ Sorted
    /\ Known
    /\ Unwinding
    /\ CaughtInRaised
    /\ CaughtStaysCaught
    /\ DroppedOnlyBehindOlder

-----------------------------------------------------------------------------
\* What pushing an error on callbackErrors gives.
LEMMA Push ==
    ASSUME NEW queue \in Seq(Error), NEW error \in Error
    PROVE  /\ Append(queue, error) \in Seq(Error)
           /\ Append(queue, error) # <<>>
           /\ Len(Append(queue, error)) = Len(queue) + 1
           /\ \A i \in 1..Len(queue) : Append(queue, error)[i] = queue[i]
           /\ Append(queue, error)[Len(queue) + 1] = error
           /\ Len(queue) \in Nat
           /\ Head(Append(queue, error)) = Append(queue, error)[1]
  BY AppendProperties, LenProperties, HeadTailProperties

\* The error that a call throws is the one that waits longest.
LEMMA FirstOfQueue ==
    ASSUME callbackErrors \in Seq(Error)
    PROVE  /\ callbackErrors = <<>> => FirstError = NoError
           /\ callbackErrors # <<>> =>
                 /\ Len(callbackErrors) \in Nat \ {0}
                 /\ FirstError = callbackErrors[1]
                 /\ FirstError \in Error
  BY EmptySeq, LenProperties, ElementOfSeq DEF FirstError

LEMMA Typing == Spec => []TypeOK
<1> USE DEF TypeOK, CallbacksTypeOK, Level
<1>1. Init => TypeOK
  BY DEF Init, CallbacksInit
<1>2. TypeOK /\ [Next]_vars => TypeOK'
  <2> SUFFICES ASSUME TypeOK, [Next]_vars PROVE TypeOK'
    OBVIOUS
  <2>1. CASE Begin
    <3>1. CallbacksTypeOK'
      BY <2>1 DEF Begin, BeginCall, JsRuns
    <3>2. calls + 1 \in Level
      BY <2>1 DEF Begin, BeginCall
    <3>3. mark' \in [Level -> Nat] /\ raised' \in Nat
      <4>1. CASE calls = 0
        BY <2>1, <4>1 DEF Begin
      <4>2. CASE calls # 0
        BY <2>1, <4>2 DEF Begin
      <4> QED
        BY <4>1, <4>2
    <3>4. surfaced' \subseteq Error /\ caught' \subseteq Error
      BY <2>1 DEF Begin
    <3> QED
      BY <3>1, <3>3, <3>4
  <2>2. CASE Callback
    BY <2>2 DEF Callback, BeginCallback, history, JsRuns
  <2>3. CASE Return
    BY <2>3 DEF Return, EndCallback, InHandler, JsRuns, history
  <2>4. CASE Fail
    <3>1. raised + 1 \in Error /\ callbackErrors' = Append(callbackErrors, raised + 1)
      BY <2>4 DEF Fail, FailCallback, Record
    <3>2. callbackErrors' \in Seq(Error)
      BY <3>1, Push
    <3> QED
      BY <2>4, <3>2 DEF Fail, FailCallback, Record, InHandler, JsRuns
  <2>5. CASE Propagate
    <3>1. thrown \in Error /\ callbackErrors' = Append(callbackErrors, thrown)
      BY <2>5 DEF Propagate, PropagateError, Record
    <3>2. callbackErrors' \in Seq(Error)
      BY <3>1, Push
    <3> QED
      BY <2>5, <3>2 DEF Propagate, PropagateError, Record, InHandler, history
  <2>6. CASE Catch
    BY <2>6 DEF Catch, CatchError
  <2>7. CASE End
    <3>1. FirstError \in Error \cup {NoError} /\ <<>> \in Seq(Error)
      BY FirstOfQueue, EmptySeq
    <3> QED
      BY <2>7, <3>1 DEF End, EndCall
  <2>8. CASE UNCHANGED vars
    BY <2>8 DEF vars, cbVars, history
  <2> QED
    BY <2>1, <2>2, <2>3, <2>4, <2>5, <2>6, <2>7, <2>8 DEF Next
<1> QED
  BY <1>1, <1>2, PTL DEF Spec

-----------------------------------------------------------------------------
\* The steps that leave the array and the exception in flight alone.
LEMMA QuietStep ==
    ASSUME IInv, TypeOK', Callback \/ Return \/ UNCHANGED vars
    PROVE  IInv'
<1>1. UNCHANGED <<calls, callbackErrors, thrown, raised, surfaced, caught>>
  BY DEF Callback, BeginCallback, Return, EndCallback, vars, cbVars, history
<1> QED
  BY <1>1 DEF IInv, DrainedWhenIdle, Sorted, Known, Unwinding, CaughtStaysCaught,
              DroppedOnlyBehindOlder, Waiting, CaughtInRaised

\* An outermost call finds the array empty; a nested one changes nothing here.
LEMMA BeginStep ==
    ASSUME IInv, TypeOK', Begin
    PROVE  IInv'
<1> USE DEF IInv, TypeOK, CallbacksTypeOK
<1>1. callbackErrors' = callbackErrors /\ thrown = NoError /\ thrown' = NoError
      /\ calls' # 0
  BY DEF Begin, BeginCall, JsRuns
<1>2. CASE calls = 0
  <2>1. callbackErrors' = <<>> /\ raised' = 0 /\ surfaced' = {} /\ caught' = {}
    BY <1>1, <1>2 DEF Begin, DrainedWhenIdle
  <2> QED
    BY <1>1, <2>1, EmptySeq DEF DrainedWhenIdle, Sorted, Known, Unwinding,
       CaughtStaysCaught, DroppedOnlyBehindOlder, Waiting, CaughtInRaised
<1>3. CASE calls # 0
  <2>1. UNCHANGED <<raised, surfaced, caught>>
    BY <1>3 DEF Begin
  <2> QED
    BY <1>1, <2>1 DEF DrainedWhenIdle, Sorted, Known, Unwinding, CaughtStaysCaught,
       DroppedOnlyBehindOlder, Waiting, CaughtInRaised
<1> QED
  BY <1>2, <1>3

\* A new error is larger than every other one, so the array stays sorted.
LEMMA FailStep ==
    ASSUME IInv, TypeOK', Fail
    PROVE  IInv'
<1> USE DEF IInv, TypeOK, CallbacksTypeOK
<1>1. /\ raised + 1 \in Error
      /\ callbackErrors' = Append(callbackErrors, raised + 1)
      /\ thrown = NoError /\ thrown' = NoError /\ calls' = calls /\ calls > 0
      /\ raised' = raised + 1 /\ UNCHANGED <<surfaced, caught>>
  BY DEF Fail, FailCallback, Record, JsRuns, InHandler
<1>2. /\ Len(callbackErrors') = Len(callbackErrors) + 1
      /\ \A i \in 1..Len(callbackErrors) : callbackErrors'[i] = callbackErrors[i]
      /\ callbackErrors'[Len(callbackErrors) + 1] = raised + 1
      /\ Len(callbackErrors) \in Nat
  BY <1>1, Push
<1>3. \A i \in 1..Len(callbackErrors) : callbackErrors[i] \in Nat
  BY ElementOfSeq
<1>4. Waiting' = Waiting \cup {raised + 1}
  <2>1. 1..(Len(callbackErrors) + 1)
           = (1..Len(callbackErrors)) \cup {Len(callbackErrors) + 1}
    BY <1>2
  <2>2. Waiting' = {callbackErrors'[i] : i \in 1..(Len(callbackErrors) + 1)}
    BY <1>2 DEF Waiting
  <2> QED
    BY <1>2, <2>1, <2>2, ZenonT(30) DEF Waiting
<1>5. DrainedWhenIdle'
  BY <1>1 DEF DrainedWhenIdle
<1>6. Sorted'
  <2> SUFFICES ASSUME NEW i \in 1..Len(callbackErrors'), NEW j \in 1..Len(callbackErrors'),
                      i < j
               PROVE  callbackErrors'[i] < callbackErrors'[j]
    BY DEF Sorted
  <2>1. i \in 1..Len(callbackErrors) /\ callbackErrors'[i] = callbackErrors[i]
    BY <1>2
  <2>2. CASE j \in 1..Len(callbackErrors)
    BY <1>2, <2>1, <2>2 DEF Sorted
  <2>3. CASE j = Len(callbackErrors) + 1
    BY <1>2, <1>3, <2>1, <2>3 DEF Known
  <2> QED
    BY <1>2, <2>2, <2>3
<1>7. Known'
  BY <1>1, <1>2, <1>3 DEF Known
<1>8. Unwinding'
  BY <1>1 DEF Unwinding
<1>9. CaughtStaysCaught'
  <2>1. thrown = 0 /\ thrown' = 0
    BY <1>1
  <2>2. raised + 1 \notin caught
    BY <1>1 DEF CaughtInRaised
  <2> QED
    BY <1>1, <1>4, <2>1, <2>2 DEF CaughtStaysCaught
<1>10. DroppedOnlyBehindOlder' /\ CaughtInRaised'
  BY <1>1, <1>4 DEF DroppedOnlyBehindOlder, CaughtInRaised
<1> QED
  BY <1>5, <1>6, <1>7, <1>8, <1>9, <1>10

\* An error that escapes a handler is the only one that waits.
LEMMA PropagateStep ==
    ASSUME IInv, TypeOK', Propagate
    PROVE  IInv'
<1> USE DEF IInv, TypeOK, CallbacksTypeOK
<1>1. /\ thrown \in Error /\ callbackErrors' = Append(<<>>, thrown)
      /\ thrown' = NoError /\ calls' = calls /\ calls > 0
      /\ UNCHANGED <<raised, surfaced, caught>>
      /\ callbackErrors = <<>> /\ thrown \in surfaced
  BY DEF Propagate, PropagateError, Record, InHandler, history, Unwinding
<1>2. Len(callbackErrors') = 1 /\ callbackErrors'[1] = thrown
  BY <1>1, Push, EmptySeq
<1>3. Waiting = {} /\ Waiting' = {thrown}
  BY <1>1, <1>2, EmptySeq DEF Waiting
<1>4. DrainedWhenIdle' /\ Sorted' /\ Unwinding'
  BY <1>1, <1>2 DEF DrainedWhenIdle, Sorted, Unwinding
<1>5. Known'
  BY <1>1, <1>2 DEF Known
<1>6. CaughtStaysCaught'
  BY <1>1, <1>3 DEF CaughtStaysCaught, CaughtInRaised
<1>7. DroppedOnlyBehindOlder' /\ CaughtInRaised'
  BY <1>1, <1>3 DEF DroppedOnlyBehindOlder, CaughtInRaised
<1> QED
  BY <1>4, <1>5, <1>6, <1>7

\* Nothing waits when JS code catches an exception.
LEMMA CatchStep ==
    ASSUME IInv, TypeOK', Catch
    PROVE  IInv'
<1> USE DEF IInv, TypeOK, CallbacksTypeOK
<1>1. /\ thrown # NoError /\ thrown' = NoError /\ callbackErrors = <<>>
      /\ caught' = caught \cup {thrown}
      /\ UNCHANGED <<calls, callbackErrors, raised, surfaced>>
  BY DEF Catch, CatchError, Unwinding
<1>2. Waiting = {} /\ Waiting' = {}
  BY <1>1, EmptySeq DEF Waiting
<1>3. CaughtStaysCaught' /\ CaughtInRaised'
  BY <1>1, <1>2 DEF CaughtStaysCaught, CaughtInRaised, Known
<1> QED
  BY <1>1, <1>2, <1>3 DEF DrainedWhenIdle, Sorted, Known, Unwinding,
     DroppedOnlyBehindOlder

\* The oldest waiting error is thrown; those dropped are younger.
LEMMA EndStep ==
    ASSUME IInv, TypeOK', End
    PROVE  IInv'
<1> USE DEF IInv, TypeOK, CallbacksTypeOK
<1>1. /\ thrown' = FirstError /\ callbackErrors' = <<>>
      /\ surfaced' = surfaced \cup ({FirstError} \ {NoError})
      /\ UNCHANGED <<raised, caught>>
  BY DEF End, EndCall
<1>2. Waiting' = {} /\ Len(callbackErrors') = 0
  BY <1>1, EmptySeq DEF Waiting
<1>3. DrainedWhenIdle' /\ Sorted'
  BY <1>1, <1>2 DEF DrainedWhenIdle, Sorted
<1>4. CASE callbackErrors = <<>>
  <2>1. FirstError = NoError /\ surfaced' = surfaced
    BY <1>1, <1>4, FirstOfQueue
  <2>2. Waiting = {}
    BY <1>4, EmptySeq DEF Waiting
  <2> QED
    BY <1>1, <1>2, <1>3, <2>1, <2>2 DEF Known, Unwinding, CaughtStaysCaught,
       DroppedOnlyBehindOlder, CaughtInRaised
<1>5. CASE callbackErrors # <<>>
  <2>1. /\ Len(callbackErrors) \in Nat \ {0}
        /\ FirstError = callbackErrors[1]
        /\ FirstError \in Error
    BY <1>5, FirstOfQueue
  <2>2. surfaced' = surfaced \cup {FirstError}
    BY <1>1, <2>1
  <2>3. \A i \in 1..Len(callbackErrors) :
           callbackErrors[i] = FirstError \/ FirstError < callbackErrors[i]
    <3> TAKE i \in 1..Len(callbackErrors)
    <3>1. CASE i = 1
      BY <2>1, <3>1
    <3>2. CASE i # 1
      <4>1. 1 \in 1..Len(callbackErrors) /\ 1 < i
        BY <2>1, <3>2
      <4> QED
        BY <2>1, <4>1 DEF Sorted
    <3> QED
      BY <3>1, <3>2
  <2>4. FirstError \in Waiting /\ FirstError <= raised
    BY <2>1 DEF Waiting, Known
  <2>5. Known' /\ Unwinding' /\ CaughtInRaised'
    BY <1>1, <1>2, <2>2, <2>4 DEF Known, Unwinding, CaughtInRaised
  <2>6. CaughtStaysCaught'
    BY <1>1, <1>2, <2>4 DEF CaughtStaysCaught
  <2>7. DroppedOnlyBehindOlder'
    BY <1>1, <2>2, <2>3, SMTT(30) DEF DroppedOnlyBehindOlder, Waiting
  <2> QED
    BY <1>3, <2>5, <2>6, <2>7
<1> QED
  BY <1>4, <1>5

\* The invariant holds of every state of every behaviour.
LEMMA Inductive == Spec => []IInv
<1>1. Init => IInv
  BY EmptySeq DEF Init, CallbacksInit, IInv, TypeOK, CallbacksTypeOK, DrainedWhenIdle,
     Sorted, Known, Unwinding, CaughtStaysCaught, DroppedOnlyBehindOlder, Waiting,
     CaughtInRaised
<1>2. IInv /\ TypeOK' /\ [Next]_vars => IInv'
  BY QuietStep, BeginStep, FailStep, PropagateStep, CatchStep, EndStep DEF Next
<1> QED
  BY <1>1, <1>2, Typing, PTL DEF Spec

-----------------------------------------------------------------------------
\* callbacks.ts 37-43: the array is empty whenever no native call is in
\* progress, so no later, unrelated call throws an old error.
THEOREM DrainedTheorem == Spec => []DrainedWhenIdle
  BY Inductive, PTL DEF IInv

\* structs.ts 17-19: an error that a callback threw and no call throws was
\* dropped behind an older one that a call did throw.
THEOREM DroppedTheorem == Spec => []DroppedOnlyBehindOlder
  BY Inductive, PTL DEF IInv

\* callbacks.ts 39: an error is not thrown again once JS code caught it.
THEOREM CaughtTheorem == Spec => []CaughtStaysCaught
  BY Inductive, PTL DEF IInv

\* callbacks.ts 46-52: when no call begins while an error waits, every call
\* throws the first error of its own callbacks, at any nesting depth.
THEOREM ContractTheorem ==
    ASSUME NestAfterError = FALSE
    PROVE  Spec => KeepsContract
<1> USE DEF Level, Contract!Level
<1>1. Init => Contract!Init
  BY DEF Init, CallbacksInit, Contract!Init, Owed, FirstError
<1>2. TypeOK /\ TypeOK' /\ [Next]_vars => [Contract!Next]_(Contract!vars)
  <2> SUFFICES ASSUME TypeOK, TypeOK', [Next]_vars
               PROVE  [Contract!Next]_(Contract!vars)
    OBVIOUS
  <2> USE DEF TypeOK, CallbacksTypeOK, Contract!vars
  <2>1. CASE Begin
    <3>1. callbackErrors = <<>> /\ callbackErrors' = <<>>
      BY <2>1 DEF Begin, BeginCall
    <3>2. Owed' = Owed
      BY <3>1 DEF Owed, FirstError
    <3> QED
      BY <2>1, <3>2 DEF Begin, BeginCall, JsRuns, Contract!Next, Contract!Begin
  <2>2. CASE Callback
    <3>1. Owed' = Owed
      BY <2>2 DEF Callback, BeginCallback, Owed, FirstError
    <3> QED
      BY <2>2, <3>1 DEF Callback, BeginCallback, Contract!Next, Contract!Callback
  <2>3. CASE Return
    <3>1. Owed' = Owed
      BY <2>3 DEF Return, EndCallback, Owed, FirstError
    <3> QED
      BY <2>3, <3>1 DEF Return, EndCallback, InHandler, JsRuns, Contract!Next,
         Contract!Return
  <2>4. ASSUME NEW error \in Error, Record(error), thrown \in {NoError, error}
        PROVE  Contract!Next
    <3>1. /\ callbackErrors' = Append(callbackErrors, error)
          /\ calls' = calls /\ calls \in Level /\ running = "js" /\ running' = "enet"
          /\ thrown' = NoError
      BY <2>4 DEF Record, InHandler
    <3>2. FirstError' = IF FirstError = NoError THEN error ELSE FirstError
      <4>1. callbackErrors' # <<>> /\ FirstError' = callbackErrors'[1]
        BY <3>1, Push DEF FirstError
      <4>2. CASE callbackErrors = <<>>
        BY <3>1, <4>1, <4>2, FirstOfQueue, Push, EmptySeq
      <4>3. CASE callbackErrors # <<>>
        <5>1. FirstError = callbackErrors[1] /\ FirstError \in Error
              /\ 1 \in 1..Len(callbackErrors)
          BY <4>3, FirstOfQueue
        <5> QED
          BY <3>1, <4>1, <5>1, Push
      <4> QED
        BY <4>2, <4>3
    <3>3. Owed' = [Owed EXCEPT ![calls] = IF @ = NoError THEN error ELSE @]
      BY <3>1, <3>2 DEF Owed
    <3> QED
      BY <2>4, <3>1, <3>3 DEF Contract!Next, Contract!Fail
  <2>5. CASE Fail
    BY <2>4, <2>5 DEF Fail, FailCallback, JsRuns
  <2>6. CASE Propagate
    BY <2>4, <2>6 DEF Propagate, PropagateError
  <2>7. CASE Catch
    <3>1. Owed' = Owed
      BY <2>7 DEF Catch, CatchError, Owed, FirstError
    <3> QED
      BY <2>7, <3>1 DEF Catch, CatchError, Contract!Next, Contract!Catch
  <2>8. CASE End
    <3>1. calls \in Level /\ calls' = calls - 1 /\ callbackErrors' = <<>>
      BY <2>8 DEF End, EndCall
    <3>2. Owed' = [Owed EXCEPT ![calls] = NoError] /\ Owed[calls] = FirstError
      BY <3>1 DEF Owed, FirstError
    <3> QED
      BY <2>8, <3>1, <3>2 DEF End, EndCall, Contract!Next, Contract!End
  <2>9. CASE UNCHANGED vars
    <3>1. Owed' = Owed
      BY <2>9 DEF vars, cbVars, Owed, FirstError
    <3> QED
      BY <2>9, <3>1 DEF vars, cbVars
  <2> QED
    BY <2>1, <2>2, <2>3, <2>5, <2>6, <2>7, <2>8, <2>9 DEF Next
<1> QED
  BY <1>1, <1>2, Typing, PTL DEF Spec, KeepsContract, Contract!Spec
=============================================================================
