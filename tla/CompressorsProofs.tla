------------------------- MODULE CompressorsProofs --------------------------
(***************************************************************************)
(* Theorems about Compressors, for any number of hosts, compressors,       *)
(* contexts, errors and nested calls, whether callbacks use the host whose *)
(* compressor is being replaced or not.                                    *)
(***************************************************************************)
EXTENDS Compressors, TLAPS

\* What the calls in progress work on.  A host is not destroyed in a call that
\* works on it, so its call is below every other call on that host.
FramesOK ==
    \A level \in Level :
        /\ level > calls => frame[level] = Idle
        /\ frame[level].op \in {"idle", "call"} =>
               /\ frame[level].host = NoHost /\ frame[level].new = NullContext
               /\ ~frame[level].done
        /\ frame[level].op \in {"replace", "destroyHost"} => frame[level].host \in live
        /\ frame[level].op = "destroyHost" => frame[level].new = NullContext
        /\ frame[level].op = "destroyHost" =>
               \A below \in Level : below < level => frame[below].host # frame[level].host

\* A call on the stack has called the destroy of the host's compressor.
DestroyRuns(host) == \E level \in Level : frame[level].host = host /\ frame[level].done

\* So has a call below the one of this level.
DestroyRunsBelow(level) ==
    \E below \in Level :
        below < level /\ frame[below].host = frame[level].host /\ frame[below].done

\* Contexts are those of compress calls made so far; hosts that do not exist have none.
OnlyGiven ==
    /\ \A level \in Level : frame[level].new \in Context => frame[level].new <= last
    /\ \A host \in Host : context[host] \in Context => context[host] <= last
    /\ \A host \in Host \ live : context[host] = NullContext
    /\ \A c \in Context : c > last => compressors[c] = Absent /\ c \notin disturbed

\* A context is that of one call or of one host.
ContextsApart ==
    /\ \A i, j \in Level : i # j /\ frame[i].new = frame[j].new => frame[i].new \notin Context
    /\ \A g, h \in Host : g # h /\ context[g] = context[h] => context[g] \notin Context
    /\ \A level \in Level, host \in Host :
          frame[level].new = context[host] => context[host] \notin Context

\* The contexts that were given in the destroy of another one.  A host has one only
\* until the call that runs that destroy ends.
DisturbedOnly ==
    /\ \A level \in Level :
          frame[level].new \in Context =>
              (frame[level].new \in disturbed <=> DestroyRunsBelow(level))
    /\ \A host \in live : context[host] \in disturbed => DestroyRuns(host)

\* The entries of the Map are those the calls made, and destroy runs as they go.
EntriesOK ==
    /\ \A level \in Level :
          IF frame[level].new \in Context
          THEN /\ compressors[frame[level].new] = frame[level].compressor
               /\ frame[level].compressor # Absent
          ELSE frame[level].compressor = Absent
    /\ \A host \in live :
          IF context[host] \in Context
          THEN /\ given[host] # Absent
               /\ compressors[context[host]] \in {Absent, given[host]}
          ELSE given[host] = Absent
    /\ \A c \in Context :
          destroyed[c] = IF c <= last /\ compressors[c] = Absent THEN 1 ELSE 0

\* A call is about to copy the context into a host, or a host has it whose
\* compressor is not yet destroyed.
InUse(c) ==
    \/ \E level \in Level : frame[level].new = c
    \/ \E host \in live : context[host] = c /\ ~DestroyRuns(host)

MapOK == \A c \in Context \ disturbed : compressors[c] # Absent <=> InUse(c)

\* The inductive invariant.
IInv ==
    /\ TypeOK
    /\ FramesOK
    /\ OnlyGiven
    /\ ContextsApart
    /\ DisturbedOnly
    /\ EntriesOK
    /\ MapOK

-----------------------------------------------------------------------------
(* The stack of calls.                                                     *)

LEMMA CallTypes ==
    ASSUME CallbacksTypeOK, BeginCall \/ EndCall
    PROVE  CallbacksTypeOK'
  <1> USE CallbacksAssumption DEF CallbacksTypeOK
  <1>1. CASE BeginCall
    BY <1>1 DEF BeginCall, JsRuns
  <1>2. CASE EndCall
    BY <1>2 DEF EndCall, FirstError
  <1> QED BY <1>1, <1>2

LEMMA HandlerTypes ==
    ASSUME CallbacksTypeOK,
           \/ BeginCallback \/ EndCallback \/ PropagateError \/ CatchError
           \/ \E error \in Error : FailCallback(error)
    PROVE  CallbacksTypeOK' /\ calls' = calls
  <1> USE CallbacksAssumption DEF CallbacksTypeOK
  <1>1. ASSUME NEW error \in Error, Record(error)
        PROVE  CallbacksTypeOK' /\ calls' = calls
    <2>1. Append(callbackErrors, error) \in Seq(Error)
      OBVIOUS
    <2> QED BY <1>1, <2>1 DEF Record, InHandler
  <1>2. CASE BeginCallback \/ CatchError
    BY <1>2 DEF BeginCallback, CatchError
  <1>3. CASE EndCallback
    BY <1>3 DEF EndCallback, InHandler, JsRuns
  <1>4. CASE PropagateError
    BY <1>1, <1>4 DEF PropagateError
  <1>5. ASSUME NEW error \in Error, FailCallback(error)
        PROVE  CallbacksTypeOK' /\ calls' = calls
    BY <1>1, <1>5 DEF FailCallback
  <1> QED BY <1>2, <1>3, <1>4, <1>5

\* So it is when ENet runs a compressor, or compressorOf throws.
LEMMA RunTypes ==
    ASSUME CallbacksTypeOK, NEW c, Run(c)
    PROVE  CallbacksTypeOK' /\ calls' = calls
  <1>1. CASE compressors[c] # Absent
    BY <1>1, HandlerTypes DEF Run
  <1>2. CASE compressors[c] = Absent
    <2>1. PICK error \in Error : callbackErrors' \in {callbackErrors, Append(callbackErrors, error)}
      BY <1>2 DEF Run
    <2>2. Append(callbackErrors, error) \in Seq(Error)
      BY DEF CallbacksTypeOK
    <2> QED BY <1>2, <2>1, <2>2 DEF Run, CallbacksTypeOK
  <1> QED BY <1>1, <1>2

\* The level of the new call was idle, and so are those above it.
LEMMA Pushed ==
    ASSUME TypeOK, FramesOK, NEW op, NEW host, NEW new, NEW compressor,
           Push(op, host, new, compressor), op # "idle",
           [op |-> op, host |-> host, new |-> new, compressor |-> compressor, done |-> FALSE]
             \in Frame
    PROVE  /\ CallbacksTypeOK' /\ calls' = calls + 1 /\ calls' \in Level
           /\ frame' \in [Level -> Frame]
           /\ frame[calls'] = Idle
           /\ frame'[calls'] = [op |-> op, host |-> host, new |-> new,
                                compressor |-> compressor, done |-> FALSE]
           /\ \A level \in Level \ {calls'} : frame'[level] = frame[level]
           /\ \A level \in Level : frame'[level].op = "idle" <=> level > calls'
           /\ \A level \in Level : level > calls' => frame'[level] = Idle
  <1> USE CallbacksAssumption DEF Push
  <1>1. CallbacksTypeOK'
    BY CallTypes DEF TypeOK
  <1>2. calls' = calls + 1 /\ calls' \in Level /\ calls \in Nat
    BY DEF BeginCall, TypeOK, CallbacksTypeOK, Level
  <1>3. frame[calls'] = Idle
    BY <1>2 DEF FramesOK
  <1> QED BY <1>1, <1>2, <1>3 DEF TypeOK, FramesOK, Level

LEMMA Popped ==
    ASSUME TypeOK, FramesOK, Pop
    PROVE  /\ CallbacksTypeOK' /\ calls' = calls - 1 /\ calls \in Level
           /\ frame' \in [Level -> Frame]
           /\ frame'[calls] = Idle
           /\ \A level \in Level \ {calls} : frame'[level] = frame[level]
           /\ \A level \in Level : frame'[level].op = "idle" <=> level > calls'
           /\ \A level \in Level : level > calls' => frame'[level] = Idle
  <1> USE CallbacksAssumption, CompressorsAssumption DEF Pop
  <1>1. CallbacksTypeOK'
    BY CallTypes DEF TypeOK
  <1>2. calls' = calls - 1 /\ calls \in Level
    BY DEF EndCall, TypeOK, CallbacksTypeOK, Level
  <1>3. Idle \in Frame /\ Idle.op = "idle"
    BY DEF Idle, Frame
  <1>4. frame' \in [Level -> Frame]
    BY <1>2, <1>3 DEF TypeOK
  <1>5. frame'[calls] = Idle /\ \A level \in Level \ {calls} : frame'[level] = frame[level]
    BY <1>2 DEF TypeOK
  <1>6. ASSUME NEW level \in Level
        PROVE  /\ frame'[level].op = "idle" <=> level > calls'
               /\ level > calls' => frame'[level] = Idle
    <2>1. level \in Nat /\ calls \in Nat
      BY <1>2 DEF Level
    <2>2. CASE level = calls
      BY <1>2, <1>3, <1>5, <2>1, <2>2
    <2>3. CASE level # calls
      <3>1. level > calls' <=> level > calls
        BY <1>2, <2>1, <2>3
      <3>2. frame[level].op = "idle" <=> level > calls
        BY DEF TypeOK
      <3>3. level > calls => frame[level] = Idle
        BY DEF FramesOK
      <3> QED BY <1>5, <2>3, <3>1, <3>2, <3>3
    <2> QED BY <2>2, <2>3
  <1> QED BY <1>1, <1>2, <1>4, <1>5, <1>6

\* What the idle frame has.
LEMMA IdleFrame ==
    /\ Idle.op = "idle" /\ Idle.host = NoHost /\ Idle.new = NullContext
    /\ Idle.compressor = Absent /\ Idle.done = FALSE
    /\ NullContext \notin Context /\ RangeCoder \notin Context /\ NoHost \notin Host
  BY CompressorsAssumption DEF Idle, NullContext, Context

-----------------------------------------------------------------------------
(* Steps that change no compressor.                                        *)

LEMMA InitInv == Init => IInv
  <1> SUFFICES ASSUME Init PROVE IInv
    OBVIOUS
  <1> USE CallbacksAssumption, CompressorsAssumption, IdleFrame DEF Init, CallbacksInit
  <1>1. TypeOK
    BY DEF TypeOK, CallbacksTypeOK, Level, Idle, Frame, NullContext, Context
  <1>2. FramesOK /\ OnlyGiven /\ ContextsApart
    BY DEF FramesOK, OnlyGiven, ContextsApart, Level
  <1>3. DisturbedOnly /\ EntriesOK
    BY DEF DisturbedOnly, EntriesOK, NullContext, Context
  <1>4. MapOK
    BY DEF MapOK, InUse
  <1> QED BY <1>1, <1>2, <1>3, <1>4 DEF IInv

LEMMA HandlerInv ==
    ASSUME IInv, UNCHANGED coVars, CallbacksTypeOK', calls' = calls
    PROVE  IInv'
  <1> USE DEF IInv, coVars
  <1>1. TypeOK' /\ FramesOK'
    BY DEF TypeOK, FramesOK
  <1>2. OnlyGiven' /\ ContextsApart'
    BY DEF OnlyGiven, ContextsApart
  <1>3. DisturbedOnly'
    BY DEF DisturbedOnly, DestroyRuns, DestroyRunsBelow
  <1>4. EntriesOK' /\ MapOK'
    BY DEF EntriesOK, MapOK, InUse, DestroyRuns
  <1> QED BY <1>1, <1>2, <1>3, <1>4

\* Of a frame that comes or goes only these matter.
LEMMA FrameInv ==
    ASSUME IInv, FramesOK', TypeOK',
           UNCHANGED <<live, context, last, compressors, given, destroyed, disturbed>>,
           NEW top \in Level,
           \A level \in Level \ {top} : frame'[level] = frame[level],
           ~frame[top].done, ~frame'[top].done,
           frame[top].new \notin Context, frame'[top].new \notin Context,
           frame'[top].compressor = Absent
    PROVE  IInv'
  <1> USE DEF IInv
  <1>1. OnlyGiven' /\ ContextsApart'
    BY DEF OnlyGiven, ContextsApart
  <1>2. \A host \in Host : DestroyRuns(host)' <=> DestroyRuns(host)
    BY DEF DestroyRuns
  <1>3. \A level \in Level \ {top} : DestroyRunsBelow(level)' <=> DestroyRunsBelow(level)
    BY DEF DestroyRunsBelow
  <1>4. DisturbedOnly'
    BY <1>2, <1>3 DEF DisturbedOnly, TypeOK
  <1>5. EntriesOK'
    BY DEF EntriesOK
  <1>6. MapOK'
    BY <1>2 DEF MapOK, InUse, TypeOK
  <1> QED BY <1>1, <1>4, <1>5, <1>6
\* Call, BeginClear, BeginRangeCoder, BeginDestroy
LEMMA PushInv ==
    ASSUME IInv, NEW op \in {"call", "replace", "destroyHost"}, NEW host \in Host \cup {NoHost},
           NEW new \in {NullContext, RangeCoder}, Push(op, host, new, Absent),
           UNCHANGED <<live, context, last, compressors, given, destroyed, disturbed>>,
           op = "call" => host = NoHost,
           op # "call" => host \in live,
           op # "replace" => new = NullContext,
           op = "destroyHost" => ~BeingReplaced(host)
    PROVE  IInv'
  <1> USE IdleFrame
  <1> DEFINE pushed == [op |-> op, host |-> host, new |-> new, compressor |-> Absent, done |-> FALSE]
  <1>1. pushed \in Frame /\ op # "idle"
    BY DEF Frame
  <1>2. /\ CallbacksTypeOK' /\ calls' = calls + 1 /\ calls' \in Level
        /\ frame' \in [Level -> Frame]
        /\ frame[calls'] = Idle
        /\ frame'[calls'] = pushed
        /\ \A level \in Level \ {calls'} : frame'[level] = frame[level]
        /\ \A level \in Level : frame'[level].op = "idle" <=> level > calls'
        /\ \A level \in Level : level > calls' => frame'[level] = Idle
    BY <1>1, Pushed DEF IInv
  <1>3. /\ frame'[calls'].op = op /\ frame'[calls'].host = host /\ frame'[calls'].new = new
        /\ frame'[calls'].compressor = Absent /\ frame'[calls'].done = FALSE
    BY <1>2
  <1>4. TypeOK'
    BY <1>2 DEF IInv, TypeOK
  <1>5. op = "destroyHost" =>
            \A below \in Level : below < calls' => frame[below].host # host
    BY <1>2 DEF BeingReplaced, Level, IInv, TypeOK, CallbacksTypeOK
  <1> HIDE DEF pushed
  <1>6. FramesOK'
    BY <1>2, <1>3, <1>5, CallbacksAssumption DEF IInv, FramesOK, Level
  <1>7. ~frame[calls'].done /\ frame[calls'].new \notin Context
    BY <1>2
  <1> QED BY <1>2, <1>3, <1>4, <1>6, <1>7, FrameInv

\* EndOtherCall, FailRangeCoder
LEMMA PopInv ==
    ASSUME IInv, Pop, ~frame[calls].done, frame[calls].new \notin Context,
           UNCHANGED <<live, context, last, compressors, given, destroyed, disturbed>>
    PROVE  IInv'
  <1> USE IdleFrame
  <1>1. /\ CallbacksTypeOK' /\ calls' = calls - 1 /\ calls \in Level
        /\ frame' \in [Level -> Frame]
        /\ frame'[calls] = Idle
        /\ \A level \in Level \ {calls} : frame'[level] = frame[level]
        /\ \A level \in Level : frame'[level].op = "idle" <=> level > calls'
        /\ \A level \in Level : level > calls' => frame'[level] = Idle
    BY Popped DEF IInv
  <1>2. TypeOK'
    BY <1>1 DEF IInv, TypeOK
  <1>3. FramesOK'
    BY <1>1, CallbacksAssumption DEF IInv, FramesOK, Level
  <1> QED BY <1>1, <1>2, <1>3, FrameInv

\* The call on top of the stack has a frame.
LEMMA OtherCallFrame ==
    ASSUME IInv, EnetRuns("call") \/ EnetRuns("replace") \/ EnetRuns("destroyHost")
    PROVE  calls \in Level /\ frame[calls] \in Frame
  BY CallbacksAssumption DEF EnetRuns, IInv, TypeOK, CallbacksTypeOK, Level

LEMMA CreateInv ==
    ASSUME IInv, NEW host \in Host, Create(host)
    PROVE  IInv'
  <1> USE IdleFrame DEF IInv, Create, cbVars
  <1>1. \A level \in Level : frame[level].host # host
    BY DEF FramesOK, TypeOK, Frame
  <1>2. TypeOK'
    BY DEF TypeOK, CallbacksTypeOK
  <1>3. FramesOK'
    BY DEF FramesOK
  <1>4. \A h \in Host : context'[h] = IF h = host THEN NullContext ELSE context[h]
    BY DEF TypeOK
  <1>5. OnlyGiven' /\ ContextsApart'
    BY <1>4 DEF OnlyGiven, ContextsApart
  <1>6. NullContext \notin disturbed
    BY DEF TypeOK
  <1>7. \A level \in Level : DestroyRunsBelow(level)' <=> DestroyRunsBelow(level)
    BY DEF DestroyRunsBelow
  <1>8. \A h \in Host : DestroyRuns(h)' <=> DestroyRuns(h)
    BY DEF DestroyRuns
  <1>9. DisturbedOnly'
    BY <1>4, <1>6, <1>7, <1>8 DEF DisturbedOnly, TypeOK
  <1>10. EntriesOK'
    BY <1>4 DEF EntriesOK, TypeOK
  <1>11. MapOK'
    BY <1>4, <1>8 DEF MapOK, InUse, TypeOK
  <1> QED BY <1>2, <1>3, <1>5, <1>9, <1>10, <1>11

-----------------------------------------------------------------------------
(* Steps that change a compressor.                                         *)

\* The calls that run the destroy of the host's compressor are in progress.
LEMMA DestroyingRuns ==
    ASSUME TypeOK, FramesOK, NEW host \in Host
    PROVE  Destroying(host) # {} <=> DestroyRuns(host)
  <1>1. 1..calls \subseteq Level /\ calls \in Nat
    BY CallbacksAssumption DEF TypeOK, CallbacksTypeOK, Level
  <1>2. ASSUME NEW level \in Level, frame[level].host = host PROVE level \in 1..calls
    BY <1>1, <1>2, IdleFrame DEF FramesOK, Level
  <1> QED BY <1>1, <1>2 DEF Destroying, DestroyRuns

LEMMA BeginCompressInv ==
    ASSUME IInv, NEW host \in Host, NEW compressor \in Compressor,
           BeginCompress(host, compressor)
    PROVE  IInv'
  <1> USE IdleFrame
  <1> DEFINE new == last + 1
             pushed == [op |-> "replace", host |-> host, new |-> new,
                        compressor |-> compressor, done |-> FALSE]
  <1>1. /\ new \in Context /\ last' = new /\ new > last /\ last \in Nat /\ compressor # Absent
    BY CompressorsAssumption
    DEF BeginCompress, IInv, TypeOK, Context, NullContext
  <1>2. /\ compressors' = [compressors EXCEPT ![new] = compressor]
        /\ host \in live /\ Push("replace", host, new, compressor)
        /\ UNCHANGED <<live, context, given, destroyed>>
        /\ disturbed' = IF Destroying(host) = {} THEN disturbed
                        ELSE disturbed \cup ({new} \cap Context)
    BY DEF BeginCompress, Replace, NewContext, Usable
  <1> HIDE DEF new
  <1>3. pushed \in Frame
    BY <1>1 DEF Frame
  <1>4. /\ CallbacksTypeOK' /\ calls' = calls + 1 /\ calls' \in Level
        /\ frame' \in [Level -> Frame]
        /\ frame[calls'] = Idle
        /\ frame'[calls'] = pushed
        /\ \A level \in Level \ {calls'} : frame'[level] = frame[level]
        /\ \A level \in Level : frame'[level].op = "idle" <=> level > calls'
        /\ \A level \in Level : level > calls' => frame'[level] = Idle
    BY <1>2, <1>3, Pushed DEF IInv
  <1>5. /\ frame'[calls'].op = "replace" /\ frame'[calls'].host = host
        /\ frame'[calls'].new = new /\ frame'[calls'].compressor = compressor
        /\ frame'[calls'].done = FALSE
    BY <1>4
  <1> HIDE DEF pushed
  <1>6. \A c \in Context : compressors'[c] = IF c = new THEN compressor ELSE compressors[c]
    BY <1>2 DEF IInv, TypeOK
  <1>7. Destroying(host) # {} <=> DestroyRuns(host)
    BY DestroyingRuns DEF IInv
  <1>8. \A h \in Host : DestroyRuns(h)' <=> DestroyRuns(h)
    BY <1>4, <1>5 DEF DestroyRuns
  <1>9. /\ \A level \in Level \ {calls'} : DestroyRunsBelow(level)' <=> DestroyRunsBelow(level)
        /\ \A level \in Level : level = calls' => (DestroyRunsBelow(level)' <=> DestroyRuns(host))
    <2>1. \A level \in Level : level >= calls' => frame[level].host = NoHost /\ ~frame[level].done
      BY <1>4 DEF Level, IInv, TypeOK, CallbacksTypeOK, FramesOK
    <2>2. \A level \in Level \ {calls'} : DestroyRunsBelow(level)' <=> DestroyRunsBelow(level)
      BY <1>4, <1>5, <2>1 DEF DestroyRunsBelow
    <2>3. ASSUME NEW level \in Level, level = calls'
          PROVE  DestroyRunsBelow(level)' <=> DestroyRuns(host)
      <3>1. \A below \in Level : below < level <=> ~(below >= calls')
        BY <2>3, CallbacksAssumption DEF Level
      <3> QED BY <1>4, <1>5, <2>1, <2>3, <3>1 DEF DestroyRunsBelow, DestroyRuns
    <2> QED BY <2>2, <2>3
  <1>10. /\ \A level \in Level : frame[level].new # new
         /\ \A h \in Host : context[h] # new
         /\ new \notin disturbed /\ compressors[new] = Absent
    BY <1>1 DEF IInv, OnlyGiven, Context
  <1>11. TypeOK'
    BY <1>1, <1>2, <1>4 DEF IInv, TypeOK
  <1>12. FramesOK'
    BY <1>2, <1>4, <1>5, CallbacksAssumption DEF IInv, FramesOK, Level
  <1>13. OnlyGiven'
    BY <1>1, <1>2, <1>4, <1>5, <1>6 DEF IInv, OnlyGiven, Context
  <1>14. ContextsApart'
    BY <1>2, <1>4, <1>5, <1>10 DEF IInv, ContextsApart
  <1>15. DisturbedOnly'
    <2>1. /\ new \in disturbed' <=> DestroyRuns(host)
          /\ \A c \in Context : c # new => (c \in disturbed' <=> c \in disturbed)
      BY <1>1, <1>2, <1>7, <1>10
    <2>2. ASSUME NEW level \in Level, frame'[level].new \in Context
          PROVE  frame'[level].new \in disturbed' <=> DestroyRunsBelow(level)'
      <3>1. CASE level = calls'
        BY <1>5, <1>9, <2>1, <3>1
      <3>2. CASE level # calls'
        BY <1>4, <1>9, <1>10, <2>1, <2>2, <3>2 DEF IInv, DisturbedOnly
      <3> QED BY <3>1, <3>2
    <2>3. ASSUME NEW h \in live', context'[h] \in disturbed' PROVE DestroyRuns(h)'
      <3>1. h \in Host /\ h \in live /\ context'[h] = context[h] /\ context[h] # new
        BY <1>2, <1>10 DEF IInv, TypeOK
      <3>2. context[h] \in disturbed
        BY <1>2, <2>3, <3>1
      <3> QED BY <1>8, <3>1, <3>2 DEF IInv, DisturbedOnly
    <2> QED BY <2>2, <2>3 DEF DisturbedOnly
  <1>16. EntriesOK'
    <2>1. ASSUME NEW level \in Level
          PROVE  IF frame'[level].new \in Context
                 THEN /\ compressors'[frame'[level].new] = frame'[level].compressor
                      /\ frame'[level].compressor # Absent
                 ELSE frame'[level].compressor = Absent
      <3>1. CASE level = calls'
        BY <1>1, <1>5, <1>6, <3>1
      <3>2. CASE level # calls'
        BY <1>4, <1>6, <1>10, <3>2 DEF IInv, EntriesOK
      <3> QED BY <3>1, <3>2
    <2>2. ASSUME NEW h \in live'
          PROVE  IF context'[h] \in Context
                 THEN /\ given'[h] # Absent
                      /\ compressors'[context'[h]] \in {Absent, given'[h]}
                 ELSE given'[h] = Absent
      BY <1>2, <1>6, <1>10, <2>2 DEF IInv, EntriesOK, TypeOK
    <2>3. ASSUME NEW c \in Context
          PROVE  destroyed'[c] = IF c <= last' /\ compressors'[c] = Absent THEN 1 ELSE 0
      <3>1. destroyed[c] = IF c <= last /\ compressors[c] = Absent THEN 1 ELSE 0
        BY DEF IInv, EntriesOK
      <3>2. c \in Nat /\ (c <= last' <=> c <= last \/ c = new)
        BY <1>1 DEF new, Context
      <3> QED BY <1>1, <1>2, <1>6, <3>1, <3>2
    <2> QED BY <2>1, <2>2, <2>3 DEF EntriesOK
  <1>17. MapOK'
    BY <1>1, <1>2, <1>4, <1>5, <1>6, <1>8, <1>10 DEF IInv, MapOK, InUse, TypeOK
  <1> QED BY <1>11, <1>12, <1>13, <1>14, <1>15, <1>16, <1>17 DEF IInv

LEMMA RunDestroyInv ==
    ASSUME IInv, RunDestroy
    PROVE  IInv'
  <1> USE IdleFrame
  <1> DEFINE host == frame[calls].host
             old == context[host]
  <1>1. calls \in Level /\ frame[calls] \in Frame
    BY OtherCallFrame DEF RunDestroy
  <1>2. /\ host \in live /\ host \in Host /\ old \in Context /\ ~frame[calls].done
        /\ frame[calls].op \in {"replace", "destroyHost"}
    BY <1>1 DEF RunDestroy, EnetRuns, MustDestroy, Top, IInv, FramesOK, TypeOK
  <1>3. /\ Run(old)
        /\ frame' = [frame EXCEPT ![calls].done = TRUE]
        /\ compressors' = [compressors EXCEPT ![old] = Absent]
        /\ destroyed' = [destroyed EXCEPT
                           ![old] = IF compressors[old] = Absent THEN @ ELSE @ + 1]
        /\ UNCHANGED <<live, context, last, given, disturbed>>
    BY DEF RunDestroy, Forget, Top
  <1>4. CallbacksTypeOK' /\ calls' = calls
    BY <1>3, RunTypes DEF IInv, TypeOK
  <1> HIDE DEF old, host
  <1>5. frame' \in [Level -> Frame]
    BY <1>1, <1>3 DEF IInv, TypeOK, Frame
  <1>6. /\ \A level \in Level : /\ frame'[level].op = frame[level].op
                                /\ frame'[level].host = frame[level].host
                                /\ frame'[level].new = frame[level].new
                                /\ frame'[level].compressor = frame[level].compressor
        /\ \A level \in Level \ {calls} : frame'[level] = frame[level]
        /\ frame'[calls].done
    BY <1>1, <1>3 DEF IInv, TypeOK, Frame
  <1>7. /\ \A c \in Context : compressors'[c] = IF c = old THEN Absent ELSE compressors[c]
        /\ \A c \in Context : destroyed'[c] =
               IF c = old /\ compressors[c] # Absent THEN destroyed[c] + 1 ELSE destroyed[c]
    BY <1>2, <1>3 DEF IInv, TypeOK
  <1>8. \A h \in Host : DestroyRuns(h)' <=> DestroyRuns(h) \/ h = host
    BY <1>1, <1>6 DEF DestroyRuns, host
  <1>9. \A level \in Level : level <= calls => (DestroyRunsBelow(level)' <=> DestroyRunsBelow(level))
    BY <1>1, <1>6 DEF DestroyRunsBelow, Level
  <1>10. /\ \A level \in Level : frame[level].new # old
         /\ \A h \in Host : h # host => context[h] # old
    BY <1>2 DEF IInv, ContextsApart, old
  <1>11. old <= last
    BY <1>2 DEF IInv, OnlyGiven, old
  <1>12. TypeOK'
    BY <1>2, <1>3, <1>4, <1>5, <1>6, <1>7, CompressorsAssumption DEF IInv, TypeOK
  <1>13. FramesOK'
    BY <1>1, <1>2, <1>3, <1>4, <1>6, CallbacksAssumption DEF IInv, FramesOK, Level
  <1>14. OnlyGiven'
    BY <1>3, <1>6, <1>7 DEF IInv, OnlyGiven
  <1>15. ContextsApart'
    BY <1>3, <1>6 DEF IInv, ContextsApart
  <1>16. DisturbedOnly'
    <2>1. \A level \in Level : level > calls => frame[level].new \notin Context
      BY DEF IInv, FramesOK
    <2> QED
      BY <1>3, <1>6, <1>8, <1>9, <2>1, <1>1 DEF IInv, DisturbedOnly, TypeOK, Level
  <1>17. EntriesOK'
    BY <1>2, <1>3, <1>6, <1>7, <1>10, <1>11 DEF IInv, EntriesOK, TypeOK
  <1>18. MapOK'
    BY <1>2, <1>3, <1>6, <1>7, <1>8, <1>10 DEF IInv, MapOK, InUse, TypeOK, old
  <1> QED BY <1>12, <1>13, <1>14, <1>15, <1>16, <1>17, <1>18 DEF IInv
LEMMA EndReplaceInv ==
    ASSUME IInv, EndReplace
    PROVE  IInv'
  <1> USE IdleFrame
  <1> DEFINE new == frame[calls].new
  <1>1. /\ CallbacksTypeOK' /\ calls' = calls - 1 /\ calls \in Level
        /\ frame' \in [Level -> Frame]
        /\ frame'[calls] = Idle
        /\ \A level \in Level \ {calls} : frame'[level] = frame[level]
        /\ \A level \in Level : frame'[level].op = "idle" <=> level > calls'
        /\ \A level \in Level : level > calls' => frame'[level] = Idle
    BY Popped DEF EndReplace, IInv
  <1>2. PICK host \in live :
            /\ frame[calls].op = "replace" /\ host = frame[calls].host /\ host \in Host
            /\ frame[calls] \in Frame
            /\ context[host] \in Context => frame[calls].done
    BY <1>1 DEF EndReplace, EnetRuns, MustDestroy, Top, IInv, FramesOK, TypeOK
  <1>3. /\ context' = [context EXCEPT ![host] = new]
        /\ given' = [given EXCEPT ![host] = frame[calls].compressor]
        /\ UNCHANGED <<live, last, compressors, destroyed, disturbed>>
    BY <1>2 DEF EndReplace, Top
  <1>4. /\ \A h \in Host : context'[h] = IF h = host THEN new ELSE context[h]
        /\ \A h \in Host : given'[h] = IF h = host THEN frame[calls].compressor ELSE given[h]
    BY <1>3 DEF IInv, TypeOK
  <1>5. TypeOK'
    <2>1. new \in Context \cup {NullContext, RangeCoder} /\ frame[calls].compressor \in Compressor \cup {Absent}
      BY <1>2 DEF Frame
    <2> QED BY <1>1, <1>3, <2>1 DEF IInv, TypeOK
  <1> HIDE DEF new
  <1>6. FramesOK'
    BY <1>1, <1>3, CallbacksAssumption DEF IInv, FramesOK, Level
  <1>7. /\ \A h \in Host : h # host => (DestroyRuns(h)' <=> DestroyRuns(h))
        /\ DestroyRunsBelow(calls) => DestroyRuns(host)'
    BY <1>1, <1>2 DEF DestroyRuns, DestroyRunsBelow, Level
  <1>8. DestroyRuns(host)' => DestroyRunsBelow(calls)
    <2> SUFFICES ASSUME NEW level \in Level, frame'[level].host = host, frame'[level].done
                 PROVE  DestroyRunsBelow(calls)
      BY DEF DestroyRuns
    <2>1. level < calls /\ frame'[level] = frame[level]
      BY <1>1, <1>2 DEF Level
    <2> QED BY <1>2, <2>1 DEF DestroyRunsBelow
  <1>9. \A level \in Level : level < calls => (DestroyRunsBelow(level)' <=> DestroyRunsBelow(level))
    BY <1>1 DEF DestroyRunsBelow, Level
  <1>10. OnlyGiven'
    BY <1>1, <1>2, <1>3, <1>4 DEF IInv, OnlyGiven, new
  <1>11. ContextsApart'
    BY <1>1, <1>2, <1>3, <1>4 DEF IInv, ContextsApart, new
  <1>12. DisturbedOnly'
    <2>1. ASSUME NEW level \in Level, frame'[level].new \in Context
          PROVE  frame'[level].new \in disturbed' <=> DestroyRunsBelow(level)'
      <3>1. level < calls /\ frame'[level] = frame[level]
        BY <1>1, <2>1 DEF Level
      <3> QED BY <1>3, <1>9, <2>1, <3>1 DEF IInv, DisturbedOnly
    <2>2. ASSUME NEW h \in live, context'[h] \in disturbed PROVE DestroyRuns(h)'
      <3>1. CASE h = host
        BY <1>1, <1>2, <1>4, <1>7, <2>2, <3>1 DEF IInv, DisturbedOnly, TypeOK, new
      <3>2. CASE h # host
        BY <1>4, <1>7, <2>2, <3>2 DEF IInv, DisturbedOnly, TypeOK
      <3> QED BY <3>1, <3>2
    <2> QED BY <1>3, <2>1, <2>2 DEF DisturbedOnly
  <1>13. EntriesOK'
    <2>1. ASSUME NEW level \in Level
          PROVE  IF frame'[level].new \in Context
                 THEN /\ compressors'[frame'[level].new] = frame'[level].compressor
                      /\ frame'[level].compressor # Absent
                 ELSE frame'[level].compressor = Absent
      BY <1>1, <1>3 DEF IInv, EntriesOK
    <2>2. ASSUME NEW h \in live
          PROVE  IF context'[h] \in Context
                 THEN /\ given'[h] # Absent
                      /\ compressors'[context'[h]] \in {Absent, given'[h]}
                 ELSE given'[h] = Absent
      BY <1>1, <1>3, <1>4 DEF IInv, EntriesOK, TypeOK, new
    <2> QED BY <1>3, <2>1, <2>2 DEF IInv, EntriesOK
  <1>14. MapOK'
    <2> SUFFICES ASSUME NEW c \in Context \ disturbed
                 PROVE  compressors[c] # Absent <=> InUse(c)'
      BY <1>3 DEF MapOK
    <2>1. CASE c = new
      <3>1. ~DestroyRunsBelow(calls)
        BY <1>1, <2>1 DEF IInv, DisturbedOnly, new
      <3>2. InUse(c)'
        BY <1>2, <1>3, <1>4, <1>8, <2>1, <3>1 DEF InUse
      <3> QED BY <1>1, <2>1, <3>2 DEF IInv, EntriesOK, new
    <2>2. CASE c # new
      <3>1. context[host] = c => DestroyRuns(host)
        BY <1>1, <1>2 DEF DestroyRuns
      <3>2. InUse(c)' <=> InUse(c)
        BY <1>1, <1>3, <1>4, <1>7, <2>2, <3>1 DEF InUse, new, IInv, TypeOK
      <3> QED BY <3>2 DEF IInv, MapOK
    <2> QED BY <2>1, <2>2
  <1> QED BY <1>5, <1>6, <1>10, <1>11, <1>12, <1>13, <1>14 DEF IInv

LEMMA EndDestroyInv ==
    ASSUME IInv, EndDestroy
    PROVE  IInv'
  <1> USE IdleFrame
  <1> DEFINE host == frame[calls].host
  <1>1. /\ CallbacksTypeOK' /\ calls' = calls - 1 /\ calls \in Level
        /\ frame' \in [Level -> Frame]
        /\ frame'[calls] = Idle
        /\ \A level \in Level \ {calls} : frame'[level] = frame[level]
        /\ \A level \in Level : frame'[level].op = "idle" <=> level > calls'
        /\ \A level \in Level : level > calls' => frame'[level] = Idle
    BY Popped DEF EndDestroy, IInv
  <1>2. /\ frame[calls].op = "destroyHost" /\ host \in live /\ host \in Host
        /\ frame[calls].new = NullContext
        /\ context[host] \in Context => frame[calls].done
    BY <1>1 DEF EndDestroy, EnetRuns, MustDestroy, Top, IInv, FramesOK, TypeOK
  <1>3. /\ live' = live \ {host}
        /\ context' = [context EXCEPT ![host] = NullContext]
        /\ given' = [given EXCEPT ![host] = Absent]
        /\ UNCHANGED <<last, compressors, destroyed, disturbed>>
    BY DEF EndDestroy, Top
  <1>4. /\ \A h \in Host : context'[h] = IF h = host THEN NullContext ELSE context[h]
        /\ \A h \in Host : h # host => given'[h] = given[h]
    BY <1>3 DEF IInv, TypeOK
  <1>5. \A level \in Level \ {calls} : frame[level].host # host
    BY <1>1, <1>2 DEF IInv, FramesOK, Level
  <1>6. TypeOK'
    BY <1>1, <1>3 DEF IInv, TypeOK
  <1> HIDE DEF host
  <1>7. FramesOK'
    BY <1>1, <1>3, <1>5, CallbacksAssumption DEF IInv, FramesOK, Level
  <1>8. \A h \in Host : h # host => (DestroyRuns(h)' <=> DestroyRuns(h))
    BY <1>1 DEF DestroyRuns, host
  <1>9. \A level \in Level : level < calls => (DestroyRunsBelow(level)' <=> DestroyRunsBelow(level))
    BY <1>1 DEF DestroyRunsBelow, Level
  <1>10. OnlyGiven'
    BY <1>1, <1>3, <1>4 DEF IInv, OnlyGiven
  <1>11. ContextsApart'
    BY <1>1, <1>3, <1>4 DEF IInv, ContextsApart
  <1>12. DisturbedOnly'
    <2>1. ASSUME NEW level \in Level, frame'[level].new \in Context
          PROVE  frame'[level].new \in disturbed' <=> DestroyRunsBelow(level)'
      <3>1. level < calls /\ frame'[level] = frame[level]
        BY <1>1, <2>1 DEF Level
      <3> QED BY <1>3, <1>9, <2>1, <3>1 DEF IInv, DisturbedOnly
    <2>2. ASSUME NEW h \in live', context'[h] \in disturbed PROVE DestroyRuns(h)'
      BY <1>3, <1>4, <1>8, <2>2 DEF IInv, DisturbedOnly, TypeOK
    <2> QED BY <1>3, <2>1, <2>2 DEF DisturbedOnly
  <1>13. EntriesOK'
    BY <1>1, <1>3, <1>4 DEF IInv, EntriesOK, TypeOK
  <1>14. MapOK'
    <2> SUFFICES ASSUME NEW c \in Context \ disturbed
                 PROVE  compressors[c] # Absent <=> InUse(c)'
      BY <1>3 DEF MapOK
    <2>1. context[host] = c => DestroyRuns(host)
      BY <1>1, <1>2 DEF DestroyRuns, host
    <2>2. InUse(c)' <=> InUse(c)
      BY <1>1, <1>2, <1>3, <1>4, <1>8, <2>1 DEF InUse, IInv, TypeOK
    <2> QED BY <2>2 DEF IInv, MapOK
  <1> QED BY <1>6, <1>7, <1>10, <1>11, <1>12, <1>13, <1>14 DEF IInv

-----------------------------------------------------------------------------
LEMMA NextInv ==
    ASSUME IInv, [Next]_vars
    PROVE  IInv'
  <1> USE IdleFrame
  <1>1. CASE Call
    BY <1>1, PushInv DEF Call
  <1>2. CASE EndOtherCall \/ FailRangeCoder
    <2>1. Pop /\ ~frame[calls].done /\ frame[calls].new \notin Context
      BY <1>2, OtherCallFrame DEF EndOtherCall, FailRangeCoder, EnetRuns, Top, IInv, FramesOK
    <2> QED BY <1>2, <2>1, PopInv DEF EndOtherCall, FailRangeCoder
  <1>3. CASE RunDestroy \/ EndReplace \/ EndDestroy
    BY <1>3, RunDestroyInv, EndReplaceInv, EndDestroyInv
  <1>4. CASE FreePacket \/ HandlerReturns \/ HandlerFails \/ Catch
    BY <1>4, HandlerTypes, HandlerInv
    DEF FreePacket, HandlerReturns, HandlerFails, Catch, IInv, TypeOK
  <1>5. ASSUME NEW host \in Host, Create(host) PROVE IInv'
    BY <1>5, CreateInv
  <1>6. ASSUME NEW host \in Host, RunCompressor(host) PROVE IInv'
    BY <1>6, RunTypes, HandlerInv DEF RunCompressor, IInv, TypeOK
  <1>7. ASSUME NEW host \in Host, NEW new \in {NullContext, RangeCoder}, Replace(host, new, Absent),
               UNCHANGED <<live, context, last, compressors, given, destroyed>>
        PROVE  IInv'
    <2>1. disturbed' = disturbed /\ host \in live /\ Push("replace", host, new, Absent)
      BY <1>7 DEF Replace, Usable
    <2> QED BY <1>7, <2>1, PushInv
  <1>8. ASSUME NEW host \in Host, BeginClear(host) \/ BeginRangeCoder(host) PROVE IInv'
    BY <1>7, <1>8 DEF BeginClear, BeginRangeCoder
  <1>9. ASSUME NEW host \in Host, NEW compressor \in Compressor, BeginCompress(host, compressor)
        PROVE  IInv'
    BY <1>9, BeginCompressInv
  <1>10. ASSUME NEW host \in Host, BeginDestroy(host) PROVE IInv'
    BY <1>10, PushInv DEF BeginDestroy
  <1>11. CASE UNCHANGED vars
    BY <1>11, HandlerInv DEF vars, cbVars, IInv, TypeOK, CallbacksTypeOK
  <1> QED
    BY <1>1, <1>2, <1>3, <1>4, <1>5, <1>6, <1>8, <1>9, <1>10, <1>11 DEF Next

LEMMA Inductive == Spec => []IInv
  <1>1. IInv /\ [Next]_vars => IInv'
    BY NextInv
  <1> QED BY InitInv, <1>1, PTL DEF Spec

\* Held of the specification is InUse of the invariant.
LEMMA HeldInUse ==
    ASSUME IInv, NEW c \in Context
    PROVE  Held(c) <=> InUse(c)
  <1>1. 1..calls \subseteq Level /\ calls \in Nat
    BY CallbacksAssumption DEF IInv, TypeOK, CallbacksTypeOK, Level
  <1>2. ASSUME NEW level \in Level, frame[level].new = c PROVE level \in 1..calls
    BY <1>1, <1>2, IdleFrame DEF IInv, FramesOK, Level
  <1>3. \A host \in live : Destroying(host) = {} <=> ~DestroyRuns(host)
    BY DestroyingRuns DEF IInv, TypeOK
  <1> QED BY <1>1, <1>2, <1>3 DEF Held, InUse

\* The variables have their types.
THEOREM Typing == Spec => []TypeOK
  BY Inductive, PTL DEF IInv

\* compressor.ts 84-91: the Map holds exactly what ENet can still pass back.
THEOREM MapTheorem == Spec => []MapHoldsWhatEnetHolds
  <1>1. IInv => MapHoldsWhatEnetHolds
    BY HeldInUse DEF IInv, MapOK, MapHoldsWhatEnetHolds
  <1> QED BY <1>1, Inductive, PTL

\* structs.ts 69-71: destroy runs once for each host a compressor is given to.
THEOREM DestroyedTheorem == Spec => []DestroyedOnce
  <1>1. IInv => DestroyedOnce
    <2> SUFFICES ASSUME IInv, NEW c \in 1..last
                 PROVE  \/ destroyed[c] = IF Held(c) THEN 0 ELSE 1
                        \/ c \in disturbed /\ destroyed[c] \in {0, 1}
      BY DEF DestroyedOnce
    <2>1. c \in Context /\ c <= last
      BY CompressorsAssumption DEF IInv, TypeOK, Context, NullContext
    <2>2. destroyed[c] = IF compressors[c] = Absent THEN 1 ELSE 0
      BY <2>1 DEF IInv, EntriesOK
    <2>3. c \notin disturbed => (compressors[c] # Absent <=> Held(c))
      BY <2>1, HeldInUse DEF IInv, MapOK
    <2> QED BY <2>2, <2>3
  <1> QED BY <1>1, Inductive, PTL

\* compressor.ts 39-82: ENet finds the compressor that the host was given last.
THEOREM GivenTheorem == Spec => []GivenIsFound
  <1>1. IInv => GivenIsFound
    <2> SUFFICES ASSUME IInv, NEW host \in live, ~BeingReplaced(host)
                 PROVE  IF context[host] \in Context
                        THEN compressors[context[host]] = given[host] /\ given[host] # Absent
                        ELSE given[host] = Absent
      BY DEF GivenIsFound
    <2>1. ~DestroyRuns(host)
      BY DestroyingRuns DEF IInv, TypeOK, Destroying, BeingReplaced
    <2>2. context[host] \in Context => compressors[context[host]] # Absent
      BY <2>1 DEF IInv, DisturbedOnly, MapOK, InUse
    <2> QED BY <2>2 DEF IInv, EntriesOK
  <1> QED BY <1>1, Inductive, PTL
=============================================================================
