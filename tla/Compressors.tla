---------------------------- MODULE Compressors ----------------------------
(***************************************************************************)
(* compressor.ts: compressors written in JS.  Three Koffi slots serve      *)
(* every JS compressor; the context that ENet passes back tells which one  *)
(* it is, and the Map compressors finds it.  Each enet.host.compress gets  *)
(* a context of its own, even for a compressor that other hosts use.       *)
(*                                                                         *)
(* ENet copies the compressor into the host.  It calls destroy when the    *)
(* host gets another compressor or none, or is destroyed, and only if the  *)
(* context is not null; it stops using the old one only after that.        *)
(***************************************************************************)
EXTENDS Callbacks, FiniteSets

CONSTANTS
    Host,           \* host pointers
    NoHost,
    Compressor,     \* JS compressors
    Absent,         \* no entry in compressors; no JS compressor
    RangeCoder,     \* the context of a range coder that ENet created
    MaxContext,     \* bound: how often compress is given a JS compressor
    UseInDestroy    \* whether callbacks use the host that is being destroyed or
                    \* whose compressor is being replaced

ASSUME CompressorsAssumption ==
    /\ NoHost \notin Host
    /\ Absent \notin Compressor
    /\ MaxContext \in Nat
    /\ RangeCoder \notin Nat
    /\ UseInDestroy \in BOOLEAN

NullContext == 0
Context == 1..MaxContext    \* the contexts of JS compressors

VARIABLES
    live,           \* the hosts that exist in C
    context,        \* host->compressor.context
    last,           \* contexts.last
    compressors,    \* the Map of compressor.ts
    frame,          \* for each call in progress: the host whose compressor ENet
                    \* replaces, the new context and JS compressor, and whether
                    \* the old one's destroy has been called
    given,          \* history: the compressor each host was given last
    destroyed,      \* history: how often destroy has run for each context
    disturbed       \* history: the contexts of hosts that were given a compressor
                    \* by the destroy of their old one

coVars == <<live, context, last, compressors, frame, given, destroyed, disturbed>>
vars == <<cbVars, coVars>>

Frame == [op : {"idle", "call", "replace", "destroyHost"},
          host : Host \cup {NoHost},
          new : Context \cup {NullContext, RangeCoder},
          compressor : Compressor \cup {Absent},
          done : BOOLEAN]

Idle == [op |-> "idle", host |-> NoHost, new |-> NullContext,
         compressor |-> Absent, done |-> FALSE]

TypeOK ==
    /\ CallbacksTypeOK
    /\ live \subseteq Host
    /\ context \in [Host -> Context \cup {NullContext, RangeCoder}]
    /\ last \in {NullContext} \cup Context
    /\ compressors \in [Context -> Compressor \cup {Absent}]
    /\ frame \in [Level -> Frame]
    /\ \A level \in Level : frame[level].op = "idle" <=> level > calls
    /\ given \in [Host -> Compressor \cup {Absent}]
    /\ destroyed \in [Context -> Nat]
    /\ disturbed \subseteq Context

Init ==
    /\ CallbacksInit
    /\ live = {}
    /\ context = [host \in Host |-> NullContext]
    /\ last = NullContext
    /\ compressors = [c \in Context |-> Absent]
    /\ frame = [level \in Level |-> Idle]
    /\ given = [host \in Host |-> Absent]
    /\ destroyed = [c \in Context |-> 0]
    /\ disturbed = {}

-----------------------------------------------------------------------------
Top == frame[calls]

\* ENet works on the call on top of the stack.
EnetRuns(op) == running = "enet" /\ Top.op = op

\* A call on the stack replaces the compressor of the host, or destroys it.
BeingReplaced(host) ==
    \E level \in 1..calls : frame[level].host = host

\* The calls that have called the destroy of its compressor.
Destroying(host) == {level \in 1..calls : frame[level].host = host /\ frame[level].done}

\* The host can be given to a native call.
Usable(host) == host \in live /\ (UseInDestroy \/ ~BeingReplaced(host))

Push(op, host, new, compressor) ==
    /\ BeginCall
    /\ frame' = [frame EXCEPT
                   ![calls + 1] = [op |-> op, host |-> host, new |-> new,
                                   compressor |-> compressor, done |-> FALSE]]

Pop ==
    /\ EndCall
    /\ frame' = [frame EXCEPT ![calls] = Idle]

\* Any other wrapped call: create, service, flush, send, disconnect, ...
Call ==
    /\ Push("call", NoHost, NullContext, Absent)
    /\ UNCHANGED <<live, context, last, compressors, given, destroyed, disturbed>>

EndOtherCall ==
    /\ EnetRuns("call")
    /\ Pop
    /\ UNCHANGED <<live, context, last, compressors, given, destroyed, disturbed>>

\* In one of them ENet creates a host, which has no compressor.
Create(host) ==
    /\ EnetRuns("call")
    /\ host \notin live
    /\ live' = live \cup {host}
    /\ context' = [context EXCEPT ![host] = NullContext]
    /\ given' = [given EXCEPT ![host] = Absent]
    /\ UNCHANGED <<cbVars, last, compressors, frame, destroyed, disturbed>>

\* ENet calls the compressor with the context.  Without an entry compressorOf
\* throws: guardCallback keeps the error, and an error behind others is dropped.
Run(c) ==
    IF compressors[c] # Absent
    THEN BeginCallback
    ELSE /\ \E error \in Error :
               callbackErrors' = IF Len(callbackErrors) < MaxErrors
                                 THEN Append(callbackErrors, error) ELSE callbackErrors
         /\ UNCHANGED <<calls, running, thrown>>

\* In one of them ENet compresses or decompresses a datagram of the host.
RunCompressor(host) ==
    /\ EnetRuns("call")
    /\ Usable(host)
    /\ context[host] \in Context
    /\ Run(context[host])
    /\ UNCHANGED coVars

-----------------------------------------------------------------------------
\* enet_host_compress is called.  It destroys the host's compressor even if that
\* is what is calling it.
Replace(host, new, compressor) ==
    /\ Usable(host)
    /\ Push("replace", host, new, compressor)
    /\ disturbed' = IF Destroying(host) = {} THEN disturbed
                    ELSE disturbed \cup ({new} \cap Context)

\* compress(host, null)
BeginClear(host) ==
    /\ Replace(host, NullContext, Absent)
    /\ UNCHANGED <<live, context, last, compressors, given, destroyed>>

\* compressWithRangeCoder(host)
BeginRangeCoder(host) ==
    /\ Replace(host, RangeCoder, Absent)
    /\ UNCHANGED <<live, context, last, compressors, given, destroyed>>

\* Mutants of NewContext: contexts are numbered by the size of the Map; the
\* last one is read before it is incremented, so that the first is null.
NewContextBySize == Cardinality({c \in Context : compressors[c] # Absent}) + 1
NewContextPostIncrement == last

\* contexts.last += CONTEXT_STEP
NewContext == last + 1

\* compress(host, compressor): a fresh context, in the Map before ENet gets it.
BeginCompress(host, compressor) ==
    /\ last < MaxContext
    /\ last' = last + 1
    /\ compressors' = [compressors EXCEPT ![NewContext] = compressor]
    /\ Replace(host, NewContext, compressor)
    /\ UNCHANGED <<live, context, given, destroyed>>

\* enet_range_coder_create can fail; the host keeps its compressor.
FailRangeCoder ==
    /\ EnetRuns("replace")
    /\ Top.new = RangeCoder
    /\ ~Top.done
    /\ Pop
    /\ UNCHANGED <<live, context, last, compressors, given, destroyed, disturbed>>

\* destroy(host), from enet_host_destroy on.
BeginDestroy(host) ==
    /\ host \in live /\ ~BeingReplaced(host)
    /\ Push("destroyHost", host, NullContext, Absent)
    /\ UNCHANGED <<live, context, last, compressors, given, destroyed, disturbed>>

\* enet_host_destroy resets the peers first, which runs free callbacks.
FreePacket ==
    /\ EnetRuns("destroyHost")
    /\ ~Top.done
    /\ BeginCallback
    /\ UNCHANGED coVars

\* ENet still has to call the destroy of the compressor it replaces.
MustDestroy == ~Top.done /\ context[Top.host] \in Context

\* Mutant of Forget: the entry is deleted after destroy, which throws.
ForgetNothing(old) == UNCHANGED compressors

\* compressors.delete(context)
Forget(old) == compressors' = [compressors EXCEPT ![old] = Absent]

\* destroyAddress: finds the compressor, deletes the entry, runs destroy.
RunDestroy ==
    LET old == context[Top.host] IN
    /\ EnetRuns("replace") \/ EnetRuns("destroyHost")
    /\ MustDestroy
    /\ Run(old)
    /\ frame' = [frame EXCEPT ![calls].done = TRUE]
    /\ Forget(old)
    /\ destroyed' = [destroyed EXCEPT
                       ![old] = IF compressors[old] = Absent THEN @ ELSE @ + 1]
    /\ UNCHANGED <<live, context, last, given, disturbed>>

\* ENet copies the new compressor into the host and returns; only then are the
\* errors of the old one's destroy rethrown.
EndReplace ==
    /\ EnetRuns("replace")
    /\ ~MustDestroy
    /\ context' = [context EXCEPT ![Top.host] = Top.new]
    /\ given' = [given EXCEPT ![Top.host] = Top.compressor]
    /\ Pop
    /\ UNCHANGED <<live, last, compressors, destroyed, disturbed>>

EndDestroy ==
    /\ EnetRuns("destroyHost")
    /\ ~MustDestroy
    /\ live' = live \ {Top.host}
    /\ context' = [context EXCEPT ![Top.host] = NullContext]
    /\ given' = [given EXCEPT ![Top.host] = Absent]
    /\ Pop
    /\ UNCHANGED <<last, compressors, destroyed, disturbed>>

-----------------------------------------------------------------------------
HandlerReturns == EndCallback /\ UNCHANGED coVars

HandlerFails ==
    /\ \/ \E error \in Error : FailCallback(error)
       \/ PropagateError
    /\ UNCHANGED coVars

Catch == CatchError /\ UNCHANGED coVars

Next ==
    \/ Call \/ EndOtherCall
    \/ FailRangeCoder \/ RunDestroy \/ EndReplace
    \/ FreePacket \/ EndDestroy
    \/ HandlerReturns \/ HandlerFails \/ Catch
    \/ \E host \in Host :
          \/ Create(host)
          \/ RunCompressor(host)
          \/ BeginClear(host)
          \/ BeginRangeCoder(host)
          \/ \E compressor \in Compressor : BeginCompress(host, compressor)
          \/ BeginDestroy(host)

Spec == Init /\ [][Next]_vars

-----------------------------------------------------------------------------
\* ENet can still pass the context back: a call is about to copy it into a host,
\* or a host has it whose compressor is not yet destroyed.
Held(c) ==
    \/ \E level \in 1..calls : frame[level].new = c
    \/ \E host \in live : context[host] = c /\ Destroying(host) = {}

\* compressor.ts 39-82: ENet always finds the compressor that the host was given
\* last, whatever threw, and however many hosts were given the same one.
GivenIsFound ==
    \A host \in live :
        ~BeingReplaced(host) =>
            IF context[host] \in Context
            THEN compressors[context[host]] = given[host] /\ given[host] # Absent
            ELSE given[host] = Absent

\* structs.ts 69-71: destroy runs once for each host a compressor is given to,
\* when the host stops using it and not before.  Given in the destroy of another
\* one, it may not run, but never runs twice.
DestroyedOnce ==
    \A c \in 1..last :
        \/ destroyed[c] = IF Held(c) THEN 0 ELSE 1
        \/ c \in disturbed /\ destroyed[c] \in {0, 1}

\* compressor.ts 84-91: the Map holds exactly the contexts that ENet can still
\* pass back; an entry does not outlive its host, though destroy threw, unless the
\* compressor was given in the destroy of another one.
MapHoldsWhatEnetHolds ==
    \A c \in Context \ disturbed : compressors[c] # Absent <=> Held(c)
=============================================================================
