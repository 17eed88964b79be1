--------------------------- MODULE CallbackErrors ---------------------------
(***************************************************************************)
(* The error path of callbacks.ts on its own, with the history needed to   *)
(* say which errors reach JS code.  Errors are numbered in the order in    *)
(* which callbacks throw them since the outermost native call began.       *)
(***************************************************************************)
EXTENDS Callbacks

ASSUME ErrorsAreNumbered ==
    /\ NoError = 0
    /\ Error \subseteq Nat

VARIABLES
    raised,     \* history: how many errors callbacks have thrown
    surfaced,   \* history: the errors a native call has thrown to JS code
    caught,     \* history: the errors JS code has caught
    mark        \* history: raised when the call of each level began

history == <<raised, surfaced, caught, mark>>
vars == <<cbVars, history>>

Waiting == {callbackErrors[i] : i \in 1..Len(callbackErrors)}

TypeOK ==
    /\ CallbacksTypeOK
    /\ raised \in Nat
    /\ surfaced \subseteq Error
    /\ caught \subseteq Error
    /\ mark \in [Level -> Nat]

Init ==
    /\ CallbacksInit
    /\ raised = 0
    /\ surfaced = {}
    /\ caught = {}
    /\ mark = [level \in Level |-> 0]

\* An outermost call starts the history afresh, so that it stays finite.
Begin ==
    /\ BeginCall
    /\ IF calls = 0
       THEN /\ raised' = 0
            /\ surfaced' = {}
            /\ caught' = {}
            /\ mark' = [level \in Level |-> 0]
       ELSE /\ mark' = [mark EXCEPT ![calls + 1] = raised]
            /\ UNCHANGED <<raised, surfaced, caught>>

Callback == BeginCallback /\ UNCHANGED history

Return == EndCallback /\ UNCHANGED history

Fail ==
    /\ raised + 1 \in Error
    /\ FailCallback(raised + 1)
    /\ raised' = raised + 1
    /\ UNCHANGED <<surfaced, caught, mark>>

Propagate == PropagateError /\ UNCHANGED history

Catch ==
    /\ CatchError
    /\ caught' = caught \cup {thrown}
    /\ UNCHANGED <<raised, surfaced, mark>>

End ==
    /\ EndCall
    /\ surfaced' = surfaced \cup ({thrown'} \ {NoError})
    /\ UNCHANGED <<raised, caught, mark>>

Next ==
    \/ Begin
    \/ Callback
    \/ Return
    \/ Fail
    \/ Propagate
    \/ Catch
    \/ End

Spec == Init /\ [][Next]_vars

\* The stack unwinds: handlers return or throw, JS code handles what it is
\* thrown and ENet's calls end.  Nothing makes the program issue new calls.
Fairness ==
    /\ WF_vars(Return \/ Fail \/ Propagate \/ Catch)
    /\ SF_vars(End)

FairSpec == Spec /\ Fairness

-----------------------------------------------------------------------------
\* callbacks.ts 1-2, 37-43: no error outlives the outermost native call, so
\* that an unrelated call made later never throws it.
DrainedWhenIdle == calls = 0 => callbackErrors = <<>>

\* structs.ts 17-19: an error is thrown to JS code "unless another callback
\* threw first".  An error that is neither waiting nor thrown was dropped
\* behind an older one that did reach JS code, however calls are nested.
DroppedOnlyBehindOlder ==
    \A error \in 1..raised :
        \/ error \in surfaced \cup Waiting
        \/ \E older \in surfaced : older < error

\* callbacks.ts 39: throwing empties the array, so an error that JS code has
\* caught is not thrown again by this call, an enclosing one or a later one.
CaughtStaysCaught == caught \cap (Waiting \cup {thrown}) = {}

\* callbacks.ts 36: "Rethrows the first error a callback threw during the
\* native call that just returned".  The error was thrown after that call
\* began.  (True of calls begun with no error waiting.)
ThrownByItsOwnCall == thrown # NoError => thrown > mark[calls + 1]

\* callbacks.ts 46-52: an error that waits is thrown to JS code or dropped by
\* a call that throws, and the array is drained, if every callback and every
\* native call ends.
EventuallyDrained == callbackErrors # <<>> ~> callbackErrors = <<>>

-----------------------------------------------------------------------------
(* What the library promises of a call that runs callbacks.                *)

Owed == [level \in Level |-> IF level = calls THEN FirstError ELSE NoError]

Contract == INSTANCE CallContract WITH owed <- Owed

\* callbacks.ts 46-52 keeps the contract, nested calls included, as long as
\* no call begins while an error of an enclosing one waits.
KeepsContract == Contract!Spec
=============================================================================
