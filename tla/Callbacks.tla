----------------------------- MODULE Callbacks -----------------------------
(***************************************************************************)
(* callbacks.ts: how an error thrown by a JS callback, which ENet runs     *)
(* synchronously inside a native call, gets back to the JS code that made  *)
(* the call.                                                               *)
(*                                                                         *)
(* JS is single-threaded, so at any moment there is one stack: the main    *)
(* program, the native call it made, the callback ENet runs in that call,  *)
(* the native call the callback's handler made, and so on.  Native calls   *)
(* and callbacks alternate, so the stack is its number of native calls     *)
(* (calls) and which side of the language border is on top (running).      *)
(*                                                                         *)
(* Only calls wrapped in afterCallbacks (or in host.ts dispatchEvent,      *)
(* which ends the same way) are modelled: the others run no callback.      *)
(***************************************************************************)
EXTENDS Naturals, Sequences

CONSTANTS
    Error,      \* what a callback can throw, the TypeError of guardCallback included
    NoError,    \* no exception is in flight
    MaxCalls,   \* bound: native calls on the stack at once
    MaxErrors,  \* bound: errors waiting at once
    NestAfterError  \* whether a handler makes native calls although an earlier
                    \* callback has thrown: it cannot know, and nothing stops it

ASSUME CallbacksAssumption ==
    /\ NoError \notin Error
    /\ NestAfterError \in BOOLEAN
    /\ MaxCalls \in Nat
    /\ MaxErrors \in Nat

VARIABLES
    calls,          \* native calls in progress
    running,        \* "js": the main program or a handler; "enet": native code
    callbackErrors, \* the module-level array of callbacks.ts
    thrown          \* the exception in flight in the JS code that is running

cbVars == <<calls, running, callbackErrors, thrown>>

Level == 1..MaxCalls

CallbacksTypeOK ==
    /\ calls \in 0..MaxCalls
    /\ running \in {"js", "enet"}
    /\ callbackErrors \in Seq(Error)
    /\ thrown \in Error \cup {NoError}
    /\ running = "enet" => calls > 0 /\ thrown = NoError

CallbacksInit ==
    /\ calls = 0
    /\ running = "js"
    /\ callbackErrors = <<>>
    /\ thrown = NoError

-----------------------------------------------------------------------------
(* Conditions the components that extend this module share.                *)

\* JS code can go on to its next statement: nothing is being thrown.
JsRuns == running = "js" /\ thrown = NoError

\* A handler that ENet called is on top of the stack.
InHandler == running = "js" /\ calls > 0

\* The JS code on top of the stack makes a native call.
BeginCall ==
    /\ JsRuns
    /\ calls < MaxCalls
    /\ callbackErrors = <<>> \/ NestAfterError
    /\ calls' = calls + 1
    /\ running' = "enet"
    /\ UNCHANGED <<callbackErrors, thrown>>

\* ENet calls one of the registered callbacks.
BeginCallback ==
    /\ running = "enet"
    /\ running' = "js"
    /\ UNCHANGED <<calls, callbackErrors, thrown>>

\* The handler returns what ENet expects of it.
EndCallback ==
    /\ InHandler
    /\ JsRuns
    /\ running' = "enet"
    /\ UNCHANGED <<calls, callbackErrors, thrown>>

\* Mutant of Record: the catch block also rethrows.
RecordAndRethrow(error) ==
    /\ InHandler
    /\ Len(callbackErrors) < MaxErrors
    /\ callbackErrors' = Append(callbackErrors, error)
    /\ running' = "enet"
    /\ thrown' = error
    /\ UNCHANGED calls

\* callbackErrors.push(error); ENet gets the fallback and goes on.
Record(error) ==
    /\ InHandler
    /\ Len(callbackErrors) < MaxErrors
    /\ callbackErrors' = Append(callbackErrors, error)
    /\ running' = "enet"
    /\ thrown' = NoError
    /\ UNCHANGED calls

\* The handler throws, or returns something other than the number ENet expects.
FailCallback(error) == JsRuns /\ Record(error)

\* The handler lets the exception of a native call it made escape.
PropagateError == thrown # NoError /\ Record(thrown)

\* The JS code that made the call that threw catches the exception.
CatchError ==
    /\ thrown # NoError
    /\ thrown' = NoError
    /\ UNCHANGED <<calls, running, callbackErrors>>

\* Mutant of FirstError: the newest error is thrown.
LastError ==
    IF callbackErrors = <<>> THEN NoError ELSE callbackErrors[Len(callbackErrors)]

\* throwCallbackError: the oldest error is thrown, every other one is dropped.
FirstError == IF callbackErrors = <<>> THEN NoError ELSE Head(callbackErrors)

\* Mutant of EndCall: shift() instead of splice().
EndCallShift ==
    /\ running = "enet"
    /\ thrown' = FirstError
    /\ callbackErrors' = IF callbackErrors = <<>> THEN <<>> ELSE Tail(callbackErrors)
    /\ calls' = calls - 1
    /\ running' = "js"

\* Mutant of EndCall: reads the first error without removing any.
EndCallPeek ==
    /\ running = "enet"
    /\ thrown' = FirstError
    /\ calls' = calls - 1
    /\ running' = "js"
    /\ UNCHANGED callbackErrors

\* Mutant of EndCall: a call not wrapped in afterCallbacks.
EndCallUnwrapped ==
    /\ running = "enet"
    /\ calls' = calls - 1
    /\ running' = "js"
    /\ UNCHANGED <<callbackErrors, thrown>>

\* ENet returns and afterCallbacks rethrows.
EndCall ==
    /\ running = "enet"
    /\ thrown' = FirstError
    /\ callbackErrors' = <<>>
    /\ calls' = calls - 1
    /\ running' = "js"
=============================================================================
