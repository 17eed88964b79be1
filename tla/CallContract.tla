---------------------------- MODULE CallContract ----------------------------
(***************************************************************************)
(* The promise of structs.ts 17-19, 29-31, 39-43, 51-53 and 81-83: a       *)
(* native call whose callbacks threw throws the first of their errors once *)
(* ENet returns, and a call whose callbacks did not throw returns.         *)
(* Nothing is shared between calls: each owes its own error.               *)
(***************************************************************************)
EXTENDS Naturals

CONSTANTS Error, NoError, MaxCalls

VARIABLES calls, running, thrown,
    owed    \* for each call in progress, the error it is to throw

vars == <<calls, running, thrown, owed>>

Level == 1..MaxCalls

Init ==
    /\ calls = 0
    /\ running = "js"
    /\ thrown = NoError
    /\ owed = [level \in Level |-> NoError]

Begin ==
    /\ running = "js" /\ thrown = NoError /\ calls < MaxCalls
    /\ calls' = calls + 1
    /\ running' = "enet"
    /\ UNCHANGED <<thrown, owed>>

Callback ==
    /\ running = "enet"
    /\ running' = "js"
    /\ UNCHANGED <<calls, thrown, owed>>

Return ==
    /\ running = "js" /\ thrown = NoError /\ calls > 0
    /\ running' = "enet"
    /\ UNCHANGED <<calls, thrown, owed>>

\* A handler throws: the call that runs it owes its first error.
Fail(error) ==
    /\ running = "js" /\ calls > 0
    /\ thrown \in {NoError, error}
    /\ owed' = [owed EXCEPT ![calls] = IF @ = NoError THEN error ELSE @]
    /\ running' = "enet"
    /\ thrown' = NoError
    /\ UNCHANGED calls

Catch ==
    /\ thrown # NoError
    /\ thrown' = NoError
    /\ UNCHANGED <<calls, running, owed>>

End ==
    /\ running = "enet"
    /\ thrown' = owed[calls]
    /\ owed' = [owed EXCEPT ![calls] = NoError]
    /\ calls' = calls - 1
    /\ running' = "js"

Next ==
    \/ Begin
    \/ Callback
    \/ Return
    \/ \E error \in Error : Fail(error)
    \/ Catch
    \/ End

Spec == Init /\ [][Next]_vars
=============================================================================
