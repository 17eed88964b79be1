----------------------------- MODULE MCNumbers ------------------------------
(* Macros and HandleFields for TLC.  They share no state, so that one of    *)
(* them rests while the other one moves.                                    *)
EXTENDS Macros, HandleFields

Nothing == <<>>

NumbersInit ==
    \/ Init /\ c = Nothing /\ js = Nothing /\ memory = Nothing /\ stored = Nothing
            /\ stores = MaxStores
    \/ FieldsInit /\ base = 0 /\ ticks = MaxTicks /\ remembered = {}

ClockMoves == c = Nothing /\ Next /\ UNCHANGED hfVars

FieldsMove == FieldsNext /\ UNCHANGED vars

NumbersSpec == NumbersInit /\ [][ClockMoves \/ FieldsMove]_<<vars, hfVars>>
=============================================================================
