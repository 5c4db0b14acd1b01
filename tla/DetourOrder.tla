----------------------------- MODULE DetourOrder -----------------------------
(***************************************************************************)
(* What the detours promise, without any code addresses: a call of a       *)
(* function runs the callbacks of its enabled detours, higher priorities   *)
(* first and the earlier enabled first among equals, and then the function *)
(* itself; the traces run around the call exactly when there are any.      *)
(***************************************************************************)
EXTENDS Integers, SequencesExt

CONSTANTS Func, Callback, Detour, FuncOf, CallbackOf, Priority

VARIABLES
    order,    \* the callbacks a call of each function runs through
    reached,  \* the code a call of each function ends in
    traced    \* the functions whose calls run traces

Init ==
    /\ order = [f \in Func |-> <<>>]
    /\ reached = [f \in Func |-> f]
    /\ traced = {}

\* The priority of a callback among those in use on f.
Urgency(c) == {Priority[d] : d \in {e \in Detour : CallbackOf[e] = c}}

\* d joins the calls of its function behind all that are at least as urgent.
Join(d) ==
    LET f == FuncOf[d] IN
    \E k \in 1 .. Len(order[f]) + 1 :
      /\ \A i \in 1 .. k - 1 : \E p \in Urgency(order[f][i]) : p >= Priority[d]
      /\ \A i \in k .. Len(order[f]) : \E p \in Urgency(order[f][i]) : p < Priority[d]
      /\ order' = [order EXCEPT ![f] = InsertAt(@, k, CallbackOf[d])]
      /\ UNCHANGED <<reached, traced>>

\* d leaves; the others keep their order.
Leave(d) ==
    LET f == FuncOf[d] IN
    \E k \in DOMAIN order[f] :
      /\ order[f][k] = CallbackOf[d]
      /\ order' = [order EXCEPT ![f] = RemoveAt(@, k)]
      /\ UNCHANGED <<reached, traced>>

\* The first trace of f arrives, or the last one leaves.
SwitchTracing(f) ==
    /\ traced' = IF f \in traced THEN traced \ {f} ELSE traced \cup {f}
    /\ UNCHANGED <<order, reached>>

Next ==
    \/ \E d \in Detour : Join(d) \/ Leave(d)
    \/ \E f \in Func : SwitchTracing(f)

Spec == Init /\ [][Next]_<<order, reached, traced>>
=============================================================================
