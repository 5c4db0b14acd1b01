------------------------------ MODULE HookOrder ------------------------------
(***************************************************************************)
(* What virtual hooks promise, without any pointers: a virtual call        *)
(* through a word of a table runs the callbacks of the hooks that are on   *)
(* there, the earlier enabled first, and then what the game has there.  A  *)
(* hook finds its word once and has a say in no other call.                *)
(***************************************************************************)
EXTENDS Integers, SequencesExt

CONSTANTS Word, Hook, CallbackOf, Pristine

VARIABLES
    home,     \* the word of each hook that has found its function, else 0
    chain,    \* the callbacks a call through each word runs
    reached   \* the code such a call ends in

Init ==
    /\ home = [h \in Hook |-> 0]
    /\ chain = [w \in Word |-> <<>>]
    /\ reached = Pristine

\* h has found its function.
Settle(h) ==
    /\ home[h] = 0
    /\ \E w \in Word : home' = [home EXCEPT ![h] = w]
    /\ UNCHANGED <<chain, reached>>

\* h joins the calls through its word as the last; its callback runs in no other.
Join(h) ==
    /\ home[h] \in Word
    /\ \A w \in Word : CallbackOf[h] \notin ToSet(chain[w])
    /\ chain' = [chain EXCEPT ![home[h]] = Append(@, CallbackOf[h])]
    /\ UNCHANGED <<home, reached>>

\* h leaves; the others keep their order.
Leave(h) ==
    \E w \in Word : \E k \in DOMAIN chain[w] :
      /\ home[h] = w /\ chain[w][k] = CallbackOf[h]
      /\ chain' = [chain EXCEPT ![w] = RemoveAt(@, k)]
      /\ UNCHANGED <<home, reached>>

Next == \E h \in Hook : Settle(h) \/ Join(h) \/ Leave(h)

Spec == Init /\ [][Next]_<<home, chain, reached>>
=============================================================================
