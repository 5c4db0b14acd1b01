------------------------- MODULE StreamAndBots_proofs -------------------------
(***************************************************************************)
(* Theorems about two mods.  VProfStream: a message comes out of the       *)
(* stream whole, for messages, queues and networks of any size.            *)
(* BotActions: the entries of build_actions follow the idle actions of     *)
(* their bots, for any number of bots and addresses.                       *)
(***************************************************************************)
EXTENDS VProfStream, BotActions, ListLemmas, TLAPS

(***************************************************************************)
(* A stream of units.                                                      *)
(***************************************************************************)

\* How many units of a message have gone by: none between two messages.
Phase == 0 .. BodyLen

\* f tells the phase before every unit of s and at its end.
Tells(f, s) ==
    /\ f \in [1 .. Len(s) + 1 -> Phase]
    /\ \A i \in 1 .. Len(s) :
         /\ s[i] = IF f[i] = 0 THEN "h" ELSE "b"
         /\ f[i + 1] = IF f[i] = BodyLen THEN 0 ELSE f[i] + 1

\* s goes on with a message of which p units have gone by, and leaves q of one.
Flows(s, p, q) ==
    \E f \in [1 .. Len(s) + 1 -> Phase] : Tells(f, s) /\ f[1] = p /\ f[Len(s) + 1] = q

-----------------------------------------------------------------------------
(***************************************************************************)
(* The inductive invariant of the stream.                                  *)
(***************************************************************************)

Wire == [data : Seq(Unit), ended : BOOLEAN]

TypeInv ==
    /\ conns \in Seq(Wire)
    /\ linked \in BOOLEAN /\ client \in BOOLEAN /\ torn \in BOOLEAN
    /\ queue \in Seq(Unit) /\ sendBuf \in Seq(Unit)
    /\ data \in Seq(Unit) /\ buffer \in Seq(Unit)
    /\ recver \in {"off", "on", "closed", "join"}
    /\ parsing \in {"idle", "header", "body"}
    /\ avail \in Nat /\ total \in 0 .. BodyLen

\* Where the threads are.  A client is served by a thread in its loop, which does not
\* end before the client is gone; a frame that has begun is in time.
ThreadInv ==
    /\ linked => conns # <<>> /\ ~conns[Len(conns)].ended
    /\ client => conns # <<>> /\ rThread = "loop"
    /\ recver = "off" => rThread = "none"
    /\ parsing # "idle" => recver = "on"
    /\ parsing = "header" => avail \in 1 .. Len(data)
    /\ parsing = "body" => Len(buffer) \in 1 .. 1 + total

\* The sender has whole messages in its queue and in its hands.
SentInv == Flows(queue, 0, 0) /\ Flows(sendBuf, 0, 0)

\* What RecvFrame has taken of the message it is at.
Taken == IF parsing = "body" THEN Len(buffer) ELSE 0

\* What is in flight: whole messages, the first connection being at phase c of one.
FlowIn(c) == \A i \in DOMAIN conns : Flows(conns[i].data, IF i = 1 THEN c ELSE 0, 0)

\* Every connection starts between two messages and what is sent on it ends between two;
\* only the client's connection may be within a message, just as far as m_Data is, ...
StreamInv ==
    \E c \in Phase :
      /\ ~client => c = 0
      /\ FlowIn(c)
      /\ recver = "on" => Flows(data, Taken, c)

\* ... and the buffer holds as much of a message as was taken.
BufferInv ==
    /\ parsing = "body" => total = BodyLen /\ Len(buffer) <= BodyLen
    /\ parsing # "body" => buffer = <<>> \/ Len(buffer) = 1 + BodyLen
    /\ \A i \in 1 .. Len(buffer) : buffer[i] = IF i = 1 THEN "h" ELSE "b"

VInv == TypeInv /\ ThreadInv /\ SentInv /\ (~torn => StreamInv /\ BufferInv)

-----------------------------------------------------------------------------
(***************************************************************************)
(* What taking streams apart and putting them together does.               *)
(***************************************************************************)

LEMMA PhaseKnown == BodyLen \in Nat /\ 1 <= BodyLen /\ 0 \in Phase
  BY Lengths DEF Phase

\* The two parts of a sequence.
LEMMA Parts ==
    ASSUME NEW S, NEW s \in Seq(S), NEW n \in Nat, n <= Len(s)
    PROVE  /\ Upto(s, n) \in Seq(S) /\ Len(Upto(s, n)) = n
           /\ \A i \in 1 .. n : Upto(s, n)[i] = s[i]
           /\ After(s, n) \in Seq(S) /\ Len(After(s, n)) = Len(s) - n
           /\ \A i \in 1 .. Len(s) - n : After(s, n)[i] = s[n + i]
  <1>1. PICK l \in Nat : l = Len(s)
    BY LenProperties
  <1>2. PICK u : u = SubSeq(s, 1, n)
    OBVIOUS
  <1>3. u \in Seq(S) /\ Len(u) = n - 1 + 1 /\ \A i \in 1 .. n - 1 + 1 : u[i] = s[1 + i - 1]
    BY <1>1, <1>2, SubSeqKnown
  <1>4. u \in Seq(S) /\ Len(u) = n /\ \A i \in 1 .. n : u[i] = s[i]
    BY <1>3
  <1>5. PICK m \in Int : m = n + 1
    OBVIOUS
  <1>6. PICK a : a = SubSeq(s, m, l)
    OBVIOUS
  <1>7. a \in Seq(S) /\ Len(a) = l - m + 1 /\ \A i \in 1 .. l - m + 1 : a[i] = s[m + i - 1]
    BY <1>1, <1>5, <1>6, SubSeqKnown
  <1>8. a \in Seq(S) /\ Len(a) = l - n /\ \A i \in 1 .. l - n : a[i] = s[n + i]
    BY <1>1, <1>5, <1>7
  <1> QED
    BY <1>1, <1>2, <1>4, <1>5, <1>6, <1>8 DEF Upto, After

\* An empty stream ends where it starts.
LEMMA FlowsEmpty ==
    /\ \A p \in Phase : Flows(<<>>, p, p)
    /\ \A s \in Seq(Unit), p, q \in Phase : Flows(s, p, q) /\ Len(s) = 0 => p = q
  <1>1. ASSUME NEW p \in Phase
        PROVE  Flows(<<>>, p, p)
    <2>1. PICK f : f = [i \in 1 .. 1 |-> p]
      OBVIOUS
    <2>2. Len(<<>>) = 0
      OBVIOUS
    <2>3. f \in [1 .. Len(<<>>) + 1 -> Phase] /\ f[1] = p /\ f[Len(<<>>) + 1] = p
      BY <2>1, <2>2
    <2>4. Tells(f, <<>>)
      BY <2>2, <2>3 DEF Tells
    <2> QED
      BY <2>3, <2>4 DEF Flows
  <1>2. ASSUME NEW s \in Seq(Unit), NEW p \in Phase, NEW q \in Phase, Flows(s, p, q), Len(s) = 0
        PROVE  p = q
    BY <1>2 DEF Flows
  <1> QED
    BY <1>1, <1>2

\* A stream can be taken apart anywhere; what comes first in the second part tells
\* whether that is between two messages.
LEMMA FlowsApart ==
    ASSUME NEW s \in Seq(Unit), NEW p \in Phase, NEW q \in Phase, Flows(s, p, q),
           NEW n \in Nat, n <= Len(s)
    PROVE  \E r \in Phase : /\ Flows(Upto(s, n), p, r) /\ Flows(After(s, n), r, q)
                            /\ IF n = Len(s) THEN r = q ELSE s[n + 1] = IF r = 0 THEN "h" ELSE "b"
  <1>1. PICK l \in Nat : l = Len(s)
    BY LenProperties
  <1>2. PICK f \in [1 .. l + 1 -> Phase] : Tells(f, s) /\ f[1] = p /\ f[l + 1] = q
    BY <1>1 DEF Flows
  <1>3. \A i \in 1 .. l : /\ s[i] = IF f[i] = 0 THEN "h" ELSE "b"
                          /\ f[i + 1] = IF f[i] = BodyLen THEN 0 ELSE f[i] + 1
    BY <1>1, <1>2 DEF Tells
  <1>4. PICK u, a : u = Upto(s, n) /\ a = After(s, n)
    OBVIOUS
  <1>5. u \in Seq(Unit) /\ Len(u) = n /\ \A i \in 1 .. n : u[i] = s[i]
    BY <1>4, Parts
  <1>6. a \in Seq(Unit) /\ Len(a) = l - n /\ \A i \in 1 .. l - n : a[i] = s[n + i]
    <2>1. Len(a) = Len(s) - n /\ \A i \in 1 .. Len(s) - n : a[i] = s[n + i]
      BY <1>4, Parts
    <2>2. a \in Seq(Unit)
      BY <1>4, Parts
    <2> QED
      BY <1>1, <2>1, <2>2
  <1>7. PICK r : r = f[n + 1]
    OBVIOUS
  <1>8. r \in Phase /\ IF n = l THEN r = q ELSE s[n + 1] = IF r = 0 THEN "h" ELSE "b"
    BY <1>1, <1>2, <1>3, <1>7
  <1>9. Flows(u, p, r)
    <2>1. PICK g : g = [i \in 1 .. n + 1 |-> f[i]]
      OBVIOUS
    <2>2. g \in [1 .. Len(u) + 1 -> Phase] /\ g[1] = p /\ g[Len(u) + 1] = r
      BY <1>1, <1>2, <1>7, <1>5, <2>1
    <2>3. ASSUME NEW i \in 1 .. n
          PROVE  /\ u[i] = IF g[i] = 0 THEN "h" ELSE "b"
                 /\ g[i + 1] = IF g[i] = BodyLen THEN 0 ELSE g[i] + 1
      <3>1. i \in 1 .. l /\ i \in 1 .. n + 1 /\ i + 1 \in 1 .. n + 1
        BY <1>1
      <3>2. g[i] = f[i] /\ g[i + 1] = f[i + 1] /\ u[i] = s[i]
        BY <1>5, <2>1, <3>1
      <3> QED
        BY <1>3, <3>1, <3>2
    <2>4. Tells(g, u)
      BY <1>5, <2>2, <2>3 DEF Tells
    <2> QED
      BY <2>2, <2>4 DEF Flows
  <1>10. Flows(a, r, q)
    <2>1. PICK g : g = [i \in 1 .. l - n + 1 |-> f[n + i]]
      OBVIOUS
    <2>2. g \in [1 .. Len(a) + 1 -> Phase] /\ g[1] = r /\ g[Len(a) + 1] = q
      <3>1. \A i \in 1 .. l - n + 1 : n + i \in 1 .. l + 1
        BY <1>1
      <3>2. 1 \in 1 .. l - n + 1 /\ l - n + 1 \in 1 .. l - n + 1 /\ n + (l - n + 1) = l + 1
        BY <1>1
      <3>3. g \in [1 .. l - n + 1 -> Phase]
        BY <1>2, <2>1, <3>1
      <3> QED
        BY <1>2, <1>7, <1>6, <2>1, <3>2, <3>3
    <2>3. ASSUME NEW i \in 1 .. l - n
          PROVE  /\ a[i] = IF g[i] = 0 THEN "h" ELSE "b"
                 /\ g[i + 1] = IF g[i] = BodyLen THEN 0 ELSE g[i] + 1
      <3>1. /\ n + i \in 1 .. l /\ i \in 1 .. l - n + 1 /\ i + 1 \in 1 .. l - n + 1
            /\ n + (i + 1) = (n + i) + 1
        BY <1>1
      <3>2. g[i] = f[n + i] /\ g[i + 1] = f[(n + i) + 1] /\ a[i] = s[n + i]
        BY <1>6, <2>1, <3>1
      <3> QED
        BY <1>3, <3>1, <3>2
    <2>4. Tells(g, a)
      BY <1>6, <2>2, <2>3 DEF Tells
    <2> QED
      BY <2>2, <2>4 DEF Flows
  <1> QED
    BY <1>1, <1>4, <1>8, <1>9, <1>10

\* Streams that fit make one stream.
LEMMA FlowsTogether ==
    ASSUME NEW s \in Seq(Unit), NEW t \in Seq(Unit), NEW p \in Phase, NEW r \in Phase, NEW q \in Phase,
           Flows(s, p, r), Flows(t, r, q)
    PROVE  s \o t \in Seq(Unit) /\ Flows(s \o t, p, q)
  <1>1. PICK m, n \in Nat : m = Len(s) /\ n = Len(t)
    BY LenProperties
  <1>2. PICK c : c = s \o t
    OBVIOUS
  <1>3. c \in Seq(Unit) /\ Len(c) = m + n /\ \A i \in 1 .. m + n : c[i] = IF i <= m THEN s[i] ELSE t[i - m]
    BY <1>1, <1>2, ConcatProperties
  <1>4. PICK f \in [1 .. m + 1 -> Phase] : Tells(f, s) /\ f[1] = p /\ f[m + 1] = r
    BY <1>1 DEF Flows
  <1>5. \A i \in 1 .. m : /\ s[i] = IF f[i] = 0 THEN "h" ELSE "b"
                          /\ f[i + 1] = IF f[i] = BodyLen THEN 0 ELSE f[i] + 1
    BY <1>1, <1>4 DEF Tells
  <1>6. PICK g \in [1 .. n + 1 -> Phase] : Tells(g, t) /\ g[1] = r /\ g[n + 1] = q
    BY <1>1 DEF Flows
  <1>7. \A i \in 1 .. n : /\ t[i] = IF g[i] = 0 THEN "h" ELSE "b"
                          /\ g[i + 1] = IF g[i] = BodyLen THEN 0 ELSE g[i] + 1
    BY <1>1, <1>6 DEF Tells
  <1>8. PICK h : h = [i \in 1 .. m + n + 1 |-> IF i <= m THEN f[i] ELSE g[i - m]]
    OBVIOUS
  <1>9. h \in [1 .. m + n + 1 -> Phase]
    <2>1. ASSUME NEW i \in 1 .. m + n + 1
          PROVE  (IF i <= m THEN f[i] ELSE g[i - m]) \in Phase
      <3>1. IF i <= m THEN i \in 1 .. m + 1 ELSE i - m \in 1 .. n + 1
        OBVIOUS
      <3> QED
        BY <3>1
    <2> QED
      BY <1>8, <2>1
  <1>10. h[1] = p
    <2>1. CASE m = 0
      BY <1>4, <1>6, <1>8, <2>1
    <2>2. CASE m # 0
      BY <1>4, <1>8, <2>2
    <2> QED
      BY <2>1, <2>2
  <1>11. h[m + n + 1] = q
    <2>1. m + n + 1 \in 1 .. m + n + 1 /\ ~(m + n + 1 <= m) /\ m + n + 1 - m = n + 1
      OBVIOUS
    <2> QED
      BY <1>6, <1>8, <2>1
  <1>12. ASSUME NEW i \in 1 .. m + n
         PROVE  /\ c[i] = IF h[i] = 0 THEN "h" ELSE "b"
                /\ h[i + 1] = IF h[i] = BodyLen THEN 0 ELSE h[i] + 1
    <2>1. CASE i <= m
      <3>1. i \in 1 .. m /\ i \in 1 .. m + n + 1 /\ i + 1 \in 1 .. m + n + 1
        BY <2>1
      <3>2. h[i] = f[i] /\ c[i] = s[i]
        BY <1>3, <1>8, <2>1, <3>1
      <3>3. h[i + 1] = f[i + 1]
        <4>1. CASE i + 1 <= m
          BY <1>8, <3>1, <4>1
        <4>2. CASE ~(i + 1 <= m)
          <5>1. i = m /\ (i + 1) - m = 1
            BY <2>1, <4>2
          <5> QED
            BY <1>4, <1>6, <1>8, <3>1, <4>2, <5>1
        <4> QED
          BY <4>1, <4>2
      <3> QED
        BY <1>5, <3>1, <3>2, <3>3
    <2>2. CASE ~(i <= m)
      <3>1. /\ i - m \in 1 .. n /\ i \in 1 .. m + n + 1 /\ i + 1 \in 1 .. m + n + 1
            /\ ~(i + 1 <= m) /\ (i + 1) - m = (i - m) + 1
        BY <2>2
      <3>2. h[i] = g[i - m] /\ h[i + 1] = g[(i - m) + 1] /\ c[i] = t[i - m]
        BY <1>3, <1>8, <2>2, <3>1
      <3> QED
        BY <1>7, <3>1, <3>2
    <2> QED
      BY <2>1, <2>2
  <1>13. Tells(h, c)
    BY <1>3, <1>9, <1>12 DEF Tells
  <1> QED
    BY <1>2, <1>3, <1>9, <1>10, <1>11, <1>13 DEF Flows

\* Until a message is complete, the units of a stream are those it goes on with.
LEMMA FlowsOn ==
    ASSUME NEW s \in Seq(Unit), NEW p \in Phase, NEW q \in Phase, Flows(s, p, q),
           NEW n \in Nat, n <= Len(s), p + n <= BodyLen + 1
    PROVE  /\ \A i \in 1 .. n : s[i] = IF p + i = 1 THEN "h" ELSE "b"
           /\ Flows(After(s, n), IF p + n = BodyLen + 1 THEN 0 ELSE p + n, q)
  <1>0. p \in Nat /\ p <= BodyLen /\ BodyLen \in Nat /\ 1 <= BodyLen
    BY PhaseKnown DEF Phase
  <1>1. PICK l \in Nat : l = Len(s)
    BY LenProperties
  <1>2. PICK f \in [1 .. l + 1 -> Phase] : Tells(f, s) /\ f[1] = p /\ f[l + 1] = q
    BY <1>1 DEF Flows
  <1>3. \A i \in 1 .. l : /\ s[i] = IF f[i] = 0 THEN "h" ELSE "b"
                          /\ f[i + 1] = IF f[i] = BodyLen THEN 0 ELSE f[i] + 1
    BY <1>1, <1>2 DEF Tells
  <1> DEFINE T == {k \in Nat : k <= n => f[k + 1] = IF p + k = BodyLen + 1 THEN 0 ELSE p + k}
  <1>4. 0 \in T
    BY <1>0, <1>2
  <1>5. ASSUME NEW k \in Nat, k \in T
        PROVE  k + 1 \in T
    <2> SUFFICES ASSUME k + 1 <= n
                 PROVE  f[(k + 1) + 1] = IF p + (k + 1) = BodyLen + 1 THEN 0 ELSE p + (k + 1)
      OBVIOUS
    <2>1. k + 1 \in 1 .. l /\ p + k # BodyLen + 1 /\ k <= n
      BY <1>0, <1>1
    <2>2. f[k + 1] = p + k
      BY <1>5, <2>1
    <2> QED
      BY <1>0, <1>3, <2>1, <2>2
  <1>6. Nat \subseteq T
    <2> HIDE DEF T
    <2> QED
      BY <1>4, <1>5, SetInduction
  <1>7. ASSUME NEW k \in 0 .. n
        PROVE  f[k + 1] = IF p + k = BodyLen + 1 THEN 0 ELSE p + k
    BY <1>6
  <1>8. ASSUME NEW i \in 1 .. n
        PROVE  s[i] = IF p + i = 1 THEN "h" ELSE "b"
    <2>1. i - 1 \in 0 .. n /\ (i - 1) + 1 = i /\ i \in 1 .. l /\ p + (i - 1) # BodyLen + 1
      BY <1>0, <1>1
    <2>2. f[i] = p + (i - 1)
      BY <1>7, <2>1
    <2> QED
      BY <1>0, <1>3, <2>1, <2>2
  <1>9. PICK a : a = After(s, n)
    OBVIOUS
  <1>10. Len(a) = l - n /\ \A i \in 1 .. l - n : a[i] = s[n + i]
    BY <1>1, <1>9, Parts
  <1>11. PICK g : g = [i \in 1 .. l - n + 1 |-> f[n + i]]
    OBVIOUS
  <1>12. /\ g \in [1 .. Len(a) + 1 -> Phase] /\ g[Len(a) + 1] = q
         /\ g[1] = IF p + n = BodyLen + 1 THEN 0 ELSE p + n
    <2>1. \A i \in 1 .. l - n + 1 : n + i \in 1 .. l + 1
      BY <1>1
    <2>2. 1 \in 1 .. l - n + 1 /\ l - n + 1 \in 1 .. l - n + 1 /\ n + (l - n + 1) = l + 1
      BY <1>1
    <2>3. g \in [1 .. l - n + 1 -> Phase]
      BY <1>2, <1>11, <2>1
    <2>4. n \in 0 .. n
      OBVIOUS
    <2>5. g[1] = f[n + 1]
      BY <1>11, <2>2
    <2> QED
      BY <1>2, <1>7, <1>10, <1>11, <2>2, <2>3, <2>4, <2>5
  <1>13. ASSUME NEW i \in 1 .. l - n
         PROVE  /\ a[i] = IF g[i] = 0 THEN "h" ELSE "b"
                /\ g[i + 1] = IF g[i] = BodyLen THEN 0 ELSE g[i] + 1
    <2>1. /\ n + i \in 1 .. l /\ i \in 1 .. l - n + 1 /\ i + 1 \in 1 .. l - n + 1
          /\ n + (i + 1) = (n + i) + 1
      BY <1>1
    <2>2. g[i] = f[n + i] /\ g[i + 1] = f[(n + i) + 1] /\ a[i] = s[n + i]
      BY <1>10, <1>11, <2>1
    <2> QED
      BY <1>3, <2>1, <2>2
  <1>14. Tells(g, a)
    BY <1>10, <1>12, <1>13 DEF Tells
  <1> QED
    BY <1>8, <1>9, <1>12, <1>14 DEF Flows

\* A message, and what it is made of.
LEMMA MessageKnown ==
    /\ Message \in Seq(Unit) /\ Len(Message) = BodyLen + 1
    /\ \A i \in 1 .. BodyLen + 1 : Message[i] = IF i = 1 THEN "h" ELSE "b"
  <1>1. PICK h, b : h = <<"h">> /\ b = [k \in 1 .. BodyLen |-> "b"]
    OBVIOUS
  <1>2. h \in Seq(Unit) /\ Len(h) = 1 /\ h[1] = "h"
    BY <1>1 DEF Unit
  <1>3. b \in Seq(Unit) /\ Len(b) = BodyLen /\ \A i \in 1 .. BodyLen : b[i] = "b"
    BY <1>1, PhaseKnown DEF Unit
  <1>4. PICK m : m = h \o b
    OBVIOUS
  <1>5. /\ m \in Seq(Unit) /\ Len(m) = 1 + BodyLen
        /\ \A i \in 1 .. 1 + BodyLen : m[i] = IF i <= 1 THEN h[i] ELSE b[i - 1]
    <2>1. /\ m \in Seq(Unit) /\ Len(m) = Len(h) + Len(b)
          /\ \A i \in 1 .. Len(h) + Len(b) : m[i] = IF i <= Len(h) THEN h[i] ELSE b[i - Len(h)]
      BY <1>2, <1>3, <1>4, ConcatProperties
    <2> QED
      BY <1>2, <1>3, <2>1
  <1>6. ASSUME NEW i \in 1 .. BodyLen + 1
        PROVE  m[i] = IF i = 1 THEN "h" ELSE "b"
    <2>1. CASE i = 1
      BY <1>2, <1>5, <2>1, PhaseKnown
    <2>2. CASE i # 1
      <3>1. i - 1 \in 1 .. BodyLen /\ ~(i <= 1) /\ i \in 1 .. 1 + BodyLen
        BY <2>2, PhaseKnown
      <3> QED
        BY <1>3, <1>5, <2>2, <3>1
    <2> QED
      BY <2>1, <2>2
  <1>7. Message = m
    BY <1>1, <1>4 DEF Message
  <1> QED
    BY <1>5, <1>6, <1>7, PhaseKnown

LEMMA MessageFlows == Flows(Message, 0, 0)
  <1>1. PICK f : f = [i \in 1 .. BodyLen + 2 |-> IF i = BodyLen + 2 THEN 0 ELSE i - 1]
    OBVIOUS
  <1>2. f \in [1 .. BodyLen + 2 -> Phase] /\ f[1] = 0 /\ f[BodyLen + 2] = 0
    BY <1>1, PhaseKnown DEF Phase
  <1>3. ASSUME NEW i \in 1 .. BodyLen + 1
        PROVE  /\ Message[i] = IF f[i] = 0 THEN "h" ELSE "b"
               /\ f[i + 1] = IF f[i] = BodyLen THEN 0 ELSE f[i] + 1
    <2>1. /\ i \in 1 .. BodyLen + 2 /\ i + 1 \in 1 .. BodyLen + 2 /\ i # BodyLen + 2
          /\ i \in Int /\ BodyLen \in Int
      BY PhaseKnown
    <2>2. f[i] = i - 1 /\ f[i + 1] = IF i + 1 = BodyLen + 2 THEN 0 ELSE i
      BY <1>1, <2>1
    <2> QED
      BY <2>1, <2>2, MessageKnown
  <1>4. Len(Message) + 1 = BodyLen + 2
    BY MessageKnown, PhaseKnown
  <1>5. Tells(f, Message)
    BY <1>2, <1>3, <1>4, MessageKnown DEF Tells
  <1> QED
    BY <1>2, <1>4, <1>5 DEF Flows

-----------------------------------------------------------------------------
(***************************************************************************)
(* Steps that change the connections.                                      *)
(***************************************************************************)

\* A connection has its units in flight, and is open or closed.
LEMMA WireKnown ==
    ASSUME NEW s \in Seq(Wire), NEW i \in 1 .. Len(s)
    PROVE  s[i] \in Wire /\ s[i].data \in Seq(Unit) /\ s[i].ended \in BOOLEAN
  <1>1. s[i] \in Wire
    BY ElementOfSeq
  <1> QED
    BY <1>1 DEF Wire

\* What is lost without tearing a message leaves a stream that ends between two.
LEMMA LostWhole ==
    ASSUME NEW s \in Seq(Unit), NEW p \in Phase, Flows(s, p, 0), NEW n \in 0 .. Len(s),
           ~Tears(After(s, n))
    PROVE  Upto(s, n) \in Seq(Unit) /\ Flows(Upto(s, n), p, 0)
  <1>1. n \in Nat /\ n <= Len(s) /\ Len(s) \in Nat /\ 0 \in Phase
    BY LenProperties, PhaseKnown
  <1>2. PICK r \in Phase :
          /\ Flows(Upto(s, n), p, r)
          /\ IF n = Len(s) THEN r = 0 ELSE s[n + 1] = IF r = 0 THEN "h" ELSE "b"
    BY <1>1, FlowsApart
  <1>3. Upto(s, n) \in Seq(Unit)
    BY <1>1, Parts
  <1>4. r = 0
    <2> SUFFICES ASSUME n # Len(s)
                 PROVE  r = 0
      BY <1>2
    <2>1. PICK a : a = After(s, n)
      OBVIOUS
    <2>2. a \in Seq(Unit) /\ Len(a) = Len(s) - n /\ \A i \in 1 .. Len(s) - n : a[i] = s[n + i]
      BY <1>1, <2>1, Parts
    <2>3. 1 \in 1 .. Len(s) - n
      BY <1>1
    <2>4. a # <<>> /\ Head(a) = s[n + 1]
      BY <1>1, <2>2, <2>3
    <2>5. s[n + 1] # "b"
      BY <2>1, <2>4 DEF Tears
    <2> QED
      BY <1>2, <2>5
  <1> QED
    BY <1>2, <1>3, <1>4

\* Hanging up takes away the end of what is in flight, and keeps the streams if that
\* tears no message.
LEMMA HangupKeeps ==
    ASSUME TypeInv, ThreadInv, Hangup
    PROVE  /\ conns' \in Seq(Wire) /\ linked' = FALSE /\ torn' \in BOOLEAN
           /\ Len(conns') = Len(conns)
           /\ ~torn' => ~torn /\ \A c \in Phase : FlowIn(c) => FlowIn(c)'
  <1>1. CASE ~linked
    <2>1. linked' = FALSE /\ conns' = conns /\ torn' = torn
      BY <1>1 DEF Hangup
    <2> QED
      BY <2>1 DEF TypeInv, FlowIn
  <1>2. CASE linked
    <2>1. PICK l \in Nat : l = Len(conns) /\ l # 0
      BY <1>2, EmptySeq, LenProperties DEF TypeInv, ThreadInv
    <2>2. PICK sent : sent = conns[l].data
      OBVIOUS
    <2>3. PICK n \in 0 .. Len(sent) :
            /\ conns' = [conns EXCEPT ![l] = [data |-> Upto(sent, n), ended |-> TRUE]]
            /\ torn' = (torn \/ Tears(After(sent, n)))
      BY <1>2, <2>1, <2>2 DEF Hangup
    <2>4. l \in 1 .. Len(conns) /\ conns \in Seq(Wire)
      BY <2>1 DEF TypeInv
    <2>5. conns[l] \in Wire /\ sent \in Seq(Unit)
      BY <2>2, <2>4, WireKnown
    <2>6. n \in Nat /\ n <= Len(sent)
      BY <2>5, LenProperties
    <2>7. PICK w : w = [data |-> Upto(sent, n), ended |-> TRUE]
      OBVIOUS
    <2>8. Upto(sent, n) \in Seq(Unit)
      BY <2>5, <2>6, Parts
    <2>9. w \in Wire
      BY <2>7, <2>8 DEF Wire
    <2>10. /\ l \in DOMAIN conns /\ DOMAIN conns = 1 .. l
           /\ conns' \in Seq(Wire) /\ Len(conns') = l /\ DOMAIN conns' = 1 .. l
           /\ \A i \in 1 .. l : conns'[i] = IF i = l THEN w ELSE conns[i]
      <3>1. conns' = [conns EXCEPT ![l] = w]
        BY <2>3, <2>7
      <3>2. conns' \in Seq(Wire) /\ Len(conns') = l /\ \A i \in 1 .. l : conns'[i] = IF i = l THEN w ELSE conns[i]
        BY <2>1, <2>4, <2>9, <3>1, ExceptSeq
      <3> QED
        BY <2>1, <2>4, <3>2, LenProperties
    <2>11. torn' \in BOOLEAN /\ linked' = FALSE
      BY <1>2, <2>3 DEF TypeInv, Hangup, Tears
    <2>12. ASSUME ~torn', NEW c \in Phase, FlowIn(c)
           PROVE  FlowIn(c)'
      <3>1. ~Tears(After(sent, n))
        BY <2>3, <2>12
      <3>2. PICK p \in Phase : p = IF l = 1 THEN c ELSE 0
        BY PhaseKnown
      <3>3. Flows(sent, p, 0)
        BY <2>2, <2>10, <2>12, <3>2 DEF FlowIn
      <3>4. Flows(w.data, p, 0)
        BY <2>5, <2>7, <3>1, <3>3, LostWhole
      <3>5. ASSUME NEW i \in 1 .. l
            PROVE  Flows(conns'[i].data, IF i = 1 THEN c ELSE 0, 0)
        <4>1. CASE i = l
          BY <2>10, <3>2, <3>4, <4>1
        <4>2. CASE i # l
          BY <2>10, <2>12, <4>2 DEF FlowIn
        <4> QED
          BY <4>1, <4>2
      <3> QED
        BY <2>10, <3>5 DEF FlowIn
    <2>13. ~torn' => ~torn
      BY <2>3
    <2> QED
      BY <2>1, <2>10, <2>11, <2>12, <2>13
  <1> QED
    BY <1>1, <1>2

\* Sending whole messages, on the connection there is or a new one, adds them to a
\* stream if what does not get through tears no message.
LEMMA TransmitKeeps ==
    ASSUME TypeInv, ThreadInv, SentInv, NEW n \in 0 .. Len(sendBuf), Transmit(sendBuf, n)
    PROVE  /\ conns' \in Seq(Wire) /\ linked' = TRUE /\ torn' \in BOOLEAN
           /\ conns' # <<>> /\ ~conns'[Len(conns')].ended
           /\ ~torn' => ~torn /\ \A c \in Phase : (~client => c = 0) /\ FlowIn(c) => FlowIn(c)'
  <1>1. sendBuf \in Seq(Unit) /\ conns \in Seq(Wire) /\ n \in Nat /\ n <= Len(sendBuf)
    BY LenProperties DEF TypeInv
  <1>2. PICK k \in Nat : k = Len(conns) /\ DOMAIN conns = 1 .. k
    BY <1>1, LenProperties
  <1>3. PICK none : none = [data |-> <<>>, ended |-> FALSE]
    OBVIOUS
  <1>4. none \in Wire /\ none.data = <<>> /\ none.ended = FALSE
    BY <1>3 DEF Wire
  <1>5. PICK dialed : dialed = IF linked THEN conns ELSE Append(conns, none)
    OBVIOUS
  <1>6. PICK l \in Nat :
          /\ l # 0 /\ dialed \in Seq(Wire) /\ Len(dialed) = l /\ DOMAIN dialed = 1 .. l
          /\ ~dialed[l].ended
          /\ IF linked THEN l = k ELSE l = k + 1
          /\ \A i \in 1 .. l : dialed[i] = IF i <= k THEN conns[i] ELSE none
    <2>1. CASE linked
      <3>1. k # 0 /\ ~conns[k].ended
        BY <1>1, <1>2, <2>1, EmptySeq DEF ThreadInv
      <3> QED
        BY <1>1, <1>2, <1>5, <2>1, <3>1
    <2>2. CASE ~linked
      <3>1. /\ dialed \in Seq(Wire) /\ Len(dialed) = k + 1
            /\ \A i \in 1 .. k + 1 : dialed[i] = IF i <= k THEN conns[i] ELSE none
        BY <1>1, <1>2, <1>4, <1>5, <2>2, AppendProperties
      <3>2. DOMAIN dialed = 1 .. k + 1 /\ k + 1 \in Nat /\ k + 1 # 0 /\ ~(k + 1 <= k)
        BY <3>1, LenProperties
      <3>3. dialed[k + 1] = none
        BY <3>1, <3>2
      <3> QED
        BY <1>4, <2>2, <3>1, <3>2, <3>3
    <2> QED
      BY <2>1, <2>2
  <1>7. /\ linked' = TRUE
        /\ conns' = [dialed EXCEPT ![l].data = @ \o Upto(sendBuf, n)]
        /\ torn' = (torn \/ Tears(After(sendBuf, n)))
    BY <1>3, <1>5, <1>6 DEF Transmit
  <1>8. l \in 1 .. Len(dialed) /\ l \in DOMAIN dialed
    BY <1>6
  <1>9. dialed[l] \in Wire /\ dialed[l].data \in Seq(Unit)
    BY <1>6, <1>8, WireKnown
  <1>10. PICK u : u = Upto(sendBuf, n) /\ u \in Seq(Unit)
    BY <1>1, Parts
  <1>11. PICK w : w = [data |-> dialed[l].data \o u, ended |-> dialed[l].ended]
    OBVIOUS
  <1>12. dialed[l].data \o u \in Seq(Unit)
    BY <1>9, <1>10, ConcatProperties
  <1>13. w \in Wire /\ ~w.ended /\ w.data = dialed[l].data \o u
    BY <1>6, <1>9, <1>11, <1>12 DEF Wire
  <1>14. conns' = [dialed EXCEPT ![l] = w]
    <2>1. PICK d \in Wire : d = dialed[l]
      BY <1>9
    <2>2. conns' = [dialed EXCEPT ![l] = [d EXCEPT !.data = @ \o u]]
      BY <1>7, <1>10, <2>1
    <2>3. PICK e : e = d.data \o u
      OBVIOUS
    <2>4. [d EXCEPT !.data = e] = [data |-> e, ended |-> d.ended]
      BY DEF Wire
    <2> QED
      BY <1>11, <2>1, <2>2, <2>3, <2>4
  <1>15. conns' \in Seq(Wire) /\ Len(conns') = l /\ \A i \in 1 .. l : conns'[i] = IF i = l THEN w ELSE dialed[i]
    BY <1>6, <1>8, <1>13, <1>14, ExceptSeq
  <1>16. DOMAIN conns' = 1 .. l /\ conns' # <<>> /\ ~conns'[Len(conns')].ended
    BY <1>6, <1>8, <1>13, <1>15, LenProperties, EmptySeq
  <1>17. torn' \in BOOLEAN
    BY <1>7 DEF TypeInv, Tears
  <1>18. ASSUME ~torn', NEW c \in Phase, ~client => c = 0, FlowIn(c)
         PROVE  FlowIn(c)'
    <2>1. ~Tears(After(sendBuf, n)) /\ 0 \in Phase
      BY <1>7, <1>18, PhaseKnown
    <2>2. Flows(u, 0, 0)
      BY <1>1, <1>10, <2>1, LostWhole DEF SentInv
    <2>3. ASSUME NEW i \in 1 .. l
          PROVE  Flows(dialed[i].data, IF i = 1 THEN c ELSE 0, 0)
      <3>1. CASE i <= k
        <4>1. i \in DOMAIN conns /\ dialed[i] = conns[i]
          BY <1>2, <1>6, <3>1
        <4> QED
          BY <1>18, <4>1 DEF FlowIn
      <3>2. CASE ~(i <= k)
        <4>1. dialed[i].data = <<>>
          BY <1>4, <1>6, <3>2
        <4>2. i = 1 => c = 0
          <5> SUFFICES ASSUME i = 1
                       PROVE  ~client
            BY <1>18
          <5>1. k = 0
            BY <3>2
          <5> QED
            BY <1>1, <1>2, <5>1, EmptySeq DEF ThreadInv
        <4> QED
          BY <2>1, <4>1, <4>2, FlowsEmpty
      <3> QED
        BY <3>1, <3>2
    <2>4. PICK p \in Phase : p = IF l = 1 THEN c ELSE 0
      BY <2>1
    <2>5. Flows(dialed[l].data, p, 0)
      BY <1>6, <1>8, <2>3, <2>4
    <2>6. Flows(w.data, p, 0)
      BY <1>9, <1>10, <1>13, <2>1, <2>2, <2>5, FlowsTogether
    <2>7. ASSUME NEW i \in 1 .. l
          PROVE  Flows(conns'[i].data, IF i = 1 THEN c ELSE 0, 0)
      <3>1. CASE i = l
        BY <1>15, <2>4, <2>6, <3>1
      <3>2. CASE i # l
        BY <1>15, <2>3, <3>2
      <3> QED
        BY <3>1, <3>2
    <2> QED
      BY <1>16, <2>7 DEF FlowIn
  <1>19. ~torn' => ~torn
    BY <1>7
  <1> QED
    BY <1>7, <1>15, <1>16, <1>17, <1>18, <1>19

\* A step of the sender or the network keeps the invariant if it keeps the streams.
LEMMA SenderStep ==
    ASSUME VInv, UNCHANGED <<client, recvVars>>,
           conns' \in Seq(Wire), linked' \in BOOLEAN, torn' \in BOOLEAN,
           linked' => conns' # <<>> /\ ~conns'[Len(conns')].ended,
           client => conns' # <<>>,
           queue' \in Seq(Unit), sendBuf' \in Seq(Unit), Flows(queue', 0, 0), Flows(sendBuf', 0, 0),
           ~torn' => ~torn /\ \A c \in Phase : (~client => c = 0) /\ FlowIn(c) => FlowIn(c)'
    PROVE  VInv'
  <1>1. TypeInv'
    BY DEF VInv, TypeInv, recvVars, parseVars
  <1>2. ThreadInv'
    BY DEF VInv, ThreadInv, recvVars, parseVars
  <1>3. SentInv'
    BY DEF SentInv
  <1>4. ASSUME ~torn'
        PROVE  StreamInv' /\ BufferInv'
    <2>1. StreamInv /\ BufferInv
      BY <1>4 DEF VInv
    <2>2. PICK c \in Phase : (~client => c = 0) /\ FlowIn(c) /\ (recver = "on" => Flows(data, Taken, c))
      BY <2>1 DEF StreamInv
    <2>3. FlowIn(c)'
      BY <1>4, <2>2
    <2>4. Taken' = Taken /\ data' = data /\ recver' = recver /\ client' = client
      BY DEF Taken, recvVars, parseVars
    <2>5. StreamInv'
      BY <2>2, <2>3, <2>4 DEF StreamInv
    <2>6. BufferInv'
      BY <2>1 DEF BufferInv, recvVars, parseVars
    <2> QED
      BY <2>5, <2>6
  <1> QED
    BY <1>1, <1>2, <1>3, <1>4 DEF VInv

\* A step of the receiver tears nothing, and has no part in what is sent.
LEMMA ReceiverStep ==
    ASSUME VInv, UNCHANGED <<sendVars, torn>>, TypeInv', ThreadInv',
           ~torn /\ StreamInv /\ BufferInv => StreamInv' /\ BufferInv'
    PROVE  VInv'
  <1>1. SentInv'
    BY DEF VInv, SentInv, sendVars
  <1> QED
    BY <1>1 DEF VInv

\* The units in flight do not change with anything else.
LEMMA FlowStays ==
    ASSUME UNCHANGED conns
    PROVE  \A c \in Phase : FlowIn(c) => FlowIn(c)'
  BY DEF FlowIn

-----------------------------------------------------------------------------
(***************************************************************************)
(* The sender's steps.                                                     *)
(***************************************************************************)

LEMMA SendKeeps ==
    ASSUME VInv, SendNext, UNCHANGED recvVars
    PROVE  VInv'
  <1>1. TypeInv /\ ThreadInv /\ SentInv /\ Flows(<<>>, 0, 0) /\ <<>> \in Seq(Unit)
    BY FlowsEmpty, PhaseKnown, EmptySeq DEF VInv
  <1>2. ASSUME UNCHANGED connVars,
               queue' \in Seq(Unit), sendBuf' \in Seq(Unit), Flows(queue', 0, 0), Flows(sendBuf', 0, 0)
        PROVE  VInv'
    <2>1. /\ conns' \in Seq(Wire) /\ linked' \in BOOLEAN /\ torn' \in BOOLEAN /\ client' = client
          /\ linked' => conns' # <<>> /\ ~conns'[Len(conns')].ended
          /\ client => conns' # <<>>
          /\ conns' = conns /\ torn' = torn
      BY <1>1, <1>2 DEF connVars, TypeInv, ThreadInv
    <2> QED
      BY <1>2, <2>1, FlowStays, SenderStep
  <1>3. ASSUME UNCHANGED <<queue, sendBuf, connVars>>
        PROVE  VInv'
    BY <1>1, <1>2, <1>3 DEF TypeInv, SentInv
  <1>4. CASE SendEnable
    BY <1>1, <1>2, <1>4 DEF SendEnable
  <1>5. CASE SendFrame
    <2>1. queue \o Message \in Seq(Unit) /\ Flows(queue \o Message, 0, 0)
      BY <1>1, PhaseKnown, MessageKnown, MessageFlows, FlowsTogether DEF TypeInv, SentInv
    <2>2. queue' \in Seq(Unit) /\ Flows(queue', 0, 0)
      BY <1>1, <1>5, <2>1 DEF TypeInv, SentInv, SendFrame, Send
    <2> QED
      BY <1>1, <1>2, <1>5, <2>2 DEF TypeInv, SentInv, SendFrame
  <1>6. CASE SendClose
    <2>1. Hangup /\ UNCHANGED <<client, queue, sendBuf>>
      BY <1>6 DEF SendClose
    <2>2. /\ conns' \in Seq(Wire) /\ linked' = FALSE /\ torn' \in BOOLEAN
          /\ Len(conns') = Len(conns)
          /\ ~torn' => ~torn /\ \A c \in Phase : FlowIn(c) => FlowIn(c)'
      BY <1>1, <2>1, HangupKeeps
    <2>3. client => conns' # <<>>
      BY <1>1, <2>2, EmptySeq DEF TypeInv, ThreadInv
    <2>4. queue' \in Seq(Unit) /\ sendBuf' \in Seq(Unit) /\ Flows(queue', 0, 0) /\ Flows(sendBuf', 0, 0)
      BY <1>1, <2>1 DEF TypeInv, SentInv
    <2> QED
      BY <2>1, <2>2, <2>3, <2>4, SenderStep
  <1>7. CASE InternalSend
    <2>1. UNCHANGED <<client, queue>> /\ sendBuf' = <<>>
      BY <1>7 DEF InternalSend
    <2>2. queue' \in Seq(Unit) /\ sendBuf' \in Seq(Unit) /\ Flows(queue', 0, 0) /\ Flows(sendBuf', 0, 0)
      BY <1>1, <2>1 DEF TypeInv, SentInv
    <2>3. CASE UNCHANGED <<conns, linked, torn>>
      <3>1. UNCHANGED connVars
        BY <1>7, <2>3 DEF InternalSend, connVars
      <3> QED
        BY <1>2, <2>2, <3>1
    <2>4. CASE \E n \in 0 .. Len(sendBuf) : Transmit(sendBuf, n)
      <3>1. PICK n \in 0 .. Len(sendBuf) : Transmit(sendBuf, n)
        BY <2>4
      <3>2. /\ conns' \in Seq(Wire) /\ linked' = TRUE /\ torn' \in BOOLEAN
            /\ conns' # <<>> /\ ~conns'[Len(conns')].ended
            /\ ~torn' => ~torn /\ \A c \in Phase : (~client => c = 0) /\ FlowIn(c) => FlowIn(c)'
        BY <1>1, <3>1, TransmitKeeps
      <3> QED
        BY <2>1, <2>2, <3>2, SenderStep
    <2> QED
      BY <1>7, <2>3, <2>4 DEF InternalSend
  <1>8. CASE TakeQueue
    BY <1>1, <1>2, <1>8 DEF TypeInv, SentInv, TakeQueue
  <1>9. CASE SendJoin
    BY <1>1, <1>2, <1>9 DEF TypeInv, SentInv, SendJoin
  <1>10. CASE SetDone \/ NotifyDone \/ BeginLoop \/ Wait \/ ReadDone \/ SpuriousWakeup
    BY <1>3, <1>10 DEF SetDone, NotifyDone, BeginLoop, Wait, ReadDone, SpuriousWakeup
  <1> QED
    BY <1>4, <1>5, <1>6, <1>7, <1>8, <1>9, <1>10 DEF SendNext, SendThread

\* The network may fail at any time.
LEMMA BreakKeeps ==
    ASSUME VInv, Break, UNCHANGED <<sendVars, recvVars>>
    PROVE  VInv'
  <1>1. TypeInv /\ ThreadInv /\ SentInv
    BY DEF VInv
  <1>2. Hangup /\ UNCHANGED <<client, recvVars>>
    BY DEF Break
  <1>3. /\ conns' \in Seq(Wire) /\ linked' = FALSE /\ torn' \in BOOLEAN
        /\ Len(conns') = Len(conns)
        /\ ~torn' => ~torn /\ \A c \in Phase : FlowIn(c) => FlowIn(c)'
    BY <1>1, <1>2, HangupKeeps
  <1>4. client => conns' # <<>>
    BY <1>1, <1>3, EmptySeq DEF TypeInv, ThreadInv
  <1>5. queue' \in Seq(Unit) /\ sendBuf' \in Seq(Unit) /\ Flows(queue', 0, 0) /\ Flows(sendBuf', 0, 0)
    BY <1>1 DEF TypeInv, SentInv, sendVars
  <1> QED
    BY <1>2, <1>3, <1>4, <1>5, SenderStep

-----------------------------------------------------------------------------
(***************************************************************************)
(* The receiver's steps.                                                   *)
(***************************************************************************)

\* A step that leaves the streams and the buffer alone, as far as a mod that is on goes.
LEMMA QuietStep ==
    ASSUME VInv, UNCHANGED <<sendVars, conns, torn, total, buffer>>, TypeInv', ThreadInv',
           client => client',
           parsing' = "body" <=> parsing = "body",
           recver' = "on" => recver = "on" /\ data' = data
    PROVE  VInv'
  <1>1. ASSUME StreamInv, BufferInv
        PROVE  StreamInv' /\ BufferInv'
    <2>1. PICK c \in Phase : (~client => c = 0) /\ FlowIn(c) /\ (recver = "on" => Flows(data, Taken, c))
      BY <1>1 DEF StreamInv
    <2>2. FlowIn(c)' /\ Taken' = Taken
      BY <2>1, FlowStays DEF Taken
    <2>3. StreamInv'
      BY <2>1, <2>2 DEF StreamInv
    <2>4. BufferInv'
      BY <1>1 DEF BufferInv
    <2> QED
      BY <2>3, <2>4
  <1> QED
    BY <1>1, ReceiverStep

LEMMA QuietKeeps ==
    ASSUME VInv, UNCHANGED sendVars,
           ClearFlag \/ RecvJoin \/ CountAvailable \/ BeginRecv \/ TestFlag \/ InternalAccept
    PROVE  VInv'
  <1>1. TypeInv /\ ThreadInv
    BY DEF VInv
  <1>2. Len(data) \in Nat /\ (data # <<>> => Len(data) # 0) /\ <<>> \in Seq(Unit)
    BY <1>1, LenProperties, EmptySeq DEF TypeInv
  <1>3. CASE ClearFlag
    <2>1. TypeInv' /\ ThreadInv'
      BY <1>1, <1>3 DEF TypeInv, ThreadInv, ClearFlag, connVars, sendVars, parseVars
    <2> QED
      BY <1>3, <2>1, QuietStep DEF ClearFlag, connVars, parseVars
  <1>4. CASE RecvJoin
    <2>1. TypeInv' /\ ThreadInv'
      BY <1>1, <1>2, <1>4 DEF TypeInv, ThreadInv, RecvJoin, connVars, sendVars, parseVars
    <2> QED
      BY <1>4, <2>1, QuietStep DEF RecvJoin, connVars, parseVars
  <1>5. CASE CountAvailable
    <2>1. TypeInv' /\ ThreadInv'
      BY <1>1, <1>2, <1>5 DEF TypeInv, ThreadInv, CountAvailable, connVars, sendVars
    <2> QED
      BY <1>5, <2>1, QuietStep DEF CountAvailable, connVars
  <1>6. CASE BeginRecv
    <2>1. TypeInv' /\ ThreadInv'
      BY <1>1, <1>6 DEF TypeInv, ThreadInv, BeginRecv, connVars, sendVars, parseVars
    <2> QED
      BY <1>6, <2>1, QuietStep DEF BeginRecv, connVars, parseVars
  <1>7. CASE TestFlag
    <2>1. TypeInv' /\ ThreadInv'
      BY <1>1, <1>7 DEF TypeInv, ThreadInv, TestFlag, connVars, sendVars, parseVars
    <2> QED
      BY <1>7, <2>1, QuietStep DEF TestFlag, connVars, parseVars
  <1>8. CASE InternalAccept
    <2>1. TypeInv' /\ ThreadInv'
      BY <1>1, <1>8 DEF TypeInv, ThreadInv, InternalAccept, sendVars, parseVars
    <2>2. ~client
      BY <1>1, <1>8 DEF ThreadInv, InternalAccept
    <2> QED
      BY <1>8, <2>1, <2>2, QuietStep DEF InternalAccept, parseVars
  <1> QED
    BY <1>3, <1>4, <1>5, <1>6, <1>7, <1>8

\* A mod that is switched on starts with nothing taken and no client.
LEMMA RecvEnableKeeps ==
    ASSUME VInv, UNCHANGED sendVars, RecvEnable
    PROVE  VInv'
  <1>1. TypeInv /\ ThreadInv /\ <<>> \in Seq(Unit) /\ Flows(<<>>, 0, 0) /\ 0 \in Phase
    BY FlowsEmpty, PhaseKnown, EmptySeq DEF VInv
  <1>2. /\ UNCHANGED <<conns, linked, client, torn, parsing, avail, total>>
        /\ data' = <<>> /\ buffer' = <<>> /\ recver' = "on" /\ recver = "off"
    BY DEF RecvEnable
  <1>3. ~client /\ parsing = "idle"
    BY <1>1, <1>2 DEF TypeInv, ThreadInv
  <1>4. TypeInv'
    BY <1>1, <1>2 DEF TypeInv, sendVars
  <1>5. ThreadInv'
    BY <1>1, <1>2, <1>3 DEF ThreadInv
  <1>6. ASSUME StreamInv
        PROVE  StreamInv' /\ BufferInv'
    <2>1. FlowIn(0)
      BY <1>3, <1>6 DEF StreamInv
    <2>2. FlowIn(0)' /\ Taken' = 0
      BY <1>1, <1>2, <1>3, <2>1, FlowStays DEF Taken
    <2>3. StreamInv'
      BY <1>1, <1>2, <1>3, <2>2 DEF StreamInv
    <2>4. BufferInv'
      BY <1>2, <1>3 DEF BufferInv
    <2> QED
      BY <2>3, <2>4
  <1> QED
    BY <1>2, <1>4, <1>5, <1>6, ReceiverStep

\* Closing the socket leaves the client's connection at most.
LEMMA RecvCloseKeeps ==
    ASSUME VInv, UNCHANGED sendVars, RecvClose
    PROVE  VInv'
  <1>1. TypeInv /\ ThreadInv /\ <<>> \in Seq(Wire) /\ Len(conns) \in Nat
    BY LenProperties, EmptySeq DEF VInv, TypeInv
  <1>2. /\ UNCHANGED <<client, torn, rThread, data, parsing, avail, total, buffer>>
        /\ recver' = "closed" /\ parsing = "idle"
        /\ conns' = IF client THEN Upto(conns, 1) ELSE <<>>
        /\ linked' = (linked /\ client /\ Len(conns) = 1)
    BY DEF RecvClose, parseVars
  <1>3. /\ conns' \in Seq(Wire) /\ Len(conns') = (IF client THEN 1 ELSE 0)
        /\ client => conns' # <<>> /\ 1 \in 1 .. Len(conns) /\ conns'[1] = conns[1]
    <2>1. CASE client
      <3>1. Len(conns) # 0
        BY <1>1, <2>1, EmptySeq DEF TypeInv, ThreadInv
      <3>2. PICK n \in Nat : n = 1 /\ n <= Len(conns) /\ conns \in Seq(Wire)
        BY <1>1, <3>1 DEF TypeInv
      <3>3. /\ Upto(conns, n) \in Seq(Wire) /\ Len(Upto(conns, n)) = n
            /\ \A i \in 1 .. n : Upto(conns, n)[i] = conns[i]
        BY <3>2, Parts
      <3>4. Upto(conns, 1) \in Seq(Wire) /\ Len(Upto(conns, 1)) = 1 /\ Upto(conns, 1)[1] = conns[1]
        BY <3>2, <3>3
      <3> QED
        BY <1>1, <1>2, <2>1, <3>1, <3>4, EmptySeq
    <2>2. CASE ~client
      BY <1>1, <1>2, <2>2
    <2> QED
      BY <2>1, <2>2
  <1>4. TypeInv'
    BY <1>1, <1>2, <1>3 DEF TypeInv, sendVars
  <1>5. ThreadInv'
    BY <1>1, <1>2, <1>3 DEF ThreadInv
  <1>6. ASSUME StreamInv, BufferInv
        PROVE  StreamInv' /\ BufferInv'
    <2>1. PICK c \in Phase : (~client => c = 0) /\ FlowIn(c)
      BY <1>6 DEF StreamInv
    <2>2. DOMAIN conns' = 1 .. Len(conns') /\ DOMAIN conns = 1 .. Len(conns)
      BY <1>1, <1>3, LenProperties DEF TypeInv
    <2>3. ASSUME NEW i \in 1 .. Len(conns')
          PROVE  Flows(conns'[i].data, IF i = 1 THEN c ELSE 0, 0)
      <3>1. i = 1 /\ client
        BY <1>3
      <3> QED
        BY <1>3, <2>1, <2>2, <3>1 DEF FlowIn
    <2>4. FlowIn(c)'
      BY <2>2, <2>3 DEF FlowIn
    <2>5. StreamInv'
      BY <1>2, <2>1, <2>4 DEF StreamInv
    <2>6. BufferInv'
      BY <1>2, <1>6 DEF BufferInv
    <2> QED
      BY <2>5, <2>6
  <1> QED
    BY <1>2, <1>4, <1>5, <1>6, ReceiverStep

\* RecvFrame takes a header off m_Data, which is one if nothing was torn.
LEMMA ReadHeaderKeeps ==
    ASSUME VInv, UNCHANGED sendVars, ReadHeader
    PROVE  VInv'
  <1>1. TypeInv /\ ThreadInv /\ parsing = "header" /\ recver = "on"
    BY DEF VInv, ThreadInv, ReadHeader
  <1>2. PICK l \in Nat : l = Len(data) /\ 1 <= l /\ data \in Seq(Unit)
    BY <1>1, LenProperties DEF TypeInv, ThreadInv
  <1>3. data # <<>> /\ Head(data) = data[1]
    BY <1>2, EmptySeq
  <1>4. PICK one \in Nat : one = 1
    OBVIOUS
  <1>5. PICK h, t : h = Upto(data, 1) /\ t = After(data, 1)
    OBVIOUS
  <1>6. h \in Seq(Unit) /\ Len(h) = 1 /\ h[1] = data[1] /\ t \in Seq(Unit)
    <2>1. /\ Upto(data, one) \in Seq(Unit) /\ Len(Upto(data, one)) = one
          /\ \A i \in 1 .. one : Upto(data, one)[i] = data[i]
          /\ After(data, one) \in Seq(Unit)
      BY <1>2, <1>4, Parts
    <2> QED
      BY <1>4, <1>5, <2>1
  <1>7. Tail(data) = t
    BY <1>2, <1>3, <1>5, TailIsSubSeq DEF After
  <1>8. PICK len \in Lengthy(Head(data)) :
          IF avail < 1 + len THEN parsing' = "idle" /\ UNCHANGED <<data, total, buffer>>
          ELSE /\ parsing' = "body" /\ total' = len
               /\ data' = Tail(data) /\ buffer' = Upto(data, 1)
    BY DEF ReadHeader
  <1>9. len \in 0 .. BodyLen /\ (data[1] = "h" => len = BodyLen)
    BY <1>3, <1>8, PhaseKnown DEF Lengthy
  <1>10. avail' = 0 /\ UNCHANGED <<recver, rThread, doneFlag, connVars>>
    BY DEF ReadHeader
  <1>11. CASE avail < 1 + len
    <2>1. TypeInv' /\ ThreadInv'
      BY <1>1, <1>8, <1>10, <1>11 DEF TypeInv, ThreadInv, connVars, sendVars
    <2> QED
      BY <1>1, <1>8, <1>10, <1>11, <2>1, QuietStep DEF connVars
  <1>12. CASE ~(avail < 1 + len)
    <2>1. parsing' = "body" /\ total' = len /\ data' = t /\ buffer' = h
      BY <1>5, <1>7, <1>8, <1>12
    <2>2. TypeInv'
      BY <1>1, <1>6, <1>9, <1>10, <2>1 DEF TypeInv, connVars, sendVars
    <2>3. ThreadInv'
      <3>1. 1 \in 1 .. 1 + total'
        BY <1>9, <2>1, PhaseKnown
      <3>2. Len(buffer') \in 1 .. 1 + total'
        BY <1>6, <2>1, <3>1, Zenon
      <3> QED
        BY <1>1, <1>10, <2>1, <3>2 DEF ThreadInv, connVars
    <2>4. ASSUME StreamInv
          PROVE  StreamInv' /\ BufferInv'
      <3>1. PICK c \in Phase : (~client => c = 0) /\ FlowIn(c) /\ Flows(data, 0, c)
        BY <1>1, <2>4 DEF StreamInv, Taken
      <3>2. PICK p \in Phase : p = 0 /\ p + one <= BodyLen + 1 /\ p + one # BodyLen + 1
        BY <1>4, PhaseKnown
      <3>3. /\ \A i \in 1 .. one : data[i] = IF p + i = 1 THEN "h" ELSE "b"
            /\ Flows(After(data, one), IF p + one = BodyLen + 1 THEN 0 ELSE p + one, c)
        BY <1>2, <1>4, <3>1, <3>2, FlowsOn
      <3>4. data[1] = "h" /\ Flows(t, 1, c)
        BY <1>4, <1>5, <3>2, <3>3
      <3>5. FlowIn(c)' /\ Taken' = 1
        BY <1>6, <1>10, <2>1, <3>1, FlowStays DEF Taken, connVars
      <3>6. StreamInv'
        BY <1>10, <2>1, <3>1, <3>4, <3>5 DEF StreamInv, connVars
      <3>7. BufferInv'
        <4>1. total' = BodyLen /\ Len(buffer') <= BodyLen
          BY <1>6, <1>9, <2>1, <3>4, PhaseKnown
        <4>2. Len(buffer') = 1 /\ buffer'[1] = "h"
          BY <1>6, <2>1, <3>4
        <4>3. \A i \in 1 .. Len(buffer') : buffer'[i] = IF i = 1 THEN "h" ELSE "b"
          BY <4>2
        <4> QED
          BY <2>1, <4>1, <4>3 DEF BufferInv
      <3> QED
        BY <3>6, <3>7
    <2> QED
      BY <1>10, <2>2, <2>3, <2>4, ReceiverStep DEF connVars
  <1> QED
    BY <1>11, <1>12

LEMMA LesserOf ==
    ASSUME NEW a \in Nat, NEW b \in Nat
    PROVE  Min({a, b}) = IF a <= b THEN a ELSE b
  BY DEF Min

\* ... and then what there is of the body, but no more than is missing.
LEMMA ReadBodyKeeps ==
    ASSUME VInv, UNCHANGED sendVars, ReadBody
    PROVE  VInv'
  <1>1. TypeInv /\ ThreadInv /\ parsing = "body" /\ recver = "on"
    BY DEF VInv, ThreadInv, ReadBody
  <1>2. PICK l, k \in Nat : l = Len(data) /\ k = Len(buffer) /\ data \in Seq(Unit) /\ buffer \in Seq(Unit)
    BY <1>1, LenProperties DEF TypeInv
  <1>3. 1 <= k /\ k <= 1 + total /\ total \in Nat /\ total <= BodyLen
    BY <1>1, <1>2, PhaseKnown DEF TypeInv, ThreadInv
  <1>4. PICK m \in Nat : m = 1 + total - k
    BY <1>2, <1>3
  <1>5. PICK n \in Nat : n = Min({m, l}) /\ n <= m /\ n <= l
    BY <1>2, <1>4, LesserOf
  <1>6. PICK u, a : u = Upto(data, n) /\ a = After(data, n)
    OBVIOUS
  <1>7. /\ u \in Seq(Unit) /\ Len(u) = n /\ a \in Seq(Unit)
        /\ \A i \in 1 .. n : u[i] = data[i]
    <2>1. n <= Len(data) /\ data \in Seq(Unit)
      BY <1>2, <1>5
    <2>2. /\ Upto(data, n) \in Seq(Unit) /\ Len(Upto(data, n)) = n
          /\ \A i \in 1 .. n : Upto(data, n)[i] = data[i]
          /\ After(data, n) \in Seq(Unit)
      BY <2>1, Parts
    <2> QED
      BY <1>6, <2>2
  <1>8. PICK b : b = buffer \o u
    OBVIOUS
  <1>9. /\ b \in Seq(Unit) /\ Len(b) = k + n
        /\ \A i \in 1 .. k + n : b[i] = IF i <= k THEN buffer[i] ELSE u[i - k]
    BY <1>2, <1>7, <1>8, ConcatProperties
  <1>10. /\ buffer' = b /\ data' = a
         /\ parsing' = IF n = m THEN "idle" ELSE "body"
         /\ total' = IF n = m THEN 0 ELSE total
         /\ UNCHANGED <<recver, rThread, doneFlag, avail, connVars>>
    BY <1>2, <1>4, <1>5, <1>6, <1>8 DEF ReadBody
  <1>11. TypeInv'
    BY <1>1, <1>3, <1>7, <1>9, <1>10, PhaseKnown DEF TypeInv, connVars, sendVars
  <1>12. ThreadInv'
    <2>1. parsing' = "body" => Len(buffer') \in 1 .. 1 + total'
      BY <1>2, <1>3, <1>4, <1>5, <1>9, <1>10
    <2> QED
      BY <1>1, <1>10, <2>1 DEF ThreadInv, connVars
  <1>13. ASSUME StreamInv, BufferInv
         PROVE  StreamInv' /\ BufferInv'
    <2>1. PICK c \in Phase : (~client => c = 0) /\ FlowIn(c) /\ Flows(data, k, c)
      BY <1>1, <1>2, <1>13 DEF StreamInv, Taken
    <2>2. total = BodyLen /\ k <= BodyLen /\ \A i \in 1 .. k : buffer[i] = IF i = 1 THEN "h" ELSE "b"
      BY <1>1, <1>2, <1>13 DEF BufferInv
    <2>3. k \in Phase /\ k + n <= BodyLen + 1
      BY <1>2, <1>4, <1>5, <2>2, PhaseKnown DEF Phase
    <2>4. /\ \A i \in 1 .. n : data[i] = IF k + i = 1 THEN "h" ELSE "b"
          /\ Flows(a, IF k + n = BodyLen + 1 THEN 0 ELSE k + n, c)
      BY <1>2, <1>5, <1>6, <2>1, <2>3, FlowsOn
    <2>5. n = m <=> k + n = BodyLen + 1
      BY <1>2, <1>4, <1>5, <2>2, PhaseKnown
    <2>6. ASSUME NEW i \in 1 .. k + n
          PROVE  b[i] = IF i = 1 THEN "h" ELSE "b"
      <3>1. CASE i <= k
        BY <1>9, <2>2, <3>1
      <3>2. CASE ~(i <= k)
        <4>1. i - k \in 1 .. n /\ k + (i - k) = i /\ i # 1
          BY <1>3, <3>2
        <4> QED
          BY <1>7, <1>9, <2>4, <3>2, <4>1
      <3> QED
        BY <3>1, <3>2
    <2>7. FlowIn(c)'
      BY <1>10, <2>1, FlowStays DEF connVars
    <2>8. Taken' = IF k + n = BodyLen + 1 THEN 0 ELSE k + n
      BY <1>9, <1>10, <2>5 DEF Taken
    <2>9. StreamInv'
      BY <1>10, <2>1, <2>4, <2>7, <2>8 DEF StreamInv, connVars
    <2>10. BufferInv'
      <3>1. Len(buffer') = k + n
        BY <1>9, <1>10
      <3>2. \A i \in 1 .. Len(buffer') : buffer'[i] = IF i = 1 THEN "h" ELSE "b"
        BY <1>10, <2>6, <3>1
      <3>3. CASE n = m
        <4>1. parsing' = "idle" /\ Len(buffer') = 1 + BodyLen
          BY <1>10, <2>5, <3>1, <3>3, PhaseKnown
        <4> QED
          BY <3>2, <4>1 DEF BufferInv
      <3>4. CASE n # m
        <4>1. parsing' = "body" /\ Len(buffer') <= BodyLen /\ total' = BodyLen
          BY <1>10, <2>2, <2>3, <2>5, <3>1, <3>4, PhaseKnown
        <4> QED
          BY <3>2, <4>1 DEF BufferInv
      <3> QED
        BY <3>3, <3>4
    <2> QED
      BY <2>9, <2>10
  <1> QED
    BY <1>10, <1>11, <1>12, <1>13, ReceiverStep DEF connVars

\* What the client's connection delivers goes to the end of m_Data.
LEMMA InternalRecvKeeps ==
    ASSUME VInv, UNCHANGED sendVars, InternalRecv
    PROVE  VInv'
  <1>1. TypeInv /\ ThreadInv /\ client
    BY DEF VInv, InternalRecv
  <1>2. PICK k, l \in Nat : k = Len(conns) /\ 1 <= k /\ l = Len(data)
    BY <1>1, LenProperties, EmptySeq DEF TypeInv, ThreadInv
  <1>3. conns \in Seq(Wire) /\ 1 \in 1 .. Len(conns) /\ DOMAIN conns = 1 .. k
    BY <1>1, <1>2, LenProperties DEF TypeInv
  <1>4. PICK d \in Wire : d = conns[1] /\ d.data \in Seq(Unit)
    BY <1>3, WireKnown
  <1>5. PICK n \in 1 .. Len(d.data) :
          /\ conns' = [conns EXCEPT ![1].data = After(@, n)]
          /\ IF recver = "on" THEN data' = data \o Upto(d.data, n) ELSE UNCHANGED data
    BY <1>4 DEF InternalRecv
  <1>6. n \in Nat /\ n <= Len(d.data)
    BY <1>4, LenProperties
  <1>7. PICK u, a : u = Upto(d.data, n) /\ a = After(d.data, n)
    OBVIOUS
  <1>8. u \in Seq(Unit) /\ a \in Seq(Unit)
    BY <1>4, <1>6, <1>7, Parts
  <1>9. PICK w : w = [data |-> a, ended |-> d.ended]
    OBVIOUS
  <1>10. w \in Wire /\ w.data = a /\ w.ended = d.ended
    BY <1>8, <1>9 DEF Wire
  <1>11. conns' = [conns EXCEPT ![1] = w]
    <2>1. conns' = [conns EXCEPT ![1] = [d EXCEPT !.data = a]]
      BY <1>4, <1>5, <1>7
    <2>2. [d EXCEPT !.data = a] = [data |-> a, ended |-> d.ended]
      BY DEF Wire
    <2> QED
      BY <1>9, <2>1, <2>2
  <1>12. conns' \in Seq(Wire) /\ Len(conns') = k /\ \A i \in 1 .. k : conns'[i] = IF i = 1 THEN w ELSE conns[i]
    BY <1>2, <1>3, <1>10, <1>11, ExceptSeq
  <1>13. DOMAIN conns' = 1 .. k /\ conns' # <<>>
    BY <1>2, <1>12, LenProperties, EmptySeq
  <1>14. UNCHANGED <<recver, rThread, doneFlag, parseVars, linked, listening, client, torn>>
    BY DEF InternalRecv
  <1>15. PICK o : o = data \o u
    OBVIOUS
  <1>16. o \in Seq(Unit) /\ Len(o) = l + Len(u) /\ Len(u) \in Nat
    BY <1>1, <1>2, <1>8, <1>15, ConcatProperties, LenProperties DEF TypeInv
  <1>17. IF recver = "on" THEN data' = o ELSE data' = data
    BY <1>5, <1>7, <1>15
  <1>18. TypeInv'
    BY <1>1, <1>12, <1>14, <1>16, <1>17 DEF TypeInv, parseVars, sendVars
  <1>19. ThreadInv'
    <2>1. linked => ~conns'[Len(conns')].ended
      BY <1>1, <1>2, <1>4, <1>10, <1>12 DEF ThreadInv
    <2>2. Len(data') \in Nat /\ Len(data') >= l
      BY <1>2, <1>16, <1>17
    <2> QED
      BY <1>1, <1>2, <1>13, <1>14, <2>1, <2>2 DEF ThreadInv, TypeInv, parseVars
  <1>20. ASSUME StreamInv, BufferInv
         PROVE  StreamInv' /\ BufferInv'
    <2>1. PICK c \in Phase : FlowIn(c) /\ (recver = "on" => Flows(data, Taken, c))
      BY <1>20 DEF StreamInv
    <2>2. Flows(d.data, c, 0)
      BY <1>2, <1>3, <1>4, <2>1 DEF FlowIn
    <2>3. PICK r \in Phase : Flows(u, c, r) /\ Flows(a, r, 0)
      BY <1>4, <1>6, <1>7, <2>2, PhaseKnown, FlowsApart
    <2>4. ASSUME NEW i \in 1 .. k
          PROVE  Flows(conns'[i].data, IF i = 1 THEN r ELSE 0, 0)
      BY <1>3, <1>10, <1>12, <2>1, <2>3 DEF FlowIn
    <2>5. FlowIn(r)'
      BY <1>13, <2>4 DEF FlowIn
    <2>6. Taken' = Taken
      BY <1>14 DEF Taken, parseVars
    <2>7. ASSUME recver = "on"
          PROVE  Flows(data', Taken', r)
      <3>1. Taken \in Phase
        <4>1. Len(buffer) \in Nat /\ (parsing = "body" => Len(buffer) <= BodyLen)
          BY <1>1, <1>20, LenProperties DEF TypeInv, BufferInv
        <4> QED
          BY <4>1, PhaseKnown DEF Taken, Phase
      <3>2. data \in Seq(Unit) /\ Flows(data, Taken, c)
        BY <1>1, <2>1, <2>7 DEF TypeInv
      <3>3. Flows(o, Taken, r)
        BY <1>8, <1>15, <2>3, <3>1, <3>2, FlowsTogether
      <3> QED
        BY <1>17, <2>6, <2>7, <3>3
    <2>8. StreamInv'
      BY <1>1, <1>14, <2>5, <2>7 DEF StreamInv
    <2>9. BufferInv'
      BY <1>14, <1>20 DEF BufferInv, parseVars
    <2> QED
      BY <2>8, <2>9
  <1> QED
    BY <1>14, <1>18, <1>19, <1>20, ReceiverStep

\* A client whose units are all there leaves between two messages.
LEMMA ClientGoneKeeps ==
    ASSUME VInv, UNCHANGED sendVars, ClientGone
    PROVE  VInv'
  <1>1. TypeInv /\ ThreadInv /\ client
    BY DEF VInv, ClientGone
  <1>2. PICK k \in Nat : k = Len(conns) /\ 1 <= k
    BY <1>1, LenProperties, EmptySeq DEF TypeInv, ThreadInv
  <1>3. conns \in Seq(Wire) /\ conns # <<>> /\ DOMAIN conns = 1 .. k
    BY <1>1, <1>2, LenProperties DEF TypeInv, ThreadInv
  <1>4. /\ conns[1].data = <<>> /\ conns[1].ended /\ conns' = Tail(conns) /\ client' = FALSE
        /\ UNCHANGED <<recver, rThread, doneFlag, data, parseVars, linked, listening, torn>>
    BY DEF ClientGone
  <1>5. /\ conns' \in Seq(Wire) /\ Len(conns') = k - 1
        /\ \A i \in 1 .. k - 1 : conns'[i] = conns[i + 1]
    BY <1>2, <1>3, <1>4, HeadTailProperties
  <1>6. DOMAIN conns' = 1 .. k - 1
    BY <1>5, LenProperties
  <1>7. TypeInv'
    BY <1>1, <1>4, <1>5 DEF TypeInv, parseVars, sendVars
  <1>8. ThreadInv'
    <2>1. ASSUME linked
          PROVE  conns' # <<>> /\ ~conns'[Len(conns')].ended
      <3>1. ~conns[k].ended /\ k # 1
        BY <1>1, <1>2, <1>4, <2>1 DEF ThreadInv
      <3>2. k - 1 \in 1 .. k - 1 /\ (k - 1) + 1 = k
        BY <1>2, <3>1
      <3>3. conns'[k - 1] = conns[k]
        BY <1>5, <3>2
      <3> QED
        BY <1>5, <3>1, <3>2, <3>3, EmptySeq
    <2> QED
      BY <1>1, <1>4, <2>1 DEF ThreadInv, parseVars
  <1>9. ASSUME StreamInv, BufferInv
        PROVE  StreamInv' /\ BufferInv'
    <2>1. PICK c \in Phase : FlowIn(c) /\ (recver = "on" => Flows(data, Taken, c))
      BY <1>9 DEF StreamInv
    <2>2. Flows(conns[1].data, c, 0) /\ conns[1].data \in Seq(Unit) /\ Len(conns[1].data) = 0
      BY <1>2, <1>3, <1>4, <2>1, EmptySeq DEF FlowIn
    <2>3. c = 0
      BY <2>2, FlowsEmpty, PhaseKnown
    <2>4. ASSUME NEW i \in 1 .. k - 1
          PROVE  Flows(conns'[i].data, IF i = 1 THEN c ELSE 0, 0)
      <3>1. i + 1 \in 1 .. k /\ i + 1 # 1 /\ conns'[i] = conns[i + 1]
        BY <1>2, <1>5
      <3> QED
        BY <1>3, <2>1, <2>3, <3>1 DEF FlowIn
    <2>5. FlowIn(c)'
      BY <1>6, <2>4 DEF FlowIn
    <2>6. Taken' = Taken
      BY <1>4 DEF Taken, parseVars
    <2>7. StreamInv'
      BY <1>4, <2>1, <2>3, <2>5, <2>6 DEF StreamInv
    <2>8. BufferInv'
      BY <1>4, <1>9 DEF BufferInv, parseVars
    <2> QED
      BY <2>7, <2>8
  <1> QED
    BY <1>4, <1>7, <1>8, <1>9, ReceiverStep

-----------------------------------------------------------------------------
\* Every step keeps the phases of the streams: units go from the queue to the sender's
\* hands, to a connection, to m_Data and to the buffer in the order of the messages,
\* and what is lost on the way is whole messages as long as nothing was torn.
THEOREM StreamInvariance == Spec => []VInv
  <1>1. Init => VInv
    <2> SUFFICES ASSUME Init
                 PROVE  VInv
      OBVIOUS
    <2>1. <<>> \in Seq(Unit) /\ <<>> \in Seq(Wire) /\ Flows(<<>>, 0, 0) /\ Len(<<>>) = 0 /\ 0 \in Phase
      BY FlowsEmpty, PhaseKnown, EmptySeq
    <2>2. TypeInv
      <3>1. conns \in Seq(Wire) /\ queue \in Seq(Unit) /\ sendBuf \in Seq(Unit)
        BY <2>1 DEF Init, ConnInit, SendInit
      <3>2. data \in Seq(Unit) /\ buffer \in Seq(Unit) /\ avail \in Nat /\ total \in 0 .. BodyLen
        BY <2>1, PhaseKnown DEF Init, RecvInit
      <3> QED
        BY <3>1, <3>2 DEF Init, ConnInit, RecvInit, TypeInv
    <2>3. ThreadInv /\ SentInv
      BY <2>1 DEF Init, ConnInit, SendInit, RecvInit, ThreadInv, SentInv
    <2>4. FlowIn(0)
      BY <2>1, EmptySeq DEF Init, ConnInit, FlowIn
    <2>5. StreamInv
      BY <2>1, <2>4 DEF Init, RecvInit, StreamInv
    <2>6. BufferInv
      BY <2>1 DEF Init, RecvInit, BufferInv
    <2> QED
      BY <2>2, <2>3, <2>5, <2>6 DEF VInv
  <1>2. ASSUME VInv, [Next]_vars
        PROVE  VInv'
    <2>1. CASE UNCHANGED vars
      BY <1>2, <2>1, FlowStays, PhaseKnown, SenderStep
        DEF VInv, TypeInv, ThreadInv, SentInv, vars, connVars, sendVars
    <2>2. CASE SendNext /\ UNCHANGED recvVars
      BY <1>2, <2>2, SendKeeps
    <2>3. CASE RecvNext /\ UNCHANGED sendVars
      BY <1>2, <2>3, QuietKeeps, RecvEnableKeeps, RecvCloseKeeps, ReadHeaderKeeps, ReadBodyKeeps,
         InternalRecvKeeps, ClientGoneKeeps
        DEF RecvNext, RecvThread
    <2>4. CASE Break /\ UNCHANGED <<sendVars, recvVars>>
      BY <1>2, <2>4, BreakKeeps
    <2> QED
      BY <1>2, <2>1, <2>2, <2>3, <2>4 DEF Next
  <1> QED
    BY <1>1, <1>2, PTL DEF Spec

\* RecvFrame's buffer holds exactly one message, header and body, whenever it is done
\* with one: for messages of any length, queues and windows of any size, any number of
\* connections, and threads that interleave in any way, unless a connection has ended
\* within a message.
THEOREM MessagesStayWhole == Spec => []WholeUnlessTorn
  <1>1. VInv => WholeUnlessTorn
    <2> SUFFICES ASSUME VInv, ~torn, parsing = "idle", buffer # <<>>
                 PROVE  buffer = Message
      BY DEF WholeUnlessTorn, MessagesAreWhole
    <2>1. /\ buffer \in Seq(Unit) /\ Len(buffer) = BodyLen + 1
          /\ \A i \in 1 .. Len(buffer) : buffer[i] = IF i = 1 THEN "h" ELSE "b"
      BY PhaseKnown DEF VInv, TypeInv, BufferInv
    <2> QED
      BY <2>1, MessageKnown, SeqEqual
  <1> QED
    BY <1>1, StreamInvariance, PTL

-----------------------------------------------------------------------------
(***************************************************************************)
(* Hot-pluggable bot actions.                                              *)
(***************************************************************************)

\* The invariant is inductive as it stands, given the types.
BotInv == BotTypeOK /\ EntriesFollowBots

\* Deleting the behaviors of some bots, with the detours that are on, takes their
\* entries away or leaves orphans.
LEMMA DeleteKeeps ==
    ASSUME BotInv, NEW bots \in SUBSET Bot, Delete(bots, on), on' \subseteq Mod, loaded' \in BOOLEAN
    PROVE  BotInv'
  <1> DEFINE dead == {idle[b] : b \in bots}
  <1>1. BotTypeOK'
    BY BotAssumption DEF BotInv, BotTypeOK, Delete
  <1>2. ASSUME NEW a \in Addr, build'[a] # NULL, a \notin orphans'
        PROVE  idle'[build'[a]] = a
    <2>1. build'[a] = build[a] /\ ~(a \in dead /\ "dispensers" \in on)
      BY <1>2 DEF BotInv, BotTypeOK, Delete
    <2>2. a \notin orphans /\ a \notin dead
      BY <1>2, <2>1 DEF BotInv, BotTypeOK, Delete
    <2>3. idle[build[a]] = a /\ build[a] \in Bot
      BY <1>2, <2>1, <2>2 DEF BotInv, BotTypeOK, EntriesFollowBots
    <2>4. build[a] \notin bots
      BY <2>2, <2>3
    <2> QED
      BY <2>1, <2>3, <2>4 DEF Delete
  <1> QED
    BY <1>1, <1>2 DEF BotInv, EntriesFollowBots

\* An update only makes an entry for the bot's own idle action.
LEMMA UpdateKeeps ==
    ASSUME BotInv, NEW b \in Bot, UpdateIdle(b)
    PROVE  BotInv'
  <1> DEFINE a == idle[b]
  <1>0. a \in Addr
    BY BotAssumption DEF BotInv, BotTypeOK, UpdateIdle
  <1>1. ASSUME NEW kept \in [Addr -> Bot \cup {NULL}], InnerUpdate(b, kept)
        PROVE  /\ top' \in [Bot -> {"idle", "game", "pending", "mod"}]
               /\ build' \in [Addr -> Bot \cup {NULL}]
               /\ \A x \in Addr : build'[x] = kept[x] \/ (x = a /\ build'[x] = b)
    BY <1>0, <1>1 DEF InnerUpdate, BotInv, BotTypeOK
  <1>2. CASE UNCHANGED <<build, orphans>> /\ top' = [top EXCEPT ![b] = "mod"]
    BY <1>2 DEF UpdateIdle, BotInv, BotTypeOK, EntriesFollowBots
  <1>3. CASE InnerUpdate(b, [build EXCEPT ![a] = NULL]) /\ orphans' = orphans \ {a}
    <2>1. [build EXCEPT ![a] = NULL] \in [Addr -> Bot \cup {NULL}]
      BY <1>0 DEF BotInv, BotTypeOK
    <2>2. BotTypeOK'
      BY <1>1, <1>3, <2>1 DEF BotInv, BotTypeOK, UpdateIdle
    <2>3. \A x \in Addr : build'[x] = (IF x = a THEN NULL ELSE build[x]) \/ (x = a /\ build'[x] = b)
      BY <1>0, <1>1, <1>3, <2>1 DEF BotInv, BotTypeOK
    <2> QED
      BY <1>3, <2>2, <2>3 DEF BotInv, EntriesFollowBots, UpdateIdle
  <1>4. CASE InnerUpdate(b, build) /\ UNCHANGED orphans
    <2>1. build \in [Addr -> Bot \cup {NULL}]
      BY DEF BotInv, BotTypeOK
    <2>2. BotTypeOK'
      BY <1>1, <1>4, <2>1 DEF BotInv, BotTypeOK, UpdateIdle
    <2> QED
      BY <1>1, <1>4, <2>1, <2>2 DEF BotInv, EntriesFollowBots, UpdateIdle
  <1> QED
    BY <1>2, <1>3, <1>4 DEF UpdateIdle

\* An entry of build_actions is for the idle action that its bot has now, whatever
\* bots come and go and however their idle actions share addresses in time, unless
\* the mod was disabled when that idle action was deleted.
THEOREM EntriesFollow == BotSpec => []EntriesFollowBots
  <1>1. BotInit => BotInv
    BY BotAssumption DEF BotInit, BotInv, BotTypeOK, EntriesFollowBots
  <1>2. BotInv /\ [BotNext]_botVars => BotInv'
    <2> SUFFICES ASSUME BotInv, [BotNext]_botVars PROVE BotInv'
      OBVIOUS
    <2>1. ASSUME NEW b \in Bot, Spawn(b) PROVE BotInv'
      BY <2>1, BotAssumption DEF Spawn, BotInv, BotTypeOK, EntriesFollowBots
    <2>2. ASSUME NEW b \in Bot, Die(b) PROVE BotInv'
      BY <2>2, DeleteKeeps DEF Die, BotInv, BotTypeOK
    <2>3. ASSUME NEW b \in Bot, UpdateIdle(b) PROVE BotInv'
      BY <2>3, UpdateKeeps
    <2>4. ASSUME NEW b \in Bot, Command(b) \/ Start(b) \/ Done(b) PROVE BotInv'
      BY <2>4 DEF Command, Start, Done, BotInv, BotTypeOK, EntriesFollowBots
    <2>5. ASSUME NEW m \in Mod, ToggleMod(m) PROVE BotInv'
      BY <2>5 DEF ToggleMod, BotInv, BotTypeOK, EntriesFollowBots
    <2>6. CASE UnloadExtension
      <3>1. Actors \in SUBSET Bot
        BY DEF Actors
      <3> QED
        BY <2>6, <3>1, DeleteKeeps DEF UnloadExtension
    <2>7. CASE UNCHANGED botVars
      BY <2>7 DEF botVars, BotInv, BotTypeOK, EntriesFollowBots
    <2> QED
      BY <2>1, <2>2, <2>3, <2>4, <2>5, <2>6, <2>7 DEF BotNext
  <1>3. BotInv => EntriesFollowBots
    BY DEF BotInv
  <1> QED
    BY <1>1, <1>2, <1>3, PTL DEF BotSpec
=============================================================================
