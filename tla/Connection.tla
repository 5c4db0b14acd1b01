------------------------------ MODULE Connection ------------------------------
(***************************************************************************)
(* The TCP connections between a FirehoseSend and a FirehoseRecv           *)
(* (src/util/firehose_*.cpp) and the messages that go through them.  A     *)
(* message of VProf_Send is a header with its length and then its body     *)
(* (src/mod/util/vprof_send.cpp); the units sent are "h", the header, and  *)
(* "b", a part of a body.                                                  *)
(***************************************************************************)
EXTENDS Integers, SequencesExt

CONSTANTS
    BodyLen,    \* units in the body of a message
    MaxWire,    \* bound on the units in flight on a connection, its window
    MaxConns    \* bound on the connections, one in use and others in the backlog

ASSUME Lengths == BodyLen \in Nat \ {0} /\ MaxWire \in Nat /\ MaxConns \in Nat \ {0}

Unit    == {"h", "b"}
Message == <<"h">> \o [k \in 1 .. BodyLen |-> "b"]

VARIABLES
    conns,      \* connections that the receiver has not finished with, oldest first:
                \* what is in flight, and whether the other end has closed it
    linked,     \* the sender's socket is connected, to the last of them
    listening,  \* the receiver's socket accepts connections
    client,     \* m_Client: the first connection has been accepted
    torn        \* some message has been lost in part

connVars == <<conns, linked, listening, client, torn>>

ConnInit ==
    /\ conns = <<>> /\ linked = FALSE
    /\ listening = FALSE /\ client = FALSE
    /\ torn = FALSE

\* Losing the units s, which come after others that were sent, loses a part of a message.
Tears(s) == s # <<>> /\ Head(s) = "b"

\* The first n of the units s, and the others.
Upto(s, n)  == SubSeq(s, 1, n)
After(s, n) == SubSeq(s, n + 1, Len(s))

\* The sender's end is closed, or the connection breaks: what is in flight arrives in
\* part (SO_LINGER with no time to linger).
Hangup ==
    /\ linked' = FALSE
    /\ IF linked
       THEN LET sent == conns[Len(conns)].data IN
            \E n \in 0 .. Len(sent) :
              /\ conns' = [conns EXCEPT ![Len(conns)] =
                             [data |-> Upto(sent, n), ended |-> TRUE]]
              /\ torn' = (torn \/ Tears(After(sent, n)))
       ELSE UNCHANGED <<conns, torn>>

\* connect(), and send() of the units s of which n get through.
Transmit(s, n) ==
    LET dialed == IF linked THEN conns ELSE Append(conns, [data |-> <<>>, ended |-> FALSE])
        last   == Len(dialed)
    IN  /\ linked \/ (listening /\ last <= MaxConns)
        /\ Len(dialed[last].data) + n <= MaxWire
        /\ linked' = TRUE
        /\ conns' = [dialed EXCEPT ![last].data = @ \o Upto(s, n)]
        /\ torn' = (torn \/ Tears(After(s, n)))

\* The network fails.
Break == linked /\ Hangup /\ UNCHANGED <<listening, client>>

=============================================================================
