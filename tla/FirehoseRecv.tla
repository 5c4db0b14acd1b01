----------------------------- MODULE FirehoseRecv -----------------------------
(***************************************************************************)
(* FirehoseRecv (src/util/firehose_recv.cpp) as VProf_Recv uses it: a      *)
(* thread accepts one client at a time and puts what it receives in        *)
(* m_Data; every frame RecvFrame takes at most one message out of it.      *)
(* Switching the mod off destroys the object: the listening socket is      *)
(* closed, the thread is told to end, and the program waits for it.        *)
(***************************************************************************)
EXTENDS Connection

CONSTANT
    MaxReceived     \* bound on the units in m_Data

ASSUME Received == MaxReceived \in Nat

VARIABLES
    recver,     \* the program: "off", "on", or in the destructor: "closed", "join"
    rThread,    \* where ThreadLoop is
    doneFlag,   \* m_DoneFlag; the thread is to end when it is clear
    data,       \* m_Data
    parsing,    \* where RecvFrame is: "idle", "header" or "body"
    avail,      \* its local variables avail
    total,      \* ... and total
    buffer      \* the message it has put together last, the header included

parseVars == <<parsing, avail, total, buffer>>
recvVars  == <<recver, rThread, doneFlag, data, parseVars>>

RecvInit ==
    /\ recver = "off" /\ rThread = "none"
    /\ doneFlag = FALSE /\ data = <<>>
    /\ parsing = "idle" /\ avail = 0 /\ total = 0 /\ buffer = <<>>

-----------------------------------------------------------------------------
(***************************************************************************)
(* The main thread.                                                        *)
(***************************************************************************)

\* OnEnable: the socket is opened and bound; there is a thread only if that succeeds.
RecvEnable ==
    /\ recver = "off"
    /\ recver' = "on" /\ data' = <<>> /\ buffer' = <<>>
    /\ \/ listening' = TRUE /\ doneFlag' = TRUE /\ rThread' = "begin"
       \/ UNCHANGED <<listening, doneFlag, rThread>>
    /\ UNCHANGED <<conns, linked, client, torn, parsing, avail, total>>

\* OnDisable: ~FirehoseRecv closes the socket; connections not accepted are reset.
RecvClose ==
    /\ recver = "on" /\ parsing = "idle"
    /\ recver' = "closed" /\ listening' = FALSE
    /\ conns' = IF client THEN Upto(conns, 1) ELSE <<>>
    /\ linked' = (linked /\ client /\ Len(conns) = 1)
    /\ UNCHANGED <<client, torn, rThread, doneFlag, data, parseVars>>

\* ... JoinThread clears the flag, if there is a thread,
ClearFlag ==
    /\ recver = "closed"
    /\ recver' = IF rThread = "none" THEN "off" ELSE "join"
    /\ doneFlag' = FALSE
    /\ UNCHANGED <<rThread, data, parseVars, connVars>>

\* ... and waits for its end.
RecvJoin ==
    /\ recver = "join" /\ rThread = "ended"
    /\ recver' = "off" /\ rThread' = "none" /\ data' = <<>>
    /\ UNCHANGED <<doneFlag, parseVars, connVars>>

\* RecvFrame: Available, which must be enough for a header.  The four bytes of the length
\* are one unit, so a part of a header never arrives alone.
CountAvailable ==
    /\ recver = "on" /\ parsing = "idle"
    /\ data # <<>>
    /\ avail' = Len(data) /\ parsing' = "header"
    /\ UNCHANGED <<recver, rThread, doneFlag, data, total, buffer, connVars>>

\* Recv with peek, which reads the length, and Skip when that much was available.  The
\* first unit should be a header; that of a body can be any length.
Lengthy(u) == IF u = "h" THEN {BodyLen} ELSE 0 .. BodyLen
ReadHeaderUnpeeked ==           \* mutant: the header is taken before the test
    /\ parsing = "header"
    /\ avail' = 0
    /\ data' = Tail(data)
    /\ \E len \in Lengthy(Head(data)) :
         IF avail < 1 + len THEN parsing' = "idle" /\ UNCHANGED <<total, buffer>>
         ELSE parsing' = "body" /\ total' = len /\ buffer' = Upto(data, 1)
    /\ UNCHANGED <<recver, rThread, doneFlag, connVars>>
ReadHeader ==
    /\ parsing = "header"
    /\ avail' = 0
    /\ \E len \in Lengthy(Head(data)) :
         IF avail < 1 + len THEN parsing' = "idle" /\ UNCHANGED <<data, total, buffer>>
         ELSE /\ parsing' = "body" /\ total' = len
              /\ data' = Tail(data) /\ buffer' = Upto(data, 1)
    /\ UNCHANGED <<recver, rThread, doneFlag, connVars>>

\* One Recv of the loop that fills the buffer.
ReadBody ==
    /\ parsing = "body"
    /\ LET missing == 1 + total - Len(buffer)
           n == Min({missing, Len(data)})
       IN  /\ buffer' = buffer \o Upto(data, n)
           /\ data' = After(data, n)
           /\ parsing' = IF n = missing THEN "idle" ELSE "body"
           /\ total' = IF n = missing THEN 0 ELSE total
    /\ UNCHANGED <<recver, rThread, doneFlag, avail, connVars>>

-----------------------------------------------------------------------------
(***************************************************************************)
(* ThreadLoop.                                                             *)
(***************************************************************************)

BeginRecv ==
    /\ rThread = "begin"
    /\ rThread' = IF listening THEN "loop" ELSE "ended"
    /\ UNCHANGED <<recver, doneFlag, data, parseVars, connVars>>

\* m_DoneFlag is looked at only without a client.
TestFlag ==
    /\ rThread = "loop" /\ ~client
    /\ rThread' = IF doneFlag THEN "accept" ELSE "ended"
    /\ doneFlag' = TRUE
    /\ UNCHANGED <<recver, data, parseVars, connVars>>

\* InternalAccept: a client, or SO_RCVTIMEO or the closed socket ends accept().
InternalAccept ==
    /\ rThread = "accept"
    /\ rThread' = "loop" /\ client' = (conns # <<>>)
    /\ UNCHANGED <<recver, doneFlag, data, parseVars, conns, linked, listening, torn>>

\* InternalRecv: what has arrived is appended to m_Data (which nobody reads once the
\* destructor runs).
InternalRecv ==
    /\ rThread = "loop" /\ client
    /\ \E n \in 1 .. Len(conns[1].data) :
         /\ conns' = [conns EXCEPT ![1].data = After(@, n)]
         /\ IF recver = "on"
            THEN /\ Len(data) + n <= MaxReceived
                 /\ data' = data \o Upto(conns[1].data, n)
            ELSE UNCHANGED data
    /\ UNCHANGED <<recver, rThread, doneFlag, parseVars, linked, listening, client, torn>>

\* ... or the client has closed the connection.
ClientGoneKept ==               \* mutant: taken for another time limit
    /\ rThread = "loop" /\ client
    /\ conns[1].data = <<>> /\ conns[1].ended
    /\ UNCHANGED <<recvVars, connVars>>
ClientGone ==
    /\ rThread = "loop" /\ client
    /\ conns[1].data = <<>> /\ conns[1].ended
    /\ conns' = Tail(conns) /\ client' = FALSE
    /\ UNCHANGED <<recver, rThread, doneFlag, data, parseVars, linked, listening, torn>>

RecvThread ==
    BeginRecv \/ TestFlag \/ InternalAccept \/ InternalRecv \/ ClientGone

=============================================================================
