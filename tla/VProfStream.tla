------------------------------ MODULE VProfStream ------------------------------
(***************************************************************************)
(* VProf_Send of a server and VProf_Recv of a client (src/mod/util):       *)
(* FirehoseSend and FirehoseRecv with a connection between them.  There    *)
(* are four threads, the main thread and the thread of the firehose on     *)
(* each side.                                                              *)
(***************************************************************************)
EXTENDS FirehoseSend, FirehoseRecv

CONSTANT
    Breaks      \* TRUE if the network may fail

vars == <<connVars, sendVars, recvVars>>

Init == ConnInit /\ SendInit /\ RecvInit

SendNext ==
    \/ SendEnable \/ SendFrame
    \/ SendClose \/ SetDone \/ NotifyDone \/ SendJoin
    \/ SendThread \/ SpuriousWakeup

RecvNext ==
    \/ RecvEnable \/ CountAvailable \/ ReadHeader \/ ReadBody
    \/ RecvClose \/ ClearFlag \/ RecvJoin
    \/ RecvThread

Next ==
    \/ SendNext /\ UNCHANGED recvVars
    \/ RecvNext /\ UNCHANGED sendVars
    \/ Breaks /\ Break /\ UNCHANGED <<sendVars, recvVars>>

\* The threads run, frames go on while a mod is on, and a destructor that was begun goes
\* on.  Nothing is said of ConVars, the network, or wake-ups without a notification.
Fairness ==
    /\ WF_vars(SendThread /\ UNCHANGED recvVars)
    /\ WF_vars(SendFrame /\ UNCHANGED recvVars)
    /\ WF_vars((SetDone \/ NotifyDone \/ SendJoin) /\ UNCHANGED recvVars)
    /\ WF_vars(RecvThread /\ UNCHANGED sendVars)
    /\ WF_vars((CountAvailable \/ ReadHeader \/ ReadBody) /\ UNCHANGED sendVars)
    /\ WF_vars((ClearFlag \/ RecvJoin) /\ UNCHANGED sendVars)

Spec == Init /\ [][Next]_vars /\ Fairness

-----------------------------------------------------------------------------
(***************************************************************************)
(* Properties.                                                             *)
(***************************************************************************)

\* "we should have a buffer whose size is exactly right and whose contents are guaranteed
\* to consist of an entire frame message".
MessagesAreWhole == parsing = "idle" /\ buffer # <<>> => buffer = Message

\* ... which holds as long as no connection has ended within a message: whatever is
\* dropped when a connection cannot be made, and however the threads interleave.
WholeUnlessTorn == ~torn => MessagesAreWhole

\* While the mod is on, the thread takes every message over in the end, though a
\* notification that comes when it does not wait is lost.
QueueIsTaken == queue # <<>> /\ sender = "on" ~> queue = <<>> \/ sender # "on"

\* The server does not wait for the thread for ever, if the thread waits for a
\* notification when m_bDone is set.
JoinAfterWait == sender = "told" /\ sThread = "waiting" ~> sender = "off"

\* "[Main] thread joined": switching the mod off comes to its end.
SendJoinReturns == sender = "join" ~> sender = "off"

\* Switching VProf_Recv off comes to its end, unless a sender stays connected.
RecvJoinReturns == []<>(recver # "join" \/ linked)
=============================================================================
