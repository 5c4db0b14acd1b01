----------------------------- MODULE FirehoseSend -----------------------------
(***************************************************************************)
(* FirehoseSend (src/util/firehose_send.cpp) as VProf_Send uses it: every  *)
(* frame of the server puts a message in the queue m_Data and notifies the *)
(* thread, which sends what is in the queue.  Switching the mod off        *)
(* destroys the object: the socket is closed, the thread is told to end,   *)
(* and the server waits for it.                                            *)
(*                                                                         *)
(* A wait on the condition variable m_Notify starts when the thread has    *)
(* m_NotifyMutex, so a notification that comes before is lost; a wait may  *)
(* also end without one.                                                   *)
(***************************************************************************)
EXTENDS Connection

CONSTANT
    MaxQueued   \* bound on the messages in m_Data; a message for which there is no
                \* room adds nothing to it, but notifies

ASSUME Queue == MaxQueued \in Nat \ {0}

VARIABLES
    sender,     \* the server: "off", "on", or in the destructor: "closed", "told", "join"
    sThread,    \* where ThreadLoop is
    sSocket,    \* m_Socket is valid
    done,       \* m_bDone
    queue,      \* m_Data
    sendBuf     \* m_SendBuf

sendVars == <<sender, sThread, sSocket, done, queue, sendBuf>>

SendInit ==
    /\ sender = "off" /\ sThread = "none"
    /\ sSocket = FALSE /\ done = FALSE
    /\ queue = <<>> /\ sendBuf = <<>>

\* m_Notify.notify_all().
Notify == sThread' = IF sThread = "waiting" THEN "woken" ELSE sThread

-----------------------------------------------------------------------------
(***************************************************************************)
(* The server's main thread.                                               *)
(***************************************************************************)

\* OnEnable: the socket is opened, which may fail, and the thread created.
SendEnable ==
    /\ sender = "off"
    /\ sender' = "on" /\ sThread' = "begin"
    /\ sSocket' \in BOOLEAN /\ done' = FALSE
    /\ queue' = <<>> /\ sendBuf' = <<>>
    /\ UNCHANGED connVars

\* SendFrame.
SendQuietly ==                  \* mutant: notifies only when the queue was empty
    /\ queue' = IF Len(queue) < MaxQueued * Len(Message) THEN queue \o Message ELSE queue
    /\ IF queue = <<>> THEN Notify ELSE UNCHANGED sThread
Send ==
    /\ queue' = IF Len(queue) < MaxQueued * Len(Message) THEN queue \o Message ELSE queue
    /\ Notify
SendFrame ==
    /\ sender = "on" /\ sSocket
    /\ Send
    /\ UNCHANGED <<sender, sSocket, done, sendBuf, connVars>>

\* OnDisable: ~FirehoseSend closes the socket,
SendClose ==
    /\ sender = "on"
    /\ sender' = "closed" /\ sSocket' = FALSE
    /\ Hangup
    /\ UNCHANGED <<sThread, done, queue, sendBuf, listening, client>>

\* ... JoinThread sets m_bDone under m_NotifyMutex,
SetDone ==
    /\ sender = "closed"
    /\ sender' = "told" /\ done' = TRUE
    /\ UNCHANGED <<sThread, sSocket, queue, sendBuf, connVars>>

\* ... notifies the thread,
NotifyDoneNot ==               \* mutant: no notification
    /\ sender = "told" /\ sender' = "join"
    /\ UNCHANGED <<sThread, sSocket, done, queue, sendBuf, connVars>>
NotifyDone ==
    /\ sender = "told" /\ sender' = "join"
    /\ Notify
    /\ UNCHANGED <<sSocket, done, queue, sendBuf, connVars>>

\* ... and waits for its end.
SendJoin ==
    /\ sender = "join" /\ sThread = "ended"
    /\ sender' = "off" /\ sThread' = "none" /\ queue' = <<>>
    /\ UNCHANGED <<sSocket, done, sendBuf, connVars>>

-----------------------------------------------------------------------------
(***************************************************************************)
(* ThreadLoop.                                                             *)
(***************************************************************************)

Step(from, to) == sThread = from /\ sThread' = to

BeginLoop ==
    /\ Step("begin", IF sSocket THEN "idle" ELSE "ended")
    /\ UNCHANGED <<sender, sSocket, done, queue, sendBuf, connVars>>

\* m_NotifyMutex is taken, and given up in the wait.
Wait ==
    /\ Step("idle", "waiting")
    /\ UNCHANGED <<sender, sSocket, done, queue, sendBuf, connVars>>

SpuriousWakeup ==
    /\ Step("waiting", "woken")
    /\ UNCHANGED <<sender, sSocket, done, queue, sendBuf, connVars>>

ReadDone ==
    /\ Step("woken", IF done THEN "ended" ELSE "work")
    /\ UNCHANGED <<sender, sSocket, done, queue, sendBuf, connVars>>

\* Under m_DataMutex: all of m_Data is moved to m_SendBuf.
TakeQueue ==
    /\ Step("work", IF queue = <<>> THEN "idle" ELSE "send")
    /\ sendBuf' = queue /\ queue' = <<>>
    /\ UNCHANGED <<sender, sSocket, done, connVars>>

\* InternalSend: connect, and send m_SendBuf.  All of it is sent, a part, or nothing, as
\* when the socket was closed meanwhile; what was not sent is lost.
InternalSend ==
    /\ Step("send", "work")
    /\ sendBuf' = <<>>
    /\ \/ UNCHANGED <<conns, linked, torn>>
       \/ sSocket /\ \E n \in 0 .. Len(sendBuf) : Transmit(sendBuf, n)
    /\ UNCHANGED <<sender, sSocket, done, queue, listening, client>>

SendThread ==
    BeginLoop \/ Wait \/ ReadDone \/ TakeQueue \/ InternalSend

=============================================================================
