------------------------------ MODULE UserQueue ------------------------------
(***************************************************************************)
(* The user space event queue (src/user_space.rs): a vector the            *)
(* application adds events to and poll drains from the front.              *)
(***************************************************************************)
EXTENDS Event

VARIABLE queue  \* Queue::events

QueueAdd(id) ==
    /\ Accept
    /\ queue' = Append(queue, NewItem("queue", id, 0))

\* Fault: waiting events do not keep poll from blocking.
FaultyQueueMaxTimeout == None

\* Source::max_timeout: never block while events are waiting.
QueueMaxTimeout == IF queue = <<>> THEN None ELSE 0

\* Fault: the sink's capacity is ignored.
FaultyQueuePollAll == sink' = sink \o queue /\ queue' = <<>>

\* Fault: the whole queue is drained, what does not fit is dropped.
FaultyQueuePollDrop ==
    /\ sink' = sink \o Prefix(queue, CapacityMin(CapacityLeft, Len(queue)))
    /\ queue' = <<>>

\* Fault: events are taken from the end of the vector.
FaultyQueuePollBack ==
    LET n == CapacityMin(CapacityLeft, Len(queue))
    IN  /\ sink' = sink \o Rest(queue, Len(queue) - n)
        /\ queue' = Prefix(queue, Len(queue) - n)

\* Source::poll: drain as many events as the sink has room for.
QueuePoll ==
    LET n == CapacityMin(CapacityLeft, Len(queue))
    IN  /\ sink' = sink \o Prefix(queue, n)
        /\ queue' = Rest(queue, n)
==============================================================================
