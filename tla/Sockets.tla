------------------------------- MODULE Sockets -------------------------------
(***************************************************************************)
(* The handles of gaea: TcpStream and TcpListener (src/net/tcp.rs and      *)
(* src/sys/unix/tcp.rs), UdpSocket (udp.rs) and the ends of a unix pipe    *)
(* (src/sys/unix/pipe.rs), from the calls that make them, which may fail   *)
(* halfway, to their drop; and an application that uses them the way       *)
(* src/os/mod.rs asks for: registered edge triggered, it handles each      *)
(* event by repeating the operation until it would block, and writes until *)
(* a write would block.                                                    *)
(*                                                                         *)
(* The application's ids are the numbers of its descriptors, so an event   *)
(* that was returned before a handle was dropped may be handled for the    *)
(* handle that has the number next.                                        *)
(***************************************************************************)
EXTENDS Descriptors, Sequences

CONSTANTS
    Programs,   \* the programs: the calls that make handles, in their order
    MaxTraffic  \* bound on how often peers connect, send or close and the
                \* application writes or shuts down

Constructors == {"connect", "bind", "try_clone", "UdpSocket::bind", "new_pipe", "Awakener::new"}

ASSUME SocketsAssumption ==
    /\ \A p \in Programs : p \in Seq(Constructors)
    /\ MaxTraffic \in Nat

VARIABLES
    owner,    \* the handle that owns a descriptor: its type, "raw" for a number
              \* taken with into_raw_fd, None
    events,   \* ids of events a poll returned and the application handles
    full,     \* the descriptors for which the last write would have blocked
    registered, \* history: the descriptors the application has registered, and
              \* not deregistered or closed since
    stuck,    \* a call blocks its thread
    calls,    \* the calls that make handles the program has still to make
    traffic   \* how often any of this happened

appVars == <<owner, events, full, registered, stuck>>
vars == <<descVars, appVars, calls, traffic>>

Init ==
    /\ DescInit
    /\ owner = [fd \in Fds |-> None] /\ events = {} /\ full = {} /\ registered = {}
    /\ stuck = FALSE
    /\ calls \in Programs /\ traffic = 0

Traffic == traffic < MaxTraffic /\ traffic' = traffic + 1

Owned(fd, kinds) == ~stuck /\ owner[fd] \in kinds

-----------------------------------------------------------------------------
(* Calls that make handles.  A call that cannot even get a descriptor      *)
(* changes nothing and is left out.                                        *)

\* The next call is c, and there are n free descriptors for it.
Calls(c, n) ==
    /\ ~stuck
    /\ calls # <<>> /\ Head(calls) = c /\ calls' = Tail(calls)
    /\ Cardinality(FreeFds) >= n
    /\ UNCHANGED <<listed, events, registered, stuck, traffic>>

Own(fd, kind) == owner' = [owner EXCEPT ![fd] = kind]

\* The call returns an error after it got the descriptor, which nobody closes;
\* nobody calls anything on it either, so its mode does not matter.
LeftOpen(kind) ==
    /\ Open([NewOpenFile(kind, "no") EXCEPT !.nonblock = FALSE])
    /\ UNCHANGED <<owner, full>>

\* TcpStream::connect: fcntl or connect fail, or the connection is made at once,
\* or is in progress: it cannot be written yet.
Connect ==
    /\ Calls("connect", 1) /\ UNCHANGED regs
    /\ \/ \E conn \in {"pending", "made"} :
             /\ Open(NewOpenFile("TcpStream", conn))
             /\ Own(NewFd, "TcpStream")
             /\ full' = IF conn = "pending" THEN full \cup {NewFd} ELSE full
       \/ LeftOpen("TcpStream")

\* TcpListener::bind: setsockopt, fcntl, bind or listen fail, or none of them.
Bind ==
    /\ Calls("bind", 1) /\ UNCHANGED regs
    /\ \/ /\ Open(NewOpenFile("TcpListener", "made"))
          /\ Own(NewFd, "TcpListener") /\ UNCHANGED full
       \/ LeftOpen("TcpListener")

\* TcpListener::try_clone
TryClone(fd) ==
    /\ Owned(fd, {"TcpListener"})
    /\ Calls("try_clone", 1) /\ UNCHANGED regs
    /\ Dup(fd) /\ Own(NewFd, "TcpListener") /\ UNCHANGED full

\* UdpSocket::bind: when set_nonblocking fails the socket is dropped, and the
\* call changed nothing.
UdpBind ==
    /\ Calls("UdpSocket::bind", 1) /\ UNCHANGED regs
    /\ Open(NewOpenFile("UdpSocket", "made"))
    /\ Own(NewFd, "UdpSocket") /\ UNCHANGED full

\* new_pipe: the receiver has the lower descriptor.  When one of the fcntl calls
\* fails both stay open.
NewPipe ==
    /\ Calls("new_pipe", 2) /\ UNCHANGED regs
    /\ LET rfd == NewFd
           wfd == Min(FreeFds \ {rfd})
           r == NewFile
           w == Min(FreeFiles \ {r})
       IN  /\ table' = [table EXCEPT ![rfd] = r, ![wfd] = w]
           /\ \E conn \in {"made", "no"} :
                 /\ file' = [file EXCEPT ![r] = [NewOpenFile("Receiver", conn) EXCEPT !.peer = w],
                                         ![w] = [NewOpenFile("Sender", conn) EXCEPT !.peer = r]]
                 /\ owner' = IF conn = "no" THEN owner
                             ELSE [owner EXCEPT ![rfd] = "Receiver", ![wfd] = "Sender"]
    /\ UNCHANGED full

\* Awakener::new of Linux: the eventfd is registered, or that fails and it stays
\* open.
NewAwakener ==
    /\ Calls("Awakener::new", 1)
    /\ \/ /\ Open(NewOpenFile("Awakener", "made")) /\ Own(NewFd, "Awakener")
          /\ regs' = regs \cup {<<NewFd, NewFile>>} /\ UNCHANGED full
       \/ LeftOpen("Awakener") /\ UNCHANGED regs

-----------------------------------------------------------------------------
(* Registration and ownership.                                             *)

Evented == Kinds \ {"Awakener"}

\* Evented::register, reregister and deregister, each through EventedFd.  A call
\* that fails changes nothing and is left out.
Register(fd) ==
    /\ Owned(fd, Evented) /\ Ctl(fd, "add") /\ registered' = registered \cup {fd}
    /\ UNCHANGED <<owner, events, full, stuck, calls, traffic>>

Reregister(fd) ==
    /\ Owned(fd, Evented) /\ Ctl(fd, "mod") /\ registered' = registered \cup {fd}
    /\ UNCHANGED <<owner, events, full, stuck, calls, traffic>>

Deregister(fd) ==
    /\ Owned(fd, Evented) /\ Ctl(fd, "del") /\ registered' = registered \ {fd}
    /\ UNCHANGED <<owner, events, full, stuck, calls, traffic>>

\* IntoRawFd: the handle gives its descriptor away and does not close it.
IntoRawFd(fd) ==
    /\ Owned(fd, Evented) /\ Own(fd, "raw")
    /\ UNCHANGED <<descVars, events, full, registered, stuck, calls, traffic>>

\* Fault: the handle made of a raw descriptor duplicates it.
FaultyFromRawFd(fd) ==
    /\ Owned(fd, {"raw"}) /\ file[table[fd]].kind \in {"TcpStream", "TcpListener", "UdpSocket"}
    /\ FreeFds # {}
    /\ table' = [table EXCEPT ![NewFd] = table[fd]]
    /\ owner' = [owner EXCEPT ![NewFd] = file[table[fd]].kind, ![fd] = None]
    /\ UNCHANGED <<file, regs, listed, events, full, registered, stuck, calls, traffic>>

\* FromRawFd: a handle of the right type takes the descriptor over.
FromRawFd(fd) ==
    /\ Owned(fd, {"raw"}) /\ file[table[fd]].kind \in {"TcpStream", "TcpListener", "UdpSocket"}
    /\ Own(fd, file[table[fd]].kind)
    /\ UNCHANGED <<descVars, events, full, registered, stuck, calls, traffic>>

\* A handle is dropped, or a raw descriptor closed.  What polls returned before
\* stays with the application.
Drop(fd) ==
    /\ Owned(fd, Kinds \cup {"raw"})
    /\ Close(fd)
    /\ Own(fd, None) /\ full' = full \ {fd} /\ registered' = registered \ {fd}
    /\ UNCHANGED <<events, stuck, calls, traffic>>

-----------------------------------------------------------------------------
(* Operations, called to handle an event.                                  *)

Handles(fd, kinds) == fd \in events /\ Owned(fd, kinds)

\* The operation returns WouldBlock, and the event is handled; on a file that is
\* not in non-blocking mode the thread waits instead.
WouldBlock(fd) ==
    /\ IF file[table[fd]].nonblock THEN events' = events \ {fd} /\ UNCHANGED stuck
       ELSE stuck' = TRUE /\ UNCHANGED events
    /\ UNCHANGED <<descVars, owner, full, registered, calls, traffic>>

\* A connection is taken from the backlog, or data from the buffer.
Taken(f) == [file EXCEPT ![f].in = @ - 1]

\* Fault: the new stream is left in blocking mode.
FaultyAcceptBlocking(fd) ==
    LET f == table[fd]
    IN  /\ Handles(fd, {"TcpListener"})
        /\ \/ /\ file[f].in > 0 /\ FreeFds # {}
              /\ table' = [table EXCEPT ![NewFd] = NewFile]
              /\ file' = [Taken(f) EXCEPT ![NewFile] =
                            [NewOpenFile("TcpStream", "made") EXCEPT !.nonblock = FALSE]]
              /\ Own(NewFd, "TcpStream")
              /\ UNCHANGED <<regs, listed, events, full, registered, stuck, calls, traffic>>
           \/ file[f].in = 0 /\ WouldBlock(fd)

\* Fault: when set_nonblocking fails the new stream is not closed.
FaultyAcceptLeaks(fd) ==
    LET f == table[fd]
    IN  /\ Handles(fd, {"TcpListener"})
        /\ \/ /\ file[f].in > 0 /\ FreeFds # {}
              /\ table' = [table EXCEPT ![NewFd] = NewFile]
              /\ file' = [Taken(f) EXCEPT ![NewFile] = NewOpenFile("TcpStream", "made")]
              /\ Own(NewFd, "TcpStream") \/ UNCHANGED owner
              /\ UNCHANGED <<regs, listed, events, full, registered, stuck, calls, traffic>>
           \/ file[f].in = 0 /\ WouldBlock(fd)

\* Fault: a failure is returned as WouldBlock.
FaultyAcceptError(fd) ==
    LET f == table[fd]
    IN  /\ Handles(fd, {"TcpListener"})
        /\ \/ /\ file[f].in > 0 /\ FreeFds # {}
              /\ file' = Taken(f) /\ events' = events \ {fd}
              /\ UNCHANGED <<table, regs, listed, owner, full, registered, stuck, calls, traffic>>
           \/ file[f].in = 0 /\ WouldBlock(fd)

\* TcpListener::accept: a stream in non-blocking mode; or the connection is lost,
\* because accept fails or set_nonblocking does and the stream is dropped.
\* Without a free descriptor accept fails too, and is called again later.
Accept(fd) ==
    LET f == table[fd]
    IN  /\ Handles(fd, {"TcpListener"})
        /\ \/ /\ file[f].in > 0 /\ FreeFds # {}
              /\ \/ /\ table' = [table EXCEPT ![NewFd] = NewFile]
                    /\ file' = [Taken(f) EXCEPT ![NewFile] = NewOpenFile("TcpStream", "made")]
                    /\ Own(NewFd, "TcpStream")
                 \/ file' = Taken(f) /\ UNCHANGED <<table, owner>>
              /\ UNCHANGED <<regs, listed, events, full, registered, stuck, calls, traffic>>
           \/ file[f].in = 0 /\ WouldBlock(fd)

\* The error of a socket is returned by the next call that looks at it, once.
ErrorTaken(fd) ==
    /\ file[table[fd]].err
    /\ file' = [file EXCEPT ![table[fd]].err = FALSE]
    /\ UNCHANGED <<table, regs, listed, appVars, calls, traffic>>

\* read of a TcpStream or a Receiver, recv and recv_from of a UdpSocket: the error,
\* what there is, the end, or WouldBlock.  A read from a full pipe makes room.
Read(fd) ==
    LET f == table[fd]
        p == file[f].peer
    IN  /\ Handles(fd, {"TcpStream", "UdpSocket", "Receiver"})
        /\ \/ ErrorTaken(fd)
           \/ /\ ~file[f].err /\ file[f].in > 0
              /\ file' = Taken(f)
              /\ listed' = IF p # None /\ file[f].in = Room THEN listed \cup Woken(p, "writable")
                           ELSE listed
              /\ UNCHANGED <<table, regs, appVars, calls, traffic>>
           \/ /\ ~file[f].err /\ file[f].in = 0 /\ file[f].end # "no"
              /\ file' = [file EXCEPT ![f].end = "seen"]
              /\ events' = events \ {fd}
              /\ UNCHANGED <<table, regs, listed, owner, full, registered, stuck, calls, traffic>>
           \/ ~file[f].err /\ file[f].in = 0 /\ file[f].end = "no" /\ WouldBlock(fd)

\* peek and peek_from: what there is stays.
Peek(fd) ==
    /\ Handles(fd, {"TcpStream", "UdpSocket"})
    /\ \/ ErrorTaken(fd)
       \/ ~file[table[fd]].err /\ Readable(table[fd]) /\ UNCHANGED vars
       \/ ~Readable(table[fd]) /\ file[table[fd]].end = "no" /\ WouldBlock(fd)

\* take_error
TakeError(fd) == Handles(fd, {"TcpStream", "TcpListener", "UdpSocket"}) /\ ErrorTaken(fd)

\* An event for a handle that is gone, an end of a pipe that is written, or an
\* awakener: there is nothing to call.
Ignore(fd) ==
    /\ ~stuck /\ fd \in events /\ owner[fd] \in {None, "Sender", "Awakener"}
    /\ events' = events \ {fd}
    /\ UNCHANGED <<descVars, owner, full, registered, stuck, calls, traffic>>

\* A write returns WouldBlock, and there is no other until an event comes.
WriteWouldBlock(fd) ==
    /\ ~Writable(table[fd])
    /\ IF file[table[fd]].nonblock THEN full' = full \cup {fd} /\ UNCHANGED stuck
       ELSE stuck' = TRUE /\ UNCHANGED full
    /\ UNCHANGED <<descVars, owner, events, registered, calls, traffic>>

Writes(fd, kinds) == Owned(fd, kinds) /\ fd \notin full

\* write of a TcpStream, send and send_to of a UdpSocket.
Write(fd) ==
    LET f == table[fd]
    IN  /\ Writes(fd, {"TcpStream", "UdpSocket"}) /\ ~file[f].shut
        /\ \/ ErrorTaken(fd)
           \/ /\ ~file[f].err /\ Writable(f) /\ Traffic
              /\ file' = [file EXCEPT ![f].out = @ + 1]
              /\ UNCHANGED <<table, regs, listed, appVars, calls>>
           \/ file[f].conn # "no" /\ WriteWouldBlock(fd)

\* write of a Sender; without the receiver it fails, which changes nothing.
PipeWrite(fd) ==
    LET p == file[table[fd]].peer
    IN  /\ Writes(fd, {"Sender"})
        /\ \/ /\ p # None /\ Writable(table[fd]) /\ Traffic
              /\ file' = [file EXCEPT ![p].in = @ + 1]
              /\ listed' = listed \cup Woken(p, "readable")
              /\ UNCHANGED <<table, regs, appVars, calls>>
           \/ WriteWouldBlock(fd)

\* shutdown of a connected TcpStream.
Shutdown(fd, how) ==
    LET f == table[fd]
    IN  /\ Owned(fd, {"TcpStream"}) /\ file[f].conn = "made" /\ Traffic
        /\ file' = [file EXCEPT ![f].shut = @ \/ how # "Read",
                                ![f].end = IF how # "Write" /\ @ = "no" THEN "sent" ELSE @]
        /\ listed' = IF how = "Write" THEN listed ELSE listed \cup Woken(f, "error")
        /\ UNCHANGED <<table, regs, appVars, calls>>

-----------------------------------------------------------------------------
(* The surroundings.                                                       *)

\* A poll returns the event of a listed registration, if there is still one.
Poll(r) ==
    /\ ~stuck /\ r \in listed
    /\ listed' = listed \ {r}
    /\ IF Ready(r[2]) THEN events' = events \cup {r[1]} /\ full' = full \ {r[1]}
       ELSE UNCHANGED <<events, full>>
    /\ UNCHANGED <<table, file, regs, owner, registered, stuck, calls, traffic>>

\* The file f changes, which concerns registrations for c.
Happens(f, new, c) ==
    /\ file' = [file EXCEPT ![f] = new]
    /\ listed' = listed \cup Woken(f, c)
    /\ UNCHANGED <<table, regs, appVars, calls>>

\* A connection that is in progress is made or refused.
Resolve(f) ==
    /\ file[f] # None /\ file[f].conn = "pending"
    /\ \/ Happens(f, [file[f] EXCEPT !.conn = "made"], "writable")
       \/ Happens(f, [file[f] EXCEPT !.conn = "no", !.err = TRUE, !.end = "sent"], "error")
    /\ UNCHANGED traffic

\* A peer connects, or sends something.
Arrive(f) ==
    /\ file[f] # None /\ file[f].kind \in {"TcpListener", "TcpStream", "UdpSocket"}
    /\ file[f].conn = "made" /\ file[f].end = "no" /\ file[f].in < Room
    /\ Traffic
    /\ Happens(f, [file[f] EXCEPT !.in = @ + 1], "readable")

\* A peer closes its side.
PeerCloses(f) ==
    /\ file[f] # None /\ file[f].kind = "TcpStream"
    /\ file[f].conn = "made" /\ file[f].end = "no"
    /\ Happens(f, [file[f] EXCEPT !.end = "sent"], "error") /\ Traffic

\* The peer, or the network, takes what was written.
PeerTakes(f) ==
    /\ file[f] # None /\ file[f].out > 0
    /\ Happens(f, [file[f] EXCEPT !.out = @ - 1], "writable") /\ UNCHANGED traffic

Make == Connect \/ Bind \/ UdpBind \/ NewPipe \/ NewAwakener \/ \E fd \in Fds : TryClone(fd)

Manage(fd) ==
    Register(fd) \/ Reregister(fd) \/ Deregister(fd) \/ IntoRawFd(fd) \/ FromRawFd(fd) \/ Drop(fd)

Handle(fd) == Accept(fd) \/ Read(fd) \/ Ignore(fd)

Look(fd) == Peek(fd) \/ TakeError(fd)

Send(fd) == Write(fd) \/ PipeWrite(fd) \/ \E how \in {"Read", "Write", "Both"} : Shutdown(fd, how)

Surroundings(f) == Resolve(f) \/ Arrive(f) \/ PeerCloses(f) \/ PeerTakes(f)

Next ==
    \/ Make
    \/ \E fd \in Fds : Manage(fd) \/ Handle(fd) \/ Look(fd) \/ Send(fd)
    \/ \E r \in listed : Poll(r)
    \/ \E f \in Files : Surroundings(f)

Spec == Init /\ [][Next]_vars

\* The application polls on and handles its events.
Fairness ==
    \A fd \in Fds : WF_vars(Handle(fd)) /\ \A f \in Files : WF_vars(Poll(<<fd, f>>))

FairSpec == Spec /\ Fairness

-----------------------------------------------------------------------------
(* Properties.                                                             *)

\* The type invariant, a part of DescriptorsAccounted.
TypeOK ==
    /\ DescTypeOK
    /\ owner \in [Fds -> Kinds \cup {"raw", None}]
    /\ events \subseteq Fds /\ full \subseteq Fds /\ registered \subseteq Fds /\ stuck \in BOOLEAN
    /\ calls \in Seq(Constructors) /\ traffic \in 0..MaxTraffic

\* No call ever blocks its thread, although the event it is called for may be
\* another handle's that had the same number, a clone may have accepted the
\* connection first, and the peer may have changed its mind.
NeverStuck == ~stuck

\* The descriptor table, the open files and epoll's lists agree (TypeOK); a
\* handle's descriptor is open and of the handle's type, however numbers are
\* reused and passed around raw; no other handle's drop or deregister takes its
\* registration away; and what failed calls left open is nothing a peer can talk
\* to and nothing that is registered: nobody waits for it.
DescriptorsAccounted ==
    /\ TypeOK
    /\ \A fd \in Fds :
          /\ owner[fd] \in Kinds => table[fd] # None /\ file[table[fd]].kind = owner[fd]
          /\ fd \in registered => <<fd, table[fd]>> \in regs
          /\ owner[fd] = None /\ table[fd] # None =>
                /\ file[table[fd]].conn = "no" /\ file[table[fd]].in = 0
                /\ \A r \in regs : r[2] # table[fd]

\* A handle deregisters itself when it is dropped, iff it is not cloned: a
\* registration through a descriptor that is closed, or another file's by now,
\* is that of a cloned listener.
DropDeregisters ==
    \A r \in regs : table[r[1]] # r[2] => file[r[2]].kind = "TcpListener" /\ file[r[2]].cloned

\* Something the application has to be told of a handle it registered: a connection,
\* data, the end, the failure of a connect; or room for what could not be written.
\* A clone that was given the number of a dropped one, and so inherits the
\* registration that is left of it, is not registered by that.
Waits(fd) ==
    /\ fd \in registered /\ owner[fd] \in Evented
    /\ \/ owner[fd] # "Sender" /\ Readable(table[fd])
       \/ fd \in full /\ Writable(table[fd])

\* Edge triggered readiness is never missed by an application that drains: what
\* it has to be told is on the ready list, or in an event it still handles.
NothingMissed ==
    \A fd \in Fds : Waits(fd) => fd \in events \/ <<fd, table[fd]>> \in listed

\* So it is told, unless there is no descriptor to accept a connection with.
AllTold == \A fd \in Fds : Waits(fd) ~> (~Waits(fd) \/ FreeFds = {})
==============================================================================
