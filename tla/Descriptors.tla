----------------------------- MODULE Descriptors -----------------------------
(***************************************************************************)
(* What the sockets and pipes of gaea rest on, on Linux: the descriptor    *)
(* table of the process, the open files behind it, and the epoll instance  *)
(* of an OsQueue in which handles are registered edge triggered.           *)
(*                                                                         *)
(* External, from how the code uses it: a new descriptor is the lowest     *)
(* free one; dup adds a descriptor for the same open file; an open file    *)
(* and its registrations end with its last descriptor, and a registration  *)
(* is known by the descriptor and the open file together, so one that was  *)
(* made through a descriptor that is closed stays if another one is open.  *)
(***************************************************************************)
EXTENDS Integers, FiniteSets, FiniteSetsExt

CONSTANTS
    None,  \* no open file, no owner
    Fds,   \* the descriptors the process may have, numbers
    Room   \* what fits into a backlog or a buffer

VARIABLES
    table,   \* the descriptor table: the open file of a descriptor
    file,    \* the open files
    regs,    \* the interest list of epoll: pairs of a descriptor and a file
    listed   \* its ready list

descVars == <<table, file, regs, listed>>

\* Names of open files; there are never more of them than descriptors.
Files == Fds

Kinds == {"TcpStream", "TcpListener", "UdpSocket", "Receiver", "Sender", "Awakener"}

\* An open file: `conn` is "no" for a socket or pipe nobody can talk to, `err`
\* says that SO_ERROR is set, `end` how far the end of what comes in has got,
\* `in` what can be read or accepted, `out` what was written and the peer has
\* not taken.
OpenFiles ==
    [kind : Kinds, nonblock : BOOLEAN, conn : {"no", "pending", "made"}, err : BOOLEAN,
     end : {"no", "sent", "seen"}, in : 0..Room, out : 0..Room,
     shut : BOOLEAN, cloned : BOOLEAN, peer : Files \cup {None}]

ASSUME DescriptorsAssumption ==
    /\ Fds \subseteq Nat /\ IsFiniteSet(Fds)
    /\ Room \in Nat \ {0}
    /\ None \notin Fds /\ None \notin Kinds \cup {"raw"} /\ None \notin OpenFiles

NewOpenFile(kind, conn) ==
    [kind |-> kind, nonblock |-> TRUE, conn |-> conn, err |-> FALSE, end |-> "no",
     in |-> 0, out |-> 0, shut |-> FALSE, cloned |-> FALSE, peer |-> None]

FreeFds   == {fd \in Fds : table[fd] = None}
FreeFiles == {f \in Files : file[f] = None}
NewFd     == Min(FreeFds)
NewFile   == Min(FreeFiles)

DescInit ==
    /\ table = [fd \in Fds |-> None] /\ file = [f \in Files |-> None]
    /\ regs = {} /\ listed = {}

\* Fault: the interest of a listener is that of a stream's writing side.
FaultyInterestsOf(kind) ==
    CASE kind \in {"TcpStream", "UdpSocket"}  -> {"readable", "writable"}
      [] kind \in {"Receiver", "Awakener"}    -> {"readable"}
      [] kind \in {"TcpListener", "Sender"}   -> {"writable"}

\* The INTERESTS of each type, with which handles are registered.
InterestsOf(kind) ==
    CASE kind \in {"TcpStream", "UdpSocket"}              -> {"readable", "writable"}
      [] kind \in {"TcpListener", "Receiver", "Awakener"} -> {"readable"}
      [] kind = "Sender"                                  -> {"writable"}

\* Would a read, an accept, a write return something else than WouldBlock.
Readable(f) == file[f].in > 0 \/ file[f].end = "sent" \/ file[f].err

Writable(f) ==
    IF file[f].kind = "Sender" THEN file[f].peer = None \/ file[file[f].peer].in < Room
    ELSE file[f].err \/ (file[f].conn = "made" /\ file[f].out < Room)

\* What epoll would report of file f, registered with its INTERESTS.
Ready(f) ==
    \/ "readable" \in InterestsOf(file[f].kind) /\ Readable(f)
    \/ "writable" \in InterestsOf(file[f].kind) /\ Writable(f)
    \/ file[f].err \/ file[f].end = "sent"

\* The registrations of f that are put on the ready list when what `c` stands
\* for happens to it; errors and hang ups ("error") concern all of them.
Woken(f, c) ==
    {r \in regs : r[2] = f /\ (c = "error" \/ c \in InterestsOf(file[f].kind))}

\* A new open file with a descriptor for it.
Open(openFile) ==
    /\ table' = [table EXCEPT ![NewFd] = NewFile]
    /\ file' = [file EXCEPT ![NewFile] = openFile]

\* dup of descriptor fd.
Dup(fd) ==
    /\ table' = [table EXCEPT ![NewFd] = table[fd]]
    /\ file' = [file EXCEPT ![table[fd]].cloned = TRUE]

\* close: with the last descriptor the open file goes and its registrations
\* with it, and the other end of a pipe is told.
Close(fd) ==
    LET f == table[fd]
        p == file[f].peer
        gone == [file EXCEPT ![f] = None]
    IN  /\ table' = [table EXCEPT ![fd] = None]
        /\ IF \E g \in Fds \ {fd} : table[g] = f
           THEN UNCHANGED <<file, regs, listed>>
           ELSE /\ file' = IF p = None THEN gone
                           ELSE [gone EXCEPT ![p] = [file[p] EXCEPT !.peer = None, !.end = "sent"]]
                /\ regs' = {r \in regs : r[2] # f}
                /\ listed' = {r \in listed \cup (IF p = None THEN {} ELSE Woken(p, "error")) :
                                r[2] # f}

\* epoll_ctl with EPOLL_CTL_ADD, EPOLL_CTL_MOD and EPOLL_CTL_DEL; ADD and MOD list a
\* file that is ready.
Ctl(fd, op) ==
    LET r == <<fd, table[fd]>>
    IN  /\ (r \in regs) = (op # "add")
        /\ regs' = IF op = "del" THEN regs \ {r} ELSE regs \cup {r}
        /\ listed' = IF op # "del" /\ Ready(r[2]) THEN listed \cup {r} ELSE listed \ {r}
        /\ UNCHANGED <<table, file>>

DescTypeOK ==
    /\ table \in [Fds -> Files \cup {None}]
    /\ file \in [Files -> OpenFiles \cup {None}]
    /\ \A f \in Files : file[f] # None <=> \E fd \in Fds : table[fd] = f
    /\ regs \subseteq Fds \X Files /\ listed \subseteq regs
    /\ \A r \in regs : file[r[2]] # None
==============================================================================
