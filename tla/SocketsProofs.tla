---------------------------- MODULE SocketsProofs ----------------------------
(***************************************************************************)
(* The handles of gaea, for any descriptors, programs and bounds: no call  *)
(* blocks its thread, descriptors and registrations are accounted for, and *)
(* an application that drains is told of everything it registered for.     *)
(***************************************************************************)
EXTENDS Sockets, SequenceTheorems, FiniteSetTheorems, WellFoundedInduction, TLAPS

-----------------------------------------------------------------------------
(* The inductive invariant.                                                *)

Buffered == {"TcpStream", "UdpSocket", "Sender"}  \* what a write can fill

\* The end of a listener does not come, and only a stream is ever connecting.
FilesOK ==
    \A f \in Files : file[f] # None =>
        /\ file[f].kind = "TcpListener" => file[f].end = "no" /\ ~file[f].err
        /\ file[f].conn = "pending" => file[f].kind = "TcpStream"

\* The ends of a pipe know each other.
PeersOK ==
    \A f \in Files : file[f] # None /\ file[f].peer # None =>
        LET p == file[f].peer
        IN  /\ p \in Files /\ file[p] # None /\ file[p].peer = f /\ file[p].conn = file[f].conn
            /\ \/ file[f].kind = "Receiver" /\ file[p].kind = "Sender"
               \/ file[f].kind = "Sender" /\ file[p].kind = "Receiver"

\* What is owned is open, of its type, in non-blocking mode and, if it is an end
\* of a pipe, one that was made.
OwnersOK ==
    \A fd \in Fds : owner[fd] # None =>
        /\ table[fd] # None
        /\ file[table[fd]].nonblock
        /\ owner[fd] \in {"raw", file[table[fd]].kind}
        /\ file[table[fd]].kind \in {"Receiver", "Sender"} => file[table[fd]].conn = "made"

\* What failed calls left open concerns nobody.
LeftOK ==
    \A fd \in Fds : owner[fd] = None /\ table[fd] # None =>
        /\ file[table[fd]].conn = "no" /\ file[table[fd]].in = 0
        /\ \A r \in regs : r[2] # table[fd]

\* Two descriptors share an open file only if it is a listener that was cloned,
\* and both are owned.
SharedOK ==
    \A fd, g \in Fds : fd # g /\ table[fd] # None /\ table[fd] = table[g] =>
        /\ file[table[fd]].kind = "TcpListener" /\ file[table[fd]].cloned
        /\ owner[fd] # None

\* What the application registered is a handle's and on epoll's interest list.
RegisteredOK ==
    \A fd \in registered :
        /\ owner[fd] # None /\ file[table[fd]].kind # "Awakener"
        /\ <<fd, table[fd]>> \in regs

\* Only what can be written is ever full.
FullOK == \A fd \in full : owner[fd] # None /\ file[table[fd]].kind \in Buffered

\* The application is told of what can be read, and of room after a full write.
ReadTold ==
    \A fd \in registered : file[table[fd]].kind # "Sender" /\ Readable(table[fd]) =>
        fd \in events \/ <<fd, table[fd]>> \in listed
WriteTold ==
    \A fd \in registered \cap full : Writable(table[fd]) => <<fd, table[fd]>> \in listed

Inv ==
    /\ TypeOK /\ FilesOK /\ PeersOK /\ OwnersOK /\ LeftOK /\ SharedOK
    /\ RegisteredOK /\ FullOK /\ DropDeregisters /\ ReadTold /\ WriteTold /\ NeverStuck

\* A descriptor that is open has an open file.
LEMMA Opened ==
    ASSUME TypeOK, NEW fd \in Fds, table[fd] # None
    PROVE  table[fd] \in Files /\ file[table[fd]] # None /\ file[table[fd]] \in OpenFiles
BY DEF TypeOK, DescTypeOK

-----------------------------------------------------------------------------
(* Open files whose contents change.                                       *)

\* What `new` may not change of the open file f.
Alike(f, new) ==
    /\ new \in OpenFiles
    /\ new.kind = file[f].kind /\ new.peer = file[f].peer
    /\ new.nonblock = file[f].nonblock /\ new.cloned = file[f].cloned
    /\ new.conn # file[f].conn => file[f].conn = "pending" /\ new.conn # "pending"
    /\ new.kind = "TcpListener" => new.end = file[f].end /\ new.err = file[f].err
    /\ new.in # file[f].in => file[f].conn = "made" \/ file[f].in > 0

RegsOf(f) == {r \in regs : r[2] = f}

\* Nothing has become readable or writable of f that its registrations are not
\* told of.
ReadCalm(f) ==
    Readable(f)' => Readable(f) \/ file[f].kind = "Sender" \/ RegsOf(f) \subseteq listed'
WriteCalm(f) ==
    Writable(f)' => Writable(f) \/ file[f].kind \notin Buffered \/ RegsOf(f) \subseteq listed'

\* The step leaves the descriptors, their owners and registrations alone.
StaysOpen ==
    /\ table' = table /\ regs' = regs /\ owner' = owner /\ registered' = registered
    /\ full' = full /\ stuck' = stuck
    /\ listed \subseteq listed' /\ listed' \subseteq regs
    /\ calls' \in Seq(Constructors) /\ traffic' \in 0..MaxTraffic

\* A step that changes the contents of one open file keeps what Inv says of
\* descriptors and open files.
LEMMA ContentStructure ==
    ASSUME Inv, StaysOpen, events' \subseteq Fds,
           NEW f \in Files, file[f] # None, NEW new, Alike(f, new),
           file' = [file EXCEPT ![f] = new]
    PROVE  /\ TypeOK' /\ FilesOK' /\ PeersOK' /\ OwnersOK' /\ LeftOK' /\ SharedOK'
           /\ RegisteredOK' /\ FullOK' /\ DropDeregisters' /\ NeverStuck'
<1> USE DescriptorsAssumption DEF StaysOpen
<1>1. /\ file \in [Files -> OpenFiles \cup {None}] /\ table \in [Fds -> Files \cup {None}]
      /\ regs \subseteq Fds \X Files /\ \A r \in regs : file[r[2]] # None
    BY DEF Inv, TypeOK, DescTypeOK
<1>2. /\ file' \in [Files -> OpenFiles \cup {None}] /\ file'[f] = new /\ new # None
      /\ \A q \in Files \ {f} : file'[q] = file[q]
      /\ \A q \in Files : file'[q] = None <=> file[q] = None
    BY <1>1 DEF Alike
<1>3. \A q \in Files : file[q] # None =>
         /\ file'[q].kind = file[q].kind /\ file'[q].peer = file[q].peer
         /\ file'[q].nonblock = file[q].nonblock /\ file'[q].cloned = file[q].cloned
    BY <1>2 DEF Alike
<1>O. \A fd \in Fds : table[fd] # None => table[fd] \in Files /\ file[table[fd]] # None
    BY Opened DEF Inv
<1>4. TypeOK'
    BY <1>1, <1>2 DEF Inv, TypeOK, DescTypeOK, NeverStuck
<1>5. FilesOK'
    BY <1>1, <1>2 DEF Inv, FilesOK, Alike
<1>6. PeersOK'
    <2>1. ASSUME NEW q \in Files, file'[q] # None, file'[q].peer # None
          PROVE  file'[q].conn = file[q].conn
        BY <2>1, <1>2, <1>3 DEF Inv, FilesOK, PeersOK, Alike
    <2>2. ASSUME NEW q \in Files, file'[q] # None, file'[q].peer # None
          PROVE  LET p == file[q].peer IN p \in Files /\ file'[p] # None /\ file'[p].peer = q
        BY <2>2, <1>2, <1>3 DEF Inv, PeersOK
    <2>3. ASSUME NEW q \in Files PROVE q # None
        BY DEF Files
    <2>4. QED
        BY <2>1, <2>2, <2>3, <1>2, <1>3 DEF Inv, PeersOK
<1>7. OwnersOK'
    BY <1>O, <1>2, <1>3 DEF Inv, OwnersOK, FilesOK, Alike
<1>8. LeftOK'
    <2> SUFFICES ASSUME NEW fd \in Fds, owner[fd] = None, table[fd] # None
                 PROVE  /\ file'[table[fd]].conn = "no" /\ file'[table[fd]].in = 0
                        /\ \A r \in regs : r[2] # table[fd]
        BY DEF LeftOK
    <2>1. /\ file[table[fd]].conn = "no" /\ file[table[fd]].in = 0
          /\ \A r \in regs : r[2] # table[fd]
        BY DEF Inv, LeftOK
    <2>2. CASE table[fd] = f
        BY <2>1, <2>2, <1>2 DEF Alike
    <2>3. CASE table[fd] # f
        BY <2>1, <2>3, <1>O, <1>2
    <2>4. QED
        BY <2>2, <2>3
<1>9. SharedOK'
    BY <1>O, <1>2, <1>3 DEF Inv, SharedOK
<1>10. RegisteredOK' /\ FullOK'
    BY <1>O, <1>2, <1>3 DEF Inv, RegisteredOK, FullOK, TypeOK, OwnersOK
<1>11. DropDeregisters'
    BY <1>1, <1>2, <1>3 DEF Inv, DropDeregisters
<1>12. QED
    BY <1>4, <1>5, <1>6, <1>7, <1>8, <1>9, <1>10, <1>11 DEF Inv, NeverStuck

\* If f changes, and it is not the receiver of a pipe that is read or written,
\* nothing changes of what can be read or written of other open files.
LEMMA OthersSame ==
    ASSUME Inv, NEW f \in Files, file[f] # None, NEW new,
           file' = [file EXCEPT ![f] = new],
           NEW q \in Files, q # f, file[q] # None,
           new.in = file[f].in \/ file[f].peer # q
    PROVE  Readable(q)' = Readable(q) /\ Writable(q)' = Writable(q)
<1>1. file \in [Files -> OpenFiles \cup {None}]
    BY DEF Inv, TypeOK, DescTypeOK
<1>2. file'[q] = file[q] /\ file'[f] = new /\ \A p \in Files \ {f} : file'[p] = file[p]
    BY <1>1
<1>3. Readable(q)' = Readable(q)
    BY <1>2 DEF Readable
<1>4. CASE file[q].peer # None
    <2>1. file[q].peer \in Files /\ (file[q].peer = f => file[f].peer = q)
        BY <1>4 DEF Inv, PeersOK
    <2>2. file'[file[q].peer].in = file[file[q].peer].in
        BY <2>1, <1>2
    <2>3. QED
        BY <2>2, <1>2, <1>3 DEF Writable
<1>5. CASE file[q].peer = None
    BY <1>5, <1>2, <1>3 DEF Writable
<1>6. QED
    BY <1>4, <1>5

\* The application is told of what has become readable or writable.
LEMMA ToldStep ==
    ASSUME Inv, StaysOpen,
           events \subseteq events' \/ \E fd \in Fds :
               events' = events \ {fd} /\ (fd \in registered => ~Readable(table[fd])'),
           \A q \in Files : file[q] # None =>
               file'[q].kind = file[q].kind /\ ReadCalm(q) /\ WriteCalm(q)
    PROVE  ReadTold' /\ WriteTold'
<1> USE DEF StaysOpen
<1>1. \A fd \in registered :
         /\ fd \in Fds /\ table[fd] \in Files /\ file[table[fd]] # None
         /\ <<fd, table[fd]>> \in RegsOf(table[fd])
    BY Opened DEF Inv, RegisteredOK, OwnersOK, TypeOK, RegsOf
<1>2. ASSUME NEW fd \in registered, file'[table[fd]].kind # "Sender", Readable(table[fd])'
      PROVE  fd \in events' \/ <<fd, table[fd]>> \in listed'
    <2>1. \/ file[table[fd]].kind # "Sender" /\ Readable(table[fd])
          \/ <<fd, table[fd]>> \in listed'
        BY <1>1, <1>2 DEF ReadCalm
    <2>2. fd \in events \/ <<fd, table[fd]>> \in listed'
        BY <2>1 DEF Inv, ReadTold
    <2>3. QED
        BY <2>2, <1>2
<1>3. ASSUME NEW fd \in registered \cap full, Writable(table[fd])'
      PROVE  <<fd, table[fd]>> \in listed'
    <2>1. file[table[fd]].kind \in Buffered
        BY DEF Inv, FullOK
    <2>2. Writable(table[fd]) \/ <<fd, table[fd]>> \in listed'
        BY <2>1, <1>1, <1>3 DEF WriteCalm
    <2>3. QED
        BY <2>2 DEF Inv, WriteTold
<1>4. ReadTold'
    BY <1>2 DEF ReadTold
<1>5. QED
    BY <1>3, <1>4 DEF WriteTold

\* A step that changes the contents of one open file and tells its registrations.
LEMMA ContentStep ==
    ASSUME Inv, StaysOpen,
           NEW f \in Files, file[f] # None, NEW new, Alike(f, new),
           file' = [file EXCEPT ![f] = new],
           ReadCalm(f), WriteCalm(f),
           new.in # file[f].in /\ file[f].peer # None => WriteCalm(file[f].peer),
           events' = events \/ \E fd \in Fds :
               events' = events \ {fd} /\ (fd \in registered => ~Readable(table[fd])')
    PROVE  Inv'
<1>1. events' \subseteq Fds
    BY DEF Inv, TypeOK
<1>2. /\ TypeOK' /\ FilesOK' /\ PeersOK' /\ OwnersOK' /\ LeftOK' /\ SharedOK'
      /\ RegisteredOK' /\ FullOK' /\ DropDeregisters' /\ NeverStuck'
    BY <1>1, ContentStructure
<1>3. ASSUME NEW q \in Files, file[q] # None
      PROVE  file'[q].kind = file[q].kind /\ ReadCalm(q) /\ WriteCalm(q)
    <2>1. file'[q].kind = file[q].kind
        BY <1>3 DEF Alike, Inv, TypeOK, DescTypeOK
    <2>2. CASE q = f
        BY <2>1, <2>2
    <2>3. CASE q # f /\ (new.in = file[f].in \/ file[f].peer # q)
        BY <2>1, <2>3, <1>3, OthersSame DEF ReadCalm, WriteCalm
    <2>4. CASE q # f /\ new.in # file[f].in /\ file[f].peer = q
        <3>1. q # None
            BY DescriptorsAssumption DEF Files
        <3>2. Readable(q)' = Readable(q)
            BY <2>4 DEF Readable, Inv, TypeOK, DescTypeOK
        <3>3. QED
            BY <2>1, <2>4, <3>1, <3>2 DEF ReadCalm
    <2>5. QED
        BY <2>2, <2>3, <2>4
<1>4. ReadTold' /\ WriteTold'
    BY <1>3, ToldStep
<1>5. QED
    BY <1>2, <1>4 DEF Inv

\* Traffic stays within its bound.
LEMMA TrafficType ==
    ASSUME traffic \in 0..MaxTraffic, Traffic \/ UNCHANGED traffic
    PROVE  traffic' \in 0..MaxTraffic
BY SocketsAssumption DEF Traffic

\* Everything registered for f is woken by what concerns it.
LEMMA WakesAll ==
    ASSUME NEW f, NEW c, c = "error" \/ c \in InterestsOf(file[f].kind)
    PROVE  Woken(f, c) = RegsOf(f)
BY DEF Woken, RegsOf

\* Something happens to an open file, and its registrations are told; or it is
\* something they would not wait for.
LEMMA HappensStep ==
    ASSUME Inv, NEW f \in Files, file[f] # None, NEW new, Alike(f, new), NEW c,
           Happens(f, new, c), traffic' \in 0..MaxTraffic,
           new.in # file[f].in => file[f].peer = None,
           \/ c = "error" \/ c \in InterestsOf(file[f].kind)
           \/ /\ file[f].kind \notin Buffered
              /\ new.in = file[f].in /\ new.end = file[f].end /\ new.err = file[f].err
    PROVE  Inv'
<1>1. StaysOpen
    BY DEF Happens, StaysOpen, Woken, Inv, TypeOK, DescTypeOK, appVars
<1>2. file' = [file EXCEPT ![f] = new] /\ events' = events /\ listed' = listed \cup Woken(f, c)
    BY DEF Happens, appVars
<1>3. ReadCalm(f) /\ WriteCalm(f)
    <2>1. CASE c = "error" \/ c \in InterestsOf(file[f].kind)
        BY <2>1, <1>2, WakesAll DEF ReadCalm, WriteCalm
    <2>2. CASE /\ file[f].kind \notin Buffered
               /\ new.in = file[f].in /\ new.end = file[f].end /\ new.err = file[f].err
        <3>1. file'[f] = new
            BY <1>2 DEF Inv, TypeOK, DescTypeOK
        <3>2. Readable(f)' = Readable(f)
            BY <2>2, <3>1 DEF Readable
        <3>3. QED
            BY <2>2, <3>2 DEF ReadCalm, WriteCalm
    <2>3. QED
        BY <2>1, <2>2
<1>4. QED
    BY <1>1, <1>2, <1>3, ContentStep

\* Only an end of a pipe has a peer.
LEMMA NoPeer ==
    ASSUME Inv, NEW f \in Files, file[f] # None, file[f].kind \notin {"Receiver", "Sender"}
    PROVE  file[f].peer = None
BY DEF Inv, PeersOK

\* What the surroundings do keeps the invariant.
LEMMA SurroundingsStep ==
    ASSUME Inv, NEW f \in Files, Surroundings(f)
    PROVE  Inv'
<1>1. /\ file \in [Files -> OpenFiles \cup {None}] /\ traffic \in 0..MaxTraffic
      /\ file[f] # None => file[f] \in OpenFiles
    BY DEF Inv, TypeOK, DescTypeOK
<1>2. ASSUME Resolve(f) PROVE Inv'
    <2>1. file[f] # None /\ file[f].conn = "pending" /\ traffic' \in 0..MaxTraffic
        BY <1>1, <1>2 DEF Resolve
    <2>2. file[f].kind = "TcpStream"
        BY <2>1 DEF Inv, FilesOK
    <2>3. CASE Happens(f, [file[f] EXCEPT !.conn = "made"], "writable")
        <3>1. Alike(f, [file[f] EXCEPT !.conn = "made"])
            BY <1>1, <2>1 DEF Alike, OpenFiles
        <3>2. "writable" \in InterestsOf(file[f].kind)
            BY <2>2 DEF InterestsOf
        <3>3. QED
            BY <1>1, <2>1, <2>3, <3>1, <3>2, HappensStep DEF OpenFiles
    <2>4. CASE Happens(f, [file[f] EXCEPT !.conn = "no", !.err = TRUE, !.end = "sent"], "error")
        <3>1. Alike(f, [file[f] EXCEPT !.conn = "no", !.err = TRUE, !.end = "sent"])
            BY <1>1, <2>1, <2>2 DEF Alike, OpenFiles
        <3>2. QED
            BY <1>1, <2>1, <2>4, <3>1, HappensStep DEF OpenFiles
    <2>5. QED
        BY <1>2, <2>3, <2>4 DEF Resolve
<1>3. ASSUME Arrive(f) PROVE Inv'
    <2>1. /\ file[f] # None /\ file[f].kind \in {"TcpListener", "TcpStream", "UdpSocket"}
          /\ file[f].conn = "made" /\ traffic' \in 0..MaxTraffic
          /\ Happens(f, [file[f] EXCEPT !.in = @ + 1], "readable")
        BY <1>1, <1>3, TrafficType DEF Arrive
    <2>2. file[f].peer = None /\ "readable" \in InterestsOf(file[f].kind)
        BY <2>1, NoPeer DEF InterestsOf
    <2>3. Alike(f, [file[f] EXCEPT !.in = @ + 1])
        BY <1>1, <1>3, <2>1, DescriptorsAssumption DEF Alike, OpenFiles, Arrive
    <2>4. QED
        BY <2>1, <2>2, <2>3, HappensStep
<1>4. ASSUME PeerCloses(f) PROVE Inv'
    <2>1. /\ file[f] # None /\ file[f].kind = "TcpStream" /\ traffic' \in 0..MaxTraffic
          /\ Happens(f, [file[f] EXCEPT !.end = "sent"], "error")
        BY <1>1, <1>4, TrafficType DEF PeerCloses
    <2>2. Alike(f, [file[f] EXCEPT !.end = "sent"])
        BY <1>1, <2>1 DEF Alike, OpenFiles
    <2>3. QED
        BY <1>1, <2>1, <2>2, HappensStep DEF OpenFiles
<1>5. ASSUME PeerTakes(f) PROVE Inv'
    <2>1. /\ file[f] # None /\ file[f].out > 0 /\ traffic' \in 0..MaxTraffic
          /\ Happens(f, [file[f] EXCEPT !.out = @ - 1], "writable")
        BY <1>1, <1>5 DEF PeerTakes
    <2>2. Alike(f, [file[f] EXCEPT !.out = @ - 1])
        BY <1>1, <2>1, DescriptorsAssumption DEF Alike, OpenFiles
    <2>3. \/ "writable" \in InterestsOf(file[f].kind)
          \/ file[f].kind \notin Buffered
        BY DEF InterestsOf, Buffered
    <2>4. QED
        BY <1>1, <2>1, <2>2, <2>3, HappensStep DEF OpenFiles
<1>6. QED
    BY <1>2, <1>3, <1>4, <1>5 DEF Surroundings

-----------------------------------------------------------------------------
(* Operations on handles.                                                  *)

\* An event is handled when nothing is left to read.
LEMMA EventsStep ==
    ASSUME Inv, NEW fd \in Fds, events' = events \ {fd},
           fd \in registered => ~Readable(table[fd]) \/ file[table[fd]].kind = "Sender",
           UNCHANGED <<descVars, owner, full, registered, stuck, calls, traffic>>
    PROVE  Inv'
<1> USE DEF descVars
<1>1. TypeOK'
    BY DEF Inv, TypeOK, DescTypeOK
<1>2. /\ FilesOK' /\ PeersOK' /\ OwnersOK' /\ LeftOK' /\ SharedOK'
      /\ RegisteredOK' /\ FullOK' /\ DropDeregisters' /\ NeverStuck'
    BY DEF Inv, FilesOK, PeersOK, OwnersOK, LeftOK, SharedOK, RegisteredOK, FullOK,
           DropDeregisters, NeverStuck
<1>3. ReadTold' /\ WriteTold'
    BY DEF Inv, ReadTold, WriteTold, Readable, Writable
<1>4. QED
    BY <1>1, <1>2, <1>3 DEF Inv

\* What an operation on an owned descriptor finds.
LEMMA OwnedOpen ==
    ASSUME Inv, NEW fd \in Fds, owner[fd] # None
    PROVE  /\ table[fd] \in Files /\ file[table[fd]] # None /\ file[table[fd]] \in OpenFiles
           /\ file[table[fd]].nonblock /\ owner[fd] \in {"raw", file[table[fd]].kind}
BY Opened DEF Inv, OwnersOK

\* WouldBlock never blocks a thread, and is only returned when it must be.
LEMMA WouldBlockStep ==
    ASSUME Inv, NEW fd \in Fds, owner[fd] # None, ~Readable(table[fd]), WouldBlock(fd)
    PROVE  Inv'
<1>1. file[table[fd]].nonblock
    BY OwnedOpen
<1>2. QED
    BY <1>1, EventsStep DEF WouldBlock

\* Nor does a write, which only returns WouldBlock when there is no room.
LEMMA WriteWouldBlockStep ==
    ASSUME Inv, NEW fd \in Fds, owner[fd] \in Buffered, WriteWouldBlock(fd)
    PROVE  Inv'
<1>1. owner[fd] # None /\ "raw" \notin Buffered
    BY DescriptorsAssumption DEF Kinds, Buffered
<1>2. /\ ~Writable(table[fd]) /\ full' = full \cup {fd} /\ UNCHANGED stuck
      /\ UNCHANGED <<descVars, owner, events, registered, calls, traffic>>
      /\ file[table[fd]].kind \in Buffered
    BY <1>1, OwnedOpen DEF WriteWouldBlock
<1> USE DEF descVars
<1>3. TypeOK'
    BY <1>2 DEF Inv, TypeOK, DescTypeOK
<1>4. /\ FilesOK' /\ PeersOK' /\ OwnersOK' /\ LeftOK' /\ SharedOK'
      /\ RegisteredOK' /\ DropDeregisters' /\ NeverStuck'
    BY <1>2 DEF Inv, FilesOK, PeersOK, OwnersOK, LeftOK, SharedOK, RegisteredOK,
                DropDeregisters, NeverStuck
<1>5. FullOK'
    BY <1>1, <1>2 DEF Inv, FullOK
<1>6. ReadTold' /\ WriteTold'
    BY <1>2 DEF Inv, ReadTold, WriteTold, Readable, Writable
<1>7. QED
    BY <1>3, <1>4, <1>5, <1>6 DEF Inv

\* The step of a call that changes the contents of an open file and lists `woken`.
LEMMA CallStays ==
    ASSUME Inv, UNCHANGED <<table, regs, owner, full, registered, stuck, calls>>,
           Traffic \/ UNCHANGED traffic, listed \subseteq listed', listed' \subseteq regs
    PROVE  StaysOpen
BY TrafficType DEF StaysOpen, Inv, TypeOK

\* The error of a socket is returned.
LEMMA ErrorTakenStep ==
    ASSUME Inv, NEW fd \in Fds, owner[fd] # None, ErrorTaken(fd)
    PROVE  Inv'
<1>1. PICK f \in Files :
          f = table[fd] /\ file[f] # None /\ file[f] \in OpenFiles /\ file[f].err
    BY OwnedOpen DEF ErrorTaken
<1> DEFINE new == [file[f] EXCEPT !.err = FALSE]
<1>2. /\ file' = [file EXCEPT ![f] = new] /\ events' = events
      /\ UNCHANGED <<table, regs, listed, owner, full, registered, stuck, calls, traffic>>
    BY <1>1 DEF ErrorTaken, appVars
<1>3. Alike(f, new)
    BY <1>1 DEF Alike, OpenFiles, Inv, FilesOK
<1>4. StaysOpen
    BY <1>2, CallStays DEF Inv, TypeOK, DescTypeOK
<1>5. file'[f] = new /\ \A q \in Files \ {f} : file'[q] = file[q]
    BY <1>1, <1>2 DEF Inv, TypeOK, DescTypeOK
<1>6. ReadCalm(f)
    BY <1>1 DEF ReadCalm, Readable
<1>7. WriteCalm(f)
    <2>1. CASE file[f].kind # "Sender"
        BY <2>1, <1>1 DEF WriteCalm, Writable
    <2>2. CASE file[f].kind = "Sender"
        <3>1. new.peer = file[f].peer /\ new.kind = "Sender"
            BY <1>1, <2>2 DEF OpenFiles
        <3>2. file[f].peer # None =>
                 file[f].peer \in Files \ {f}
            BY <1>1, <2>2 DEF Inv, PeersOK
        <3>3. QED
            BY <3>1, <3>2, <2>2, <1>5 DEF WriteCalm, Writable
    <2>3. QED
        BY <2>1, <2>2
<1> HIDE DEF new
<1>8. new.in = file[f].in
    BY <1>1 DEF new, OpenFiles
<1>9. QED
    BY <1>1, <1>2, <1>3, <1>4, <1>6, <1>7, <1>8, ContentStep

\* A handle is of the type of its open file.
LEMMA OwnedKind ==
    ASSUME Inv, NEW fd \in Fds, owner[fd] \in Kinds
    PROVE  owner[fd] # None /\ file[table[fd]].kind = owner[fd]
<1>1. owner[fd] # None /\ "raw" \notin Kinds
    BY DescriptorsAssumption DEF Kinds
<1>2. QED
    BY <1>1, OwnedOpen

\* write of a stream or a socket.
LEMMA WriteStep ==
    ASSUME Inv, NEW fd \in Fds, Write(fd)
    PROVE  Inv'
<1>1. owner[fd] \in {"TcpStream", "UdpSocket"} /\ owner[fd] \in Kinds /\ owner[fd] \in Buffered
    BY DEF Write, Writes, Owned, Kinds, Buffered
<1>2. owner[fd] # None /\ file[table[fd]].kind = owner[fd]
    BY <1>1, OwnedKind
<1>3. CASE ErrorTaken(fd)
    BY <1>2, <1>3, ErrorTakenStep
<1>4. CASE WriteWouldBlock(fd)
    BY <1>1, <1>4, WriteWouldBlockStep
<1>5. CASE /\ ~file[table[fd]].err /\ Writable(table[fd]) /\ Traffic
           /\ file' = [file EXCEPT ![table[fd]].out = @ + 1]
           /\ UNCHANGED <<table, regs, listed, appVars, calls>>
    <2>1. PICK f \in Files :
              f = table[fd] /\ file[f] # None /\ file[f] \in OpenFiles
        BY <1>2, OwnedOpen
    <2> DEFINE new == [file[f] EXCEPT !.out = @ + 1]
    <2>2. /\ file' = [file EXCEPT ![f] = new] /\ events' = events
          /\ UNCHANGED <<table, regs, listed, owner, full, registered, stuck, calls>>
        BY <1>5, <2>1 DEF appVars
    <2>3. Alike(f, new)
        <3>1. file[f].kind # "Sender" /\ ~file[f].err /\ Writable(f)
            BY <1>1, <1>2, <1>5, <2>1
        <3>2. file[f].out < Room
            BY <3>1 DEF Writable
        <3>3. new.out \in 0..Room
            BY <3>2, <2>1, DescriptorsAssumption DEF OpenFiles
        <3>4. QED
            BY <3>3, <2>1 DEF Alike, OpenFiles
    <2>4. StaysOpen
        BY <1>5, <2>2, CallStays DEF Inv, TypeOK, DescTypeOK
    <2>5. file'[f] = new
        BY <2>1, <2>2 DEF Inv, TypeOK, DescTypeOK
    <2>6. new.in = file[f].in /\ new.end = file[f].end /\ new.err = file[f].err
        BY <2>1 DEF OpenFiles
    <2>7. ReadCalm(f) /\ WriteCalm(f)
        BY <1>5, <2>1, <2>5, <2>6 DEF ReadCalm, WriteCalm, Readable
    <2> HIDE DEF new
    <2>8. QED
        BY <2>1, <2>2, <2>3, <2>4, <2>6, <2>7, ContentStep
<1>6. QED
    BY <1>3, <1>4, <1>5 DEF Write

\* write of a pipe.
LEMMA PipeWriteStep ==
    ASSUME Inv, NEW fd \in Fds, PipeWrite(fd)
    PROVE  Inv'
<1>1. owner[fd] = "Sender" /\ owner[fd] \in Kinds /\ owner[fd] \in Buffered
    BY DEF PipeWrite, Writes, Owned, Kinds, Buffered
<1>2. owner[fd] # None /\ file[table[fd]].kind = "Sender"
    BY <1>1, OwnedKind
<1>3. CASE WriteWouldBlock(fd)
    BY <1>1, <1>3, WriteWouldBlockStep
<1>4. CASE LET p == file[table[fd]].peer
           IN  /\ p # None /\ Writable(table[fd]) /\ Traffic
               /\ file' = [file EXCEPT ![p].in = @ + 1]
               /\ listed' = listed \cup Woken(p, "readable")
               /\ UNCHANGED <<table, regs, appVars, calls>>
    <2>1. PICK s \in Files :
              s = table[fd] /\ file[s] # None /\ file[s] \in OpenFiles
        BY <1>2, OwnedOpen
    <2>2. PICK p \in Files :
              /\ p = file[s].peer /\ file[p] # None /\ file[p].peer = s
              /\ file[p].conn = "made" /\ file[p].kind = "Receiver"
        BY <1>2, <1>4, <2>1 DEF Inv, PeersOK, OwnersOK
    <2> DEFINE new == [file[p] EXCEPT !.in = @ + 1]
    <2>3. /\ file' = [file EXCEPT ![p] = new] /\ events' = events
          /\ listed' = listed \cup Woken(p, "readable")
          /\ UNCHANGED <<table, regs, owner, full, registered, stuck, calls>>
        BY <1>4, <2>1, <2>2 DEF appVars
    <2>4. file[p] \in OpenFiles /\ p # None
        BY <2>2, DescriptorsAssumption DEF Inv, TypeOK, DescTypeOK, Files
    <2>5. file[p].in < Room
        BY <1>2, <1>4, <2>1, <2>2, <2>4 DEF Writable
    <2>6. Alike(p, new)
        BY <2>2, <2>4, <2>5, DescriptorsAssumption DEF Alike, OpenFiles
    <2>7. RegsOf(p) \subseteq listed'
        BY <2>2, <2>3, WakesAll DEF InterestsOf
    <2>8. StaysOpen
        BY <1>4, <2>3, CallStays DEF Inv, TypeOK, DescTypeOK, Woken
    <2>9. ReadCalm(p) /\ WriteCalm(p) /\ WriteCalm(s)
        BY <1>4, <2>1, <2>7 DEF ReadCalm, WriteCalm
    <2> HIDE DEF new
    <2>10. QED
        BY <2>2, <2>3, <2>6, <2>8, <2>9, ContentStep
<1>5. QED
    BY <1>3, <1>4 DEF PipeWrite

\* shutdown of a stream.
LEMMA ShutdownStep ==
    ASSUME Inv, NEW fd \in Fds, NEW how, Shutdown(fd, how)
    PROVE  Inv'
<1>1. owner[fd] = "TcpStream" /\ owner[fd] \in Kinds
    BY DEF Shutdown, Owned, Kinds
<1>2. PICK f \in Files :
          /\ f = table[fd] /\ file[f] # None /\ file[f] \in OpenFiles
          /\ file[f].kind = "TcpStream"
    BY <1>1, OwnedKind, OwnedOpen
<1> DEFINE new == [file[f] EXCEPT !.shut = @ \/ how # "Read",
                                  !.end = IF how # "Write" /\ @ = "no" THEN "sent" ELSE @]
<1>3. file' = [file EXCEPT ![f] = new]
    BY <1>2 DEF Shutdown, Inv, TypeOK, DescTypeOK
<1>4. /\ events' = events /\ Traffic
      /\ listed' = IF how = "Write" THEN listed ELSE listed \cup Woken(f, "error")
      /\ UNCHANGED <<table, regs, owner, full, registered, stuck, calls>>
    BY <1>2 DEF Shutdown, appVars
<1>5. Alike(f, new)
    BY <1>2 DEF Alike, OpenFiles
<1>6. StaysOpen
    BY <1>4, CallStays DEF Inv, TypeOK, DescTypeOK, Woken
<1>7. file'[f] = new
    BY <1>2, <1>3 DEF Inv, TypeOK, DescTypeOK
<1>8. /\ new.in = file[f].in /\ new.err = file[f].err /\ new.out = file[f].out
      /\ new.conn = file[f].conn /\ new.kind = "TcpStream"
      /\ how = "Write" => new.end = file[f].end
    BY <1>2 DEF OpenFiles
<1> HIDE DEF new
<1>9. ReadCalm(f)
    <2>1. CASE how = "Write"
        BY <2>1, <1>7, <1>8 DEF ReadCalm, Readable
    <2>2. CASE how # "Write"
        BY <2>2, <1>4, WakesAll DEF ReadCalm
    <2>3. QED
        BY <2>1, <2>2
<1>10. WriteCalm(f)
    BY <1>2, <1>7, <1>8 DEF WriteCalm, Writable
<1>11. QED
    BY <1>2, <1>3, <1>4, <1>5, <1>6, <1>8, <1>9, <1>10, ContentStep

\* Sending keeps the invariant.
LEMMA SendStep ==
    ASSUME Inv, NEW fd \in Fds, Send(fd)
    PROVE  Inv'
BY WriteStep, PipeWriteStep, ShutdownStep DEF Send

\* One connection, or some data, is taken; the sender of a pipe is told of room.
LEMMA TakenStep ==
    ASSUME Inv, NEW f \in Files, file[f] # None, file[f].in > 0, file' = Taken(f),
           file[f].kind \notin {"Sender"},
           UNCHANGED <<table, regs, appVars, calls, traffic>>,
           listed' = IF file[f].peer # None /\ file[f].in = Room
                     THEN listed \cup Woken(file[f].peer, "writable")
                     ELSE listed
    PROVE  Inv'
<1> DEFINE new == [file[f] EXCEPT !.in = @ - 1]
<1>1. file' = [file EXCEPT ![f] = new] /\ events' = events /\ file[f] \in OpenFiles
    BY DEF Taken, appVars, Inv, TypeOK, DescTypeOK
<1>2. Alike(f, new)
    BY <1>1, DescriptorsAssumption DEF Alike, OpenFiles
<1>3. StaysOpen
    BY CallStays DEF Inv, TypeOK, DescTypeOK, Woken, appVars
<1>4. file'[f] = new /\ \A q \in Files \ {f} : file'[q] = file[q]
    BY <1>1 DEF Inv, TypeOK, DescTypeOK
<1>5. /\ new.kind = file[f].kind /\ new.err = file[f].err /\ new.conn = file[f].conn
      /\ new.out = file[f].out /\ new.peer = file[f].peer
    BY <1>1 DEF OpenFiles
<1>6. ReadCalm(f)
    BY DEF ReadCalm, Readable
<1>7. WriteCalm(f)
    BY <1>4, <1>5 DEF WriteCalm, Writable
<1>8. ASSUME file[f].peer # None PROVE WriteCalm(file[f].peer)
    <2>1. PICK p \in Files :
              p = file[f].peer /\ file[p] # None /\ file[p].peer = f /\ file[p].kind = "Sender"
        BY <1>8 DEF Inv, PeersOK
    <2>2. CASE file[f].in = Room
        <3>1. RegsOf(p) \subseteq listed'
            BY <2>1, <2>2, <1>8, WakesAll DEF InterestsOf
        <3>2. WriteCalm(p)
            BY <3>1 DEF WriteCalm
        <3>3. QED
            BY <3>2, <2>1
    <2>3. CASE file[f].in # Room
        <3>1. file[f].in < Room
            BY <2>3, <1>1, DescriptorsAssumption DEF OpenFiles
        <3>2. Writable(p)
            BY <3>1, <2>1 DEF Writable
        <3>3. WriteCalm(p)
            BY <3>2 DEF WriteCalm
        <3>4. QED
            BY <3>3, <2>1
    <2>4. QED
        BY <2>2, <2>3
<1> HIDE DEF new
<1>9. QED
    BY <1>1, <1>2, <1>3, <1>6, <1>7, <1>8, ContentStep

\* read of a stream, a socket or a pipe.
LEMMA ReadStep ==
    ASSUME Inv, NEW fd \in Fds, Read(fd)
    PROVE  Inv'
<1>1. owner[fd] \in {"TcpStream", "UdpSocket", "Receiver"} /\ owner[fd] \in Kinds
    BY DEF Read, Handles, Owned, Kinds
<1>2. PICK f \in Files :
          /\ f = table[fd] /\ file[f] # None /\ file[f] \in OpenFiles
          /\ file[f].kind = owner[fd]
    BY <1>1, OwnedKind, OwnedOpen
<1>3. owner[fd] # None
    BY <1>1, OwnedKind
<1>4. CASE ErrorTaken(fd)
    BY <1>3, <1>4, ErrorTakenStep
<1>5. CASE /\ ~file[f].err /\ file[f].in > 0 /\ file' = Taken(f)
           /\ listed' = IF file[f].peer # None /\ file[f].in = Room
                        THEN listed \cup Woken(file[f].peer, "writable") ELSE listed
           /\ UNCHANGED <<table, regs, appVars, calls, traffic>>
    BY <1>1, <1>2, <1>5, TakenStep
<1>6. CASE /\ ~file[f].err /\ file[f].in = 0 /\ file[f].end # "no"
           /\ file' = [file EXCEPT ![f].end = "seen"] /\ events' = events \ {fd}
           /\ UNCHANGED <<table, regs, listed, owner, full, registered, stuck, calls, traffic>>
    <2> DEFINE new == [file[f] EXCEPT !.end = "seen"]
    <2>1. file' = [file EXCEPT ![f] = new]
        BY <1>6
    <2>2. Alike(f, new)
        BY <1>1, <1>2 DEF Alike, OpenFiles
    <2>3. StaysOpen
        BY <1>6, CallStays DEF Inv, TypeOK, DescTypeOK
    <2>4. file'[f] = new
        BY <2>1, <1>2 DEF Inv, TypeOK, DescTypeOK
    <2>5. /\ new.in = file[f].in /\ new.end = "seen" /\ new.err = file[f].err
          /\ new.kind = file[f].kind /\ new.conn = file[f].conn /\ new.out = file[f].out
        BY <1>2 DEF OpenFiles
    <2> HIDE DEF new
    <2>6. ~Readable(f)'
        BY <1>6, <2>4, <2>5 DEF Readable
    <2>7. ReadCalm(f)
        BY <2>6 DEF ReadCalm
    <2>8. WriteCalm(f)
        BY <1>1, <1>2, <2>4, <2>5 DEF WriteCalm, Writable
    <2>9. ~Readable(table[fd])'
        BY <1>2, <1>6, <2>6
    <2>10. QED
        BY <1>2, <1>6, <2>1, <2>2, <2>3, <2>5, <2>7, <2>8, <2>9, ContentStep
<1>7. CASE ~file[f].err /\ file[f].in = 0 /\ file[f].end = "no" /\ WouldBlock(fd)
    <2>1. ~Readable(table[fd])
        BY <1>2, <1>7 DEF Readable
    <2>2. QED
        BY <2>1, <1>3, <1>7, WouldBlockStep
<1>8. QED
    BY <1>2, <1>4, <1>5, <1>6, <1>7 DEF Read

\* A step that changes nothing.
LEMMA Stuttering ==
    ASSUME Inv, UNCHANGED vars
    PROVE  Inv'
BY DEF vars, descVars, appVars, Inv, TypeOK, DescTypeOK, FilesOK, PeersOK, OwnersOK, LeftOK,
       SharedOK, RegisteredOK, FullOK, DropDeregisters, ReadTold, WriteTold, NeverStuck,
       Readable, Writable

\* peek and take_error keep the invariant.
LEMMA LookStep ==
    ASSUME Inv, NEW fd \in Fds, Look(fd)
    PROVE  Inv'
<1>1. owner[fd] \in Kinds
    BY DEF Look, Peek, TakeError, Handles, Owned, Kinds
<1>2. owner[fd] # None
    BY <1>1, OwnedKind
<1>3. CASE ErrorTaken(fd)
    BY <1>2, <1>3, ErrorTakenStep
<1>4. CASE ~Readable(table[fd]) /\ WouldBlock(fd)
    BY <1>2, <1>4, WouldBlockStep
<1>5. CASE UNCHANGED vars
    BY <1>5, Stuttering
<1>6. \/ ErrorTaken(fd)
      \/ ~Readable(table[fd]) /\ WouldBlock(fd)
      \/ UNCHANGED vars
    BY Zenon DEF Look, Peek, TakeError
<1>7. QED
    BY <1>3, <1>4, <1>5, <1>6

\* An event there is nothing to call for is dropped: nobody waits for it.
LEMMA IgnoreStep ==
    ASSUME Inv, NEW fd \in Fds, Ignore(fd)
    PROVE  Inv'
<1>1. ASSUME fd \in registered PROVE file[table[fd]].kind = "Sender"
    <2>1. owner[fd] # None /\ file[table[fd]].kind # "Awakener"
        BY <1>1 DEF Inv, RegisteredOK
    <2>2. owner[fd] \in {"Sender", "Awakener"} /\ owner[fd] \in Kinds
        BY <2>1 DEF Ignore, Kinds
    <2>3. QED
        BY <2>1, <2>2, OwnedKind
<1>2. QED
    BY <1>1, EventsStep DEF Ignore

-----------------------------------------------------------------------------
(* Polls and registrations.                                                *)

\* epoll reports what the application has to be told.
LEMMA ReadyEnough ==
    ASSUME NEW f \in Files, file[f] \in OpenFiles
    PROVE  /\ file[f].kind # "Sender" /\ Readable(f) => Ready(f)
           /\ file[f].kind \in Buffered /\ Writable(f) => Ready(f)
<1>1. file[f].kind \in Kinds
    BY DEF OpenFiles
<1>2. file[f].kind # "Sender" => "readable" \in InterestsOf(file[f].kind)
    BY <1>1 DEF InterestsOf, Kinds
<1>3. file[f].kind \in Buffered => "writable" \in InterestsOf(file[f].kind)
    BY DEF InterestsOf, Buffered
<1>4. QED
    BY <1>2, <1>3 DEF Ready

\* What a poll takes off the ready list it returns, if the application has to be
\* told.
LEMMA PollStep ==
    ASSUME Inv, NEW r \in listed, Poll(r)
    PROVE  Inv'
<1>1. /\ listed' = listed \ {r}
      /\ UNCHANGED <<table, file, regs, owner, registered, stuck, calls, traffic>>
      /\ \/ Ready(r[2]) /\ events' = events \cup {r[1]} /\ full' = full \ {r[1]}
         \/ ~Ready(r[2]) /\ events' = events /\ full' = full
    BY DEF Poll
<1>2. r[1] \in Fds /\ r[2] \in Files
    BY DEF Inv, TypeOK, DescTypeOK
<1>3. TypeOK'
    BY <1>1, <1>2 DEF Inv, TypeOK, DescTypeOK
<1>4. /\ FilesOK' /\ PeersOK' /\ OwnersOK' /\ LeftOK' /\ SharedOK'
      /\ RegisteredOK' /\ FullOK' /\ DropDeregisters' /\ NeverStuck'
    BY <1>1 DEF Inv, FilesOK, PeersOK, OwnersOK, LeftOK, SharedOK, RegisteredOK, FullOK,
                DropDeregisters, NeverStuck
<1>5. \A q \in Files : Readable(q)' = Readable(q) /\ Writable(q)' = Writable(q)
    BY <1>1 DEF Readable, Writable
<1>6. ASSUME NEW fd \in registered, <<fd, table[fd]>> = r
      PROVE  /\ fd = r[1] /\ table[fd] = r[2] /\ r[2] \in Files
             /\ file[r[2]].kind # "Sender" /\ Readable(r[2]) => Ready(r[2])
             /\ fd \in full /\ Writable(r[2]) => Ready(r[2])
    <2>1. fd = r[1] /\ table[fd] = r[2] /\ file[r[2]] \in OpenFiles
        BY <1>6, <1>2, Opened, DescriptorsAssumption DEF Inv, TypeOK, RegisteredOK, OwnersOK
    <2>2. fd \in full => file[r[2]].kind \in Buffered
        BY <2>1 DEF Inv, FullOK
    <2>3. QED
        BY <2>1, <2>2, <1>2, ReadyEnough
<1>7. \A fd \in registered : table[fd] \in Files
    BY Opened DEF Inv, TypeOK, RegisteredOK, OwnersOK
<1>8. ReadTold'
    <2> SUFFICES ASSUME NEW fd \in registered, file[table[fd]].kind # "Sender",
                        Readable(table[fd])
                 PROVE  fd \in events' \/ <<fd, table[fd]>> \in listed'
        BY <1>1, <1>5, <1>7 DEF ReadTold
    <2>1. fd \in events \/ <<fd, table[fd]>> \in listed
        BY DEF Inv, ReadTold
    <2>2. QED
        BY <2>1, <1>1, <1>6
<1>9. WriteTold'
    <2> SUFFICES ASSUME NEW fd \in registered \cap full', Writable(table[fd])
                 PROVE  <<fd, table[fd]>> \in listed'
        BY <1>1, <1>5, <1>7 DEF WriteTold
    <2>1. fd \in full /\ <<fd, table[fd]>> \in listed
        BY <1>1 DEF Inv, WriteTold
    <2>2. QED
        BY <2>1, <1>1, <1>6
<1>10. QED
    BY <1>3, <1>4, <1>8, <1>9 DEF Inv

\* Registering, or registering again, tells of what is there already; and no
\* registration but the handle's own is touched.
LEMMA CtlStep ==
    ASSUME Inv, NEW fd \in Fds, Owned(fd, Evented), NEW op \in {"add", "mod", "del"},
           Ctl(fd, op),
           registered' = IF op = "del" THEN registered \ {fd} ELSE registered \cup {fd},
           UNCHANGED <<owner, events, full, stuck, calls, traffic>>
    PROVE  Inv'
<1>1. owner[fd] # None /\ owner[fd] # "raw" /\ owner[fd] # "Awakener"
    BY DescriptorsAssumption DEF Owned, Evented, Kinds
<1>2. PICK f \in Files :
          /\ f = table[fd] /\ file[f] # None /\ file[f] \in OpenFiles
          /\ file[f].kind = owner[fd]
    BY <1>1, OwnedOpen
<1> DEFINE r == <<fd, f>>
<1>3. /\ regs' = IF op = "del" THEN regs \ {r} ELSE regs \cup {r}
      /\ listed' = IF op # "del" /\ Ready(f) THEN listed \cup {r} ELSE listed \ {r}
      /\ UNCHANGED <<table, file>>
    BY <1>2 DEF Ctl
<1>4. TypeOK'
    BY <1>2, <1>3 DEF Inv, TypeOK, DescTypeOK
<1>5. FilesOK' /\ PeersOK' /\ OwnersOK' /\ SharedOK' /\ FullOK' /\ NeverStuck'
    BY <1>3 DEF Inv, FilesOK, PeersOK, OwnersOK, SharedOK, FullOK, NeverStuck
<1>6. LeftOK'
    <2>1. ASSUME NEW g \in Fds, owner[g] = None, table[g] # None PROVE table[g] # f
        BY <2>1, <1>1, <1>2 DEF Inv, SharedOK
    <2>2. QED
        BY <2>1, <1>3 DEF Inv, LeftOK
<1>7. RegisteredOK'
    BY <1>1, <1>2, <1>3 DEF Inv, RegisteredOK
<1>8. DropDeregisters'
    BY <1>2, <1>3 DEF Inv, DropDeregisters
<1>9. \A q \in Files : Readable(q)' = Readable(q) /\ Writable(q)' = Writable(q)
    BY <1>3 DEF Readable, Writable
<1>10. \A g \in registered' : table[g] \in Files
    BY <1>2, Opened DEF Inv, TypeOK, RegisteredOK, OwnersOK
<1>11. ReadTold'
    <2> SUFFICES ASSUME NEW g \in registered', file[table[g]].kind # "Sender",
                        Readable(table[g])
                 PROVE  g \in events \/ <<g, table[g]>> \in listed'
        BY <1>3, <1>9, <1>10 DEF ReadTold
    <2>1. CASE g = fd
        BY <2>1, <1>2, <1>3, ReadyEnough
    <2>2. CASE g # fd
        BY <2>2, <1>3 DEF Inv, ReadTold
    <2>3. QED
        BY <2>1, <2>2
<1>12. WriteTold'
    <2> SUFFICES ASSUME NEW g \in registered' \cap full, Writable(table[g])
                 PROVE  <<g, table[g]>> \in listed'
        BY <1>3, <1>9, <1>10 DEF WriteTold
    <2>1. CASE g = fd
        <3>1. file[f].kind \in Buffered
            BY <2>1, <1>2 DEF Inv, FullOK
        <3>2. QED
            BY <3>1, <2>1, <1>2, <1>3, ReadyEnough
    <2>2. CASE g # fd
        BY <2>2, <1>3 DEF Inv, WriteTold
    <2>3. QED
        BY <2>1, <2>2
<1>13. QED
    BY <1>4, <1>5, <1>6, <1>7, <1>8, <1>11, <1>12 DEF Inv

\* A descriptor changes hands, and nothing else does.
LEMMA HandOver ==
    ASSUME Inv, NEW fd \in Fds, owner[fd] # None, NEW kind, Own(fd, kind),
           kind \in {"raw", file[table[fd]].kind},
           UNCHANGED <<descVars, events, full, registered, stuck, calls, traffic>>
    PROVE  Inv'
<1> USE DEF descVars
<1>1. file[table[fd]].kind \in Kinds
    BY OwnedOpen DEF OpenFiles
<1>2. kind # None /\ kind \in Kinds \cup {"raw", None}
    BY <1>1, DescriptorsAssumption
<1>3. /\ owner \in [Fds -> Kinds \cup {"raw", None}]
      /\ owner'[fd] = kind /\ \A g \in Fds \ {fd} : owner'[g] = owner[g]
    BY DEF Own, Inv, TypeOK
<1>4. \A g \in Fds : owner'[g] = None <=> owner[g] = None
    BY <1>2, <1>3
<1>5. TypeOK'
    BY <1>2 DEF Inv, TypeOK, DescTypeOK, Own
<1>6. OwnersOK'
    BY <1>3, <1>4 DEF Inv, OwnersOK
<1>7. FilesOK' /\ PeersOK' /\ DropDeregisters' /\ NeverStuck'
    BY DEF Inv, FilesOK, PeersOK, DropDeregisters, NeverStuck
<1>8. LeftOK' /\ SharedOK' /\ RegisteredOK' /\ FullOK'
    BY <1>4 DEF Inv, LeftOK, SharedOK, RegisteredOK, FullOK, TypeOK
<1>9. ReadTold' /\ WriteTold'
    BY DEF Inv, ReadTold, WriteTold, Readable, Writable
<1>10. QED
    BY <1>5, <1>6, <1>7, <1>8, <1>9 DEF Inv

\* A handle is dropped that shares its open file.
LEMMA DropShared ==
    ASSUME Inv, NEW fd \in Fds, Drop(fd), \E g \in Fds \ {fd} : table[g] = table[fd]
    PROVE  Inv'
<1>1. /\ table' = [table EXCEPT ![fd] = None] /\ owner' = [owner EXCEPT ![fd] = None]
      /\ full' = full \ {fd} /\ registered' = registered \ {fd}
      /\ UNCHANGED <<file, regs, listed, events, stuck, calls, traffic>>
    BY DEF Drop, Close, Own
<1>2. owner[fd] # None /\ table[fd] # None
    BY DescriptorsAssumption DEF Drop, Owned, Inv, OwnersOK
<1>3. /\ table \in [Fds -> Files \cup {None}] /\ owner \in [Fds -> Kinds \cup {"raw", None}]
    BY DEF Inv, TypeOK, DescTypeOK
<1>4. /\ table'[fd] = None /\ owner'[fd] = None
      /\ \A g \in Fds \ {fd} : table'[g] = table[g] /\ owner'[g] = owner[g]
    BY <1>1, <1>3
<1>5. TypeOK'
    <2>1. ASSUME NEW f \in Files PROVE file[f] # None <=> \E g \in Fds : table'[g] = f
        <3>1. f # None
            BY DescriptorsAssumption DEF Files
        <3>2. file[f] # None <=> \E g \in Fds : table[g] = f
            BY DEF Inv, TypeOK, DescTypeOK
        <3>3. QED
            BY <3>1, <3>2, <1>4
    <2>2. QED
        BY <2>1, <1>1, <1>3 DEF Inv, TypeOK, DescTypeOK
<1>6. FilesOK' /\ PeersOK' /\ NeverStuck'
    BY <1>1 DEF Inv, FilesOK, PeersOK, NeverStuck
<1>7. OwnersOK' /\ LeftOK' /\ SharedOK'
    BY <1>1, <1>4 DEF Inv, OwnersOK, LeftOK, SharedOK
<1>8. RegisteredOK' /\ FullOK'
    BY <1>1, <1>4 DEF Inv, RegisteredOK, FullOK, TypeOK
<1>9. DropDeregisters'
    <2> SUFFICES ASSUME NEW r \in regs, table'[r[1]] # r[2]
                 PROVE  file[r[2]].kind = "TcpListener" /\ file[r[2]].cloned
        BY <1>1 DEF DropDeregisters
    <2>1. r[1] \in Fds
        BY DEF Inv, TypeOK, DescTypeOK
    <2>2. CASE table[r[1]] = r[2]
        BY <2>1, <2>2, <1>2, <1>4 DEF Inv, SharedOK
    <2>3. CASE table[r[1]] # r[2]
        BY <2>3 DEF Inv, DropDeregisters
    <2>4. QED
        BY <2>2, <2>3
<1>10. \A q \in Files : Readable(q)' = Readable(q) /\ Writable(q)' = Writable(q)
    BY <1>1 DEF Readable, Writable
<1>11. \A g \in registered : g \in Fds /\ table[g] \in Files
    BY Opened DEF Inv, TypeOK, RegisteredOK, OwnersOK
<1>12. ReadTold' /\ WriteTold'
    BY <1>1, <1>4, <1>10, <1>11 DEF Inv, ReadTold, WriteTold
<1>13. QED
    BY <1>5, <1>6, <1>7, <1>8, <1>9, <1>12 DEF Inv

\* A handle is dropped that has its open file for itself; the other end of a pipe
\* is told.
LEMMA DropLast ==
    ASSUME Inv, NEW fd \in Fds, Drop(fd), ~ \E g \in Fds \ {fd} : table[g] = table[fd]
    PROVE  Inv'
<1>1. owner[fd] # None
    BY DescriptorsAssumption DEF Drop, Owned
<1>2. PICK f \in Files : f = table[fd] /\ file[f] # None /\ file[f] \in OpenFiles
    BY <1>1, OwnedOpen
<1>3. PICK p : p = file[f].peer
    OBVIOUS
<1>4. /\ table' = [table EXCEPT ![fd] = None] /\ owner' = [owner EXCEPT ![fd] = None]
      /\ full' = full \ {fd} /\ registered' = registered \ {fd}
      /\ regs' = {r \in regs : r[2] # f}
      /\ listed' = {r \in listed \cup (IF p = None THEN {} ELSE Woken(p, "error")) : r[2] # f}
      /\ UNCHANGED <<events, stuck, calls, traffic>>
    BY <1>2, <1>3 DEF Drop, Close, Own
<1>5. /\ table \in [Fds -> Files \cup {None}] /\ owner \in [Fds -> Kinds \cup {"raw", None}]
      /\ file \in [Files -> OpenFiles \cup {None}] /\ None \notin Files
      /\ regs \subseteq Fds \X Files /\ listed \subseteq regs
    BY DescriptorsAssumption DEF Inv, TypeOK, DescTypeOK, Files
<1>6. /\ table'[fd] = None /\ owner'[fd] = None
      /\ \A g \in Fds \ {fd} : table'[g] = table[g] /\ owner'[g] = owner[g] /\ table[g] # f
    BY <1>2, <1>4, <1>5
<1>7. p # None =>
         /\ p \in Files \ {f} /\ file[p] # None /\ file[p] \in OpenFiles /\ file[p].peer = f
         /\ file[p].kind \in {"Receiver", "Sender"}
    BY <1>2, <1>3, <1>5 DEF Inv, PeersOK
<1>8. /\ file'[f] = None /\ \A q \in Files \ {f, p} : file'[q] = file[q]
      /\ p # None => /\ file'[p] = [file[p] EXCEPT !.peer = None, !.end = "sent"]
                     /\ file'[p] \in OpenFiles
      /\ file' \in [Files -> OpenFiles \cup {None}]
    <2> DEFINE gone == [file EXCEPT ![f] = None]
    <2> file' = IF p = None THEN gone
                ELSE [gone EXCEPT ![p] = [file[p] EXCEPT !.peer = None, !.end = "sent"]]
        BY <1>2, <1>3 DEF Drop, Close
    <2>1. CASE p = None
        BY <2>1, <1>5
    <2>2. CASE p # None
        <3>1. [file[p] EXCEPT !.peer = None, !.end = "sent"] \in OpenFiles
            BY <2>2, <1>7 DEF OpenFiles
        <3>2. QED
            BY <2>2, <3>1, <1>5, <1>7
    <2>3. QED
        BY <2>1, <2>2
<1>9. ASSUME NEW q \in Files \ {f}, file[q] # None
      PROVE  /\ file'[q] # None /\ file'[q].kind = file[q].kind
             /\ file'[q].nonblock = file[q].nonblock /\ file'[q].cloned = file[q].cloned
             /\ file'[q].conn = file[q].conn /\ file'[q].in = file[q].in
    <2>1. CASE q = p
        <3>1. p # None
            BY <2>1, <1>5
        <3>2. file'[p] # None
            BY <3>1, <1>8, DescriptorsAssumption
        <3>3. QED
            BY <2>1, <3>1, <3>2, <1>7, <1>8 DEF OpenFiles
    <2>2. CASE q # p
        BY <2>2, <1>8, <1>9
    <2>3. QED
        BY <2>1, <2>2
<1>10. ASSUME NEW q \in Files \ {f}, file[q] # None
       PROVE  file'[q].peer # None =>
                 /\ q # p /\ file'[q].peer = file[q].peer
                 /\ file[q].peer \in Files \ {f, p}
    <2>1. CASE q = p
        <3>1. file'[q].peer = None
            BY <2>1, <1>5, <1>7, <1>8 DEF OpenFiles
        <3>2. QED
            BY <3>1
    <2>2. CASE q # p
        BY <2>2, <1>2, <1>3, <1>5, <1>7, <1>8, <1>10 DEF Inv, PeersOK
    <2>3. QED
        BY <2>1, <2>2
<1>11. \A g \in Fds \ {fd} : table[g] # None =>
          table[g] \in Files \ {f} /\ file[table[g]] # None
    BY <1>6, Opened DEF Inv
<1>12. TypeOK'
    <2>1. ASSUME NEW q \in Files PROVE file'[q] # None <=> \E g \in Fds : table'[g] = q
        <3>1. file[q] # None <=> \E g \in Fds : table[g] = q
            BY DEF Inv, TypeOK, DescTypeOK
        <3>2. CASE q = f
            BY <3>2, <1>5, <1>6, <1>8
        <3>3. CASE q # f
            <4>1. file'[q] # None <=> file[q] # None
                BY <3>3, <1>5, <1>7, <1>8, <1>9
            <4>2. QED
                BY <3>1, <3>3, <4>1, <1>2, <1>5, <1>6
        <3>4. QED
            BY <3>2, <3>3
    <2>2. /\ table' \in [Fds -> Files \cup {None}]
          /\ owner' \in [Fds -> Kinds \cup {"raw", None}]
        BY <1>4, <1>5
    <2>3. regs' \subseteq Fds \X Files /\ listed' \subseteq regs'
        BY <1>4, <1>5 DEF Woken
    <2>4. \A r \in regs' : file'[r[2]] # None
        BY <1>4, <1>5, <1>9 DEF Inv, TypeOK, DescTypeOK
    <2>5. QED
        BY <2>1, <2>2, <2>3, <2>4, <1>4, <1>8 DEF Inv, TypeOK, DescTypeOK
<1>13. FilesOK'
    <2> SUFFICES ASSUME NEW q \in Files, file'[q] # None
                 PROVE  /\ file'[q].kind = "TcpListener" => file'[q].end = "no" /\ ~file'[q].err
                        /\ file'[q].conn = "pending" => file'[q].kind = "TcpStream"
        BY DEF FilesOK
    <2>1. q # f
        BY <1>8
    <2>2. CASE q = p
        BY <2>1, <2>2, <1>5, <1>7, <1>9 DEF Inv, FilesOK
    <2>3. CASE q # p
        BY <2>1, <2>3, <1>8 DEF Inv, FilesOK
    <2>4. QED
        BY <2>2, <2>3
<1>14. PeersOK'
    <2> SUFFICES ASSUME NEW q \in Files, file'[q] # None, file'[q].peer # None
                 PROVE  LET o == file'[q].peer
                        IN  /\ o \in Files /\ file'[o] # None /\ file'[o].peer = q
                            /\ file'[o].conn = file'[q].conn
                            /\ \/ file'[q].kind = "Receiver" /\ file'[o].kind = "Sender"
                               \/ file'[q].kind = "Sender" /\ file'[o].kind = "Receiver"
        BY DEF PeersOK
    <2>1. q \in Files \ {f} /\ file[q] # None
        BY <1>5, <1>7, <1>8
    <2>2. /\ q # p /\ file'[q].peer = file[q].peer /\ file[q].peer \in Files \ {f, p}
        BY <2>1, <1>10
    <2>3. file'[q] = file[q] /\ file'[file[q].peer] = file[file[q].peer]
        BY <2>1, <2>2, <1>8
    <2>4. QED
        BY <2>1, <2>2, <2>3 DEF Inv, PeersOK
<1>15. OwnersOK' /\ LeftOK' /\ SharedOK'
    <2>1. OwnersOK'
        BY <1>6, <1>9, <1>11 DEF Inv, OwnersOK
    <2>2. LeftOK'
        <3> SUFFICES ASSUME NEW g \in Fds, owner'[g] = None, table'[g] # None
                     PROVE  /\ file'[table'[g]].conn = "no" /\ file'[table'[g]].in = 0
                            /\ \A r \in regs' : r[2] # table'[g]
            BY DEF LeftOK
        <3>1. g # fd /\ owner[g] = None /\ table'[g] = table[g] /\ table[g] # None
            BY <1>6
        <3>2. /\ file[table[g]].conn = "no" /\ file[table[g]].in = 0
              /\ \A r \in regs : r[2] # table[g]
            BY <3>1 DEF Inv, LeftOK
        <3>3. QED
            BY <3>1, <3>2, <1>4, <1>9, <1>11
    <2>3. SharedOK'
        BY <1>6, <1>9, <1>11 DEF Inv, SharedOK
    <2>4. QED
        BY <2>1, <2>2, <2>3
<1>16. \A g \in registered' \cup full' : g \in Fds \ {fd} /\ owner[g] # None /\ table[g] # None
    BY <1>4 DEF Inv, TypeOK, RegisteredOK, FullOK, OwnersOK
<1>17. RegisteredOK' /\ FullOK'
    <2>1. ASSUME NEW g \in registered' \cup full'
          PROVE  /\ owner'[g] # None /\ table'[g] = table[g] /\ table[g] # f
                 /\ file'[table[g]].kind = file[table[g]].kind
        BY <1>6, <1>9, <1>11, <1>16
    <2>2. ASSUME NEW g \in registered' PROVE <<g, table[g]>> \in regs'
        <3>1. <<g, table[g]>> \in regs
            BY <1>4 DEF Inv, RegisteredOK
        <3>2. QED
            BY <2>1, <3>1, <1>4
    <2>3. RegisteredOK'
        BY <2>1, <2>2, <1>4 DEF Inv, RegisteredOK
    <2>4. FullOK'
        BY <2>1, <1>4 DEF Inv, FullOK
    <2>5. QED
        BY <2>3, <2>4
<1>18. DropDeregisters'
    <2> SUFFICES ASSUME NEW r \in regs, r[2] # f, table'[r[1]] # r[2]
                 PROVE  file'[r[2]].kind = "TcpListener" /\ file'[r[2]].cloned
        BY <1>4 DEF DropDeregisters
    <2>1. r[1] \in Fds /\ r[2] \in Files \ {f} /\ file[r[2]] # None /\ table[r[1]] # r[2]
        BY <1>2, <1>5, <1>6 DEF Inv, TypeOK, DescTypeOK
    <2>2. QED
        BY <2>1, <1>9 DEF Inv, DropDeregisters
<1>19. ASSUME NEW g \in registered'
       PROVE  /\ g \in registered /\ table'[g] = table[g] /\ table[g] \in Files \ {f}
              /\ file[table[g]] # None /\ <<g, table[g]>> \in regs
    BY <1>4, <1>6, <1>11, <1>16 DEF Inv, RegisteredOK
<1>20. ASSUME NEW g \in registered', table[g] = p
       PROVE  <<g, table[g]>> \in listed'
    <2>1. p # None /\ <<g, p>> \in Woken(p, "error")
        BY <1>5, <1>19, <1>20 DEF Woken
    <2>2. QED
        BY <2>1, <1>4, <1>7, <1>20
<1>21. ASSUME NEW q \in Files \ {f, p}, file[q] # None
       PROVE  Readable(q)' = Readable(q) /\ Writable(q)' = Writable(q)
    <2>1. file'[q] = file[q]
        BY <1>8
    <2>2. Readable(q)' = Readable(q)
        BY <2>1 DEF Readable
    <2>3. CASE file[q].peer = None
        BY <2>1, <2>2, <2>3 DEF Writable
    <2>4. CASE file[q].peer # None
        <3>1. file'[file[q].peer] = file[file[q].peer]
            BY <2>1, <2>4, <1>8, <1>10, <1>21
        <3>2. QED
            BY <2>1, <2>2, <3>1 DEF Writable
    <2>5. QED
        BY <2>3, <2>4
<1>22. ASSUME NEW g \in registered', <<g, table[g]>> \in listed
       PROVE  <<g, table[g]>> \in listed'
    BY <1>4, <1>19, <1>22
<1>23. ReadTold'
    <2> SUFFICES ASSUME NEW g \in registered', file'[table[g]].kind # "Sender",
                        Readable(table[g])', table[g] # p
                 PROVE  g \in events \/ <<g, table[g]>> \in listed'
        BY <1>4, <1>19, <1>20 DEF ReadTold
    <2>1. Readable(table[g]) /\ file[table[g]].kind # "Sender"
        BY <1>9, <1>19, <1>21
    <2>2. QED
        BY <2>1, <1>19, <1>22 DEF Inv, ReadTold
<1>24. WriteTold'
    <2> SUFFICES ASSUME NEW g \in registered' \cap full', Writable(table[g])', table[g] # p
                 PROVE  <<g, table[g]>> \in listed'
        BY <1>4, <1>19, <1>20 DEF WriteTold
    <2>1. Writable(table[g])
        BY <1>19, <1>21
    <2>2. QED
        BY <2>1, <1>4, <1>19, <1>22 DEF Inv, WriteTold
<1>25. QED
    BY <1>4, <1>12, <1>13, <1>14, <1>15, <1>17, <1>18, <1>23, <1>24 DEF Inv, NeverStuck

\* Registering, passing a descriptor on and dropping it keep the invariant.
LEMMA ManageStep ==
    ASSUME Inv, NEW fd \in Fds, Manage(fd)
    PROVE  Inv'
<1>1. ASSUME Register(fd) PROVE Inv'
    BY <1>1, CtlStep DEF Register
<1>2. ASSUME Reregister(fd) PROVE Inv'
    BY <1>2, CtlStep DEF Reregister
<1>3. ASSUME Deregister(fd) PROVE Inv'
    BY <1>3, CtlStep DEF Deregister
<1>4. ASSUME IntoRawFd(fd) PROVE Inv'
    <2>1. owner[fd] # None
        BY <1>4, DescriptorsAssumption DEF IntoRawFd, Owned, Evented
    <2>2. QED
        BY <2>1, <1>4, HandOver DEF IntoRawFd
<1>5. ASSUME FromRawFd(fd) PROVE Inv'
    <2>1. owner[fd] # None
        BY <1>5, DescriptorsAssumption DEF FromRawFd, Owned
    <2>2. QED
        BY <2>1, <1>5, HandOver DEF FromRawFd
<1>6. ASSUME Drop(fd) PROVE Inv'
    BY <1>6, DropShared, DropLast
<1>7. QED
    BY <1>1, <1>2, <1>3, <1>4, <1>5, <1>6 DEF Manage

-----------------------------------------------------------------------------
(* New descriptors and open files.                                         *)

\* A set of natural numbers that is not empty has a minimum.
LEMMA MinIn ==
    ASSUME NEW T, T \subseteq Nat, T # {}
    PROVE  Min(T) \in T
<1> DEFINE Less == {ss \in Nat \X Nat : ss[1] < ss[2]}
<1>1. IsWellFoundedOn(Less, Nat)
    BY NatLessThanWellFounded DEF OpToRel
<1> HIDE DEF Less
<1>2. PICK x \in T : \A y \in T : ~(<<y, x>> \in Less)
    BY <1>1, WFMin
<1>3. \A y \in T : y < x => <<y, x>> \in Less
    BY DEF Less
<1>4. \A y \in T : x \in Nat /\ y \in Nat /\ ~(y < x)
    BY <1>2, <1>3
<1>5. \A y \in T : x <= y
    BY <1>4
<1>6. QED
    BY <1>5 DEF Min

\* Every open file has a descriptor, so there are names for as many more open
\* files as there are free descriptors.
LEMMA EnoughNames ==
    ASSUME TypeOK
    PROVE  /\ IsFiniteSet(FreeFds) /\ IsFiniteSet(FreeFiles)
           /\ Cardinality(FreeFds) \in Nat /\ Cardinality(FreeFiles) \in Nat
           /\ Cardinality(FreeFds) <= Cardinality(FreeFiles)
<1> DEFINE usedFds == Fds \ FreeFds
           usedFiles == Files \ FreeFiles
           t == [fd \in usedFds |-> table[fd]]
<1>1. \A fd \in usedFds : table[fd] \in usedFiles
    BY Opened DEF FreeFds, FreeFiles
<1>2. \A f \in usedFiles : \E fd \in usedFds : table[fd] = f
    BY DescriptorsAssumption DEF TypeOK, DescTypeOK, FreeFds, FreeFiles, Files
<1>3. t \in Surjection(usedFds, usedFiles)
    BY <1>1, <1>2 DEF Surjection
<1>4. /\ FreeFds \subseteq Fds /\ FreeFiles \subseteq Fds /\ Files = Fds /\ IsFiniteSet(Fds)
    BY DescriptorsAssumption DEF FreeFds, FreeFiles, Files
<1>5. /\ IsFiniteSet(FreeFds) /\ IsFiniteSet(FreeFiles)
      /\ IsFiniteSet(usedFds) /\ IsFiniteSet(usedFiles)
    BY <1>4, FS_Subset
<1>6. /\ Cardinality(FreeFds) \in Nat /\ Cardinality(FreeFiles) \in Nat
      /\ Cardinality(usedFds) \in Nat /\ Cardinality(usedFiles) \in Nat /\ Cardinality(Fds) \in Nat
    BY <1>4, <1>5, FS_CardinalityType
<1>7. Cardinality(usedFiles) <= Cardinality(usedFds)
    BY <1>3, <1>5, FS_Surjection
<1>8. Fds \cap FreeFds = FreeFds /\ Fds \cap FreeFiles = FreeFiles
    BY <1>4
<1>9. Cardinality(usedFds) = Cardinality(Fds) - Cardinality(FreeFds)
    BY <1>4, <1>8, FS_Difference
<1>10. Cardinality(usedFiles) = Cardinality(Fds) - Cardinality(FreeFiles)
    BY <1>4, <1>8, FS_Difference
<1>11. \A n, i, j \in Nat : n - i <= n - j => j <= i
    OBVIOUS
<1> HIDE DEF usedFds, usedFiles
<1>12. Cardinality(Fds) - Cardinality(FreeFiles) <= Cardinality(Fds) - Cardinality(FreeFds)
    BY <1>7, <1>9, <1>10
<1>13. QED
    BY <1>5, <1>6, <1>11, <1>12

\* The names a new descriptor and a new open file get are free.
LEMMA NewNames ==
    ASSUME TypeOK, FreeFds # {}
    PROVE  NewFd \in Fds /\ table[NewFd] = None /\ NewFile \in Files /\ file[NewFile] = None
<1>1. FreeFiles # {}
    <2>1. Cardinality(FreeFds) # 0
        BY EnoughNames, FS_EmptySet
    <2>2. Cardinality(FreeFiles) # 0
        BY <2>1, EnoughNames
    <2>3. QED
        BY <2>2, FS_EmptySet
<1>2. FreeFds \subseteq Nat /\ FreeFiles \subseteq Nat
    BY DescriptorsAssumption DEF FreeFds, FreeFiles, Files
<1>3. NewFd \in FreeFds /\ NewFile \in FreeFiles
    BY <1>1, <1>2, MinIn DEF NewFd, NewFile
<1>4. QED
    BY <1>3 DEF FreeFds, FreeFiles

\* An open file stays as it is, but that a connection may be taken from a listener.
Stays(f) ==
    \/ file'[f] = file[f]
    \/ /\ file[f] # None /\ file[f].kind = "TcpListener" /\ file[f].in > 0
       /\ file'[f] = Taken(f)[f]

OthersStay(f) == \A q \in Files \ {f} : Stays(q)

\* N are new descriptors, for M, open files that are new, one for each.
Grows(N, M) ==
    /\ table' \in [Fds -> Files \cup {None}] /\ N \subseteq Fds
    /\ file' \in [Files -> OpenFiles \cup {None}] /\ M \subseteq Files
    /\ \A g \in N : table[g] = None /\ table'[g] \in M
    /\ \A g \in Fds \ N : table'[g] = table[g]
    /\ \A g, h \in N : table'[g] = table'[h] => g = h
    /\ \A f \in M : file[f] = None /\ file'[f] # None /\ \E g \in N : table'[g] = f
    /\ \A f \in Files \ M : Stays(f)

\* Each new descriptor has an owner, or is of no concern to anybody.
GetOwners(N) ==
    /\ owner' \in [Fds -> Kinds \cup {"raw", None}]
    /\ \A g \in Fds \ N : owner'[g] = owner[g]
    /\ \A g \in N :
          IF owner'[g] = None THEN file'[table'[g]].conn = "no" /\ file'[table'[g]].in = 0
          ELSE /\ file'[table'[g]].nonblock /\ owner'[g] = file'[table'[g]].kind
               /\ file'[table'[g]].kind \in {"Receiver", "Sender"} =>
                     file'[table'[g]].conn = "made"

\* New open files are as FilesOK and PeersOK say.
StartWell(M) ==
    \A f \in M :
        /\ file'[f].end = "no" /\ ~file'[f].err
        /\ file'[f].conn = "pending" => file'[f].kind = "TcpStream"
        /\ file'[f].peer # None =>
              LET p == file'[f].peer
              IN  /\ p \in M /\ file'[p].peer = f /\ file'[p].conn = file'[f].conn
                  /\ \/ file'[f].kind = "Receiver" /\ file'[p].kind = "Sender"
                     \/ file'[f].kind = "Sender" /\ file'[p].kind = "Receiver"

\* The rest of a call that makes handles: what is new may be registered, and full.
MakeRest(N) ==
    /\ regs \subseteq regs'
    /\ \A r \in regs' \ regs : \E g \in N : r = <<g, table'[g]>> /\ owner'[g] # None
    /\ full \subseteq full'
    /\ \A g \in full' \ full : g \in N /\ owner'[g] \in Buffered
    /\ UNCHANGED <<listed, events, registered, stuck, traffic>>
    /\ calls' \in Seq(Constructors)

\* What stays of an open file.
LEMMA StaysAlike ==
    ASSUME Inv, NEW f \in Files, file[f] # None, Stays(f)
    PROVE  /\ file'[f] # None /\ file'[f].kind = file[f].kind /\ file'[f].peer = file[f].peer
           /\ file'[f].nonblock = file[f].nonblock /\ file'[f].cloned = file[f].cloned
           /\ file'[f].conn = file[f].conn /\ file'[f].end = file[f].end
           /\ file'[f].err = file[f].err /\ file'[f].out = file[f].out
           /\ file[f].in = 0 => file'[f].in = 0
           /\ file[f].kind # "TcpListener" => file'[f].in = file[f].in
<1>1. CASE file'[f] = file[f]
    BY <1>1
<1>2. CASE /\ file[f].kind = "TcpListener" /\ file[f].in > 0
           /\ file'[f] = Taken(f)[f]
    <2>1. file[f] \in OpenFiles /\ file'[f] = [file[f] EXCEPT !.in = @ - 1]
        BY <1>2 DEF Taken, Inv, TypeOK, DescTypeOK
    <2>2. file'[f] \in OpenFiles
        BY <1>2, <2>1, DescriptorsAssumption DEF OpenFiles
    <2>3. file'[f] # None
        BY <2>2, DescriptorsAssumption
    <2>4. QED
        BY <1>2, <2>1, <2>3 DEF OpenFiles
<1>3. QED
    BY <1>1, <1>2 DEF Stays

\* A call that makes handles keeps the invariant.
LEMMA GrowStep ==
    ASSUME Inv, NEW N, NEW M, Grows(N, M), GetOwners(N), StartWell(M), MakeRest(N)
    PROVE  Inv'
<1>1. /\ table \in [Fds -> Files \cup {None}] /\ file \in [Files -> OpenFiles \cup {None}]
      /\ None \notin Files /\ None \notin OpenFiles
      /\ regs \subseteq Fds \X Files /\ listed \subseteq regs
      /\ N \subseteq Fds /\ M \subseteq Files
    BY DescriptorsAssumption DEF Inv, TypeOK, DescTypeOK, Files, Grows
<1>2. ASSUME NEW f \in Files \ M, file[f] # None
      PROVE  /\ file'[f] # None /\ file'[f].kind = file[f].kind /\ file'[f].peer = file[f].peer
             /\ file'[f].nonblock = file[f].nonblock /\ file'[f].cloned = file[f].cloned
             /\ file'[f].conn = file[f].conn
             /\ file[f].in = 0 => file'[f].in = 0
    BY <1>2, StaysAlike DEF Grows
<1>3. \A f \in Files \ M : file[f] = None => file'[f] = None
    BY DEF Grows, Stays
<1>4. ASSUME NEW g \in Fds \ N, table[g] # None
      PROVE  table[g] \in Files \ M /\ file[table[g]] # None
    BY <1>4, Opened DEF Inv, Grows
<1>5. \A g \in Fds : owner[g] # None => g \in Fds \ N /\ table[g] # None
    BY DEF Inv, OwnersOK, Grows
<1>6. \A g \in N : table'[g] \in M /\ file'[table'[g]] # None
    BY DEF Grows
<1>7. \A g \in Fds \ N : table'[g] = table[g] /\ owner'[g] = owner[g]
    BY DEF Grows, GetOwners
<1>8. ASSUME NEW r \in regs
      PROVE  r[1] \in Fds /\ r[2] \in Files \ M /\ file[r[2]] # None
    BY <1>1 DEF Inv, TypeOK, DescTypeOK, Grows
<1>9. ASSUME NEW r \in regs' \ regs
      PROVE  \E g \in N : r = <<g, table'[g]>> /\ owner'[g] # None
    BY DEF MakeRest
<1>10. TypeOK'
    <2>1. ASSUME NEW f \in Files PROVE file'[f] # None <=> \E g \in Fds : table'[g] = f
        <3>1. file[f] # None <=> \E g \in Fds : table[g] = f
            BY DEF Inv, TypeOK, DescTypeOK
        <3>2. CASE f \in M
            BY <3>2, <1>1 DEF Grows
        <3>3. CASE f \notin M
            <4>1. file'[f] # None <=> file[f] # None
                BY <3>3, <1>2, <1>3
            <4>2. \A g \in N : table[g] # f /\ table'[g] # f
                BY <3>3, <1>1 DEF Grows
            <4>3. QED
                BY <3>1, <4>1, <4>2, <1>1, <1>7
        <3>4. QED
            BY <3>2, <3>3
    <2>2. regs' \subseteq Fds \X Files
        BY <1>1, <1>6, <1>8, <1>9
    <2>3. \A r \in regs' : file'[r[2]] # None
        BY <1>2, <1>6, <1>8, <1>9
    <2>4. listed' \subseteq regs' /\ full' \subseteq Fds
        BY <1>1 DEF MakeRest, Inv, TypeOK
    <2>5. QED
        BY <2>1, <2>2, <2>3, <2>4 DEF Inv, TypeOK, DescTypeOK, Grows, GetOwners, MakeRest
<1>11. FilesOK'
    <2> SUFFICES ASSUME NEW f \in Files, file'[f] # None
                 PROVE  /\ file'[f].kind = "TcpListener" => file'[f].end = "no" /\ ~file'[f].err
                        /\ file'[f].conn = "pending" => file'[f].kind = "TcpStream"
        BY DEF FilesOK
    <2>1. CASE f \in M
        BY <2>1 DEF StartWell
    <2>2. CASE f \notin M
        <3>1. file[f] # None /\ Stays(f)
            BY <2>2, <1>3 DEF Grows
        <3>2. QED
            BY <3>1, StaysAlike DEF Inv, FilesOK
    <2>3. QED
        BY <2>1, <2>2
<1>12. PeersOK'
    <2> SUFFICES ASSUME NEW f \in Files, file'[f] # None, file'[f].peer # None
                 PROVE  LET p == file'[f].peer
                        IN  /\ p \in Files /\ file'[p] # None /\ file'[p].peer = f
                            /\ file'[p].conn = file'[f].conn
                            /\ \/ file'[f].kind = "Receiver" /\ file'[p].kind = "Sender"
                               \/ file'[f].kind = "Sender" /\ file'[p].kind = "Receiver"
        BY DEF PeersOK
    <2>1. CASE f \in M
        BY <2>1, <1>1 DEF StartWell, Grows
    <2>2. CASE f \notin M
        <3>1. file[f] # None /\ file[f].peer # None /\ file'[f].peer = file[f].peer
            BY <2>2, <1>2, <1>3
        <3>2. file[f].peer \in Files \ M /\ file[file[f].peer] # None
            BY <3>1 DEF Inv, PeersOK, Grows
        <3>3. QED
            BY <2>2, <3>1, <3>2, <1>2 DEF Inv, PeersOK
    <2>3. QED
        BY <2>1, <2>2
<1>13. OwnersOK'
    <2> SUFFICES ASSUME NEW g \in Fds, owner'[g] # None
                 PROVE  /\ table'[g] # None /\ file'[table'[g]].nonblock
                        /\ owner'[g] \in {"raw", file'[table'[g]].kind}
                        /\ file'[table'[g]].kind \in {"Receiver", "Sender"} =>
                              file'[table'[g]].conn = "made"
        BY DEF OwnersOK
    <2>1. CASE g \in N
        BY <2>1, <1>1, <1>6 DEF GetOwners
    <2>2. CASE g \notin N
        BY <2>2, <1>2, <1>4, <1>7 DEF Inv, OwnersOK
    <2>3. QED
        BY <2>1, <2>2
<1>14. LeftOK'
    <2> SUFFICES ASSUME NEW g \in Fds, owner'[g] = None, table'[g] # None
                 PROVE  /\ file'[table'[g]].conn = "no" /\ file'[table'[g]].in = 0
                        /\ \A r \in regs' : r[2] # table'[g]
        BY DEF LeftOK
    <2>1. CASE g \in N
        <3>1. \A r \in regs' \ regs : r[2] # table'[g]
            BY <2>1, <1>9 DEF Grows
        <3>2. QED
            BY <2>1, <3>1, <1>6, <1>8 DEF GetOwners
    <2>2. CASE g \notin N
        <3>1. table'[g] = table[g] /\ owner[g] = None /\ table[g] \in Files \ M
            BY <2>2, <1>4, <1>7
        <3>2. \A r \in regs' \ regs : r[2] # table[g]
            BY <3>1, <1>6, <1>9
        <3>3. QED
            BY <2>2, <3>1, <3>2, <1>2, <1>4, <1>7 DEF Inv, LeftOK
    <2>3. QED
        BY <2>1, <2>2
<1>15. SharedOK'
    <2> SUFFICES ASSUME NEW g \in Fds, NEW h \in Fds, g # h,
                        table'[g] # None, table'[g] = table'[h]
                 PROVE  /\ file'[table'[g]].kind = "TcpListener" /\ file'[table'[g]].cloned
                        /\ owner'[g] # None
        BY DEF SharedOK
    <2>1. g \notin N /\ h \notin N
        BY <1>4, <1>6, <1>7 DEF Grows
    <2>2. QED
        BY <2>1, <1>2, <1>4, <1>7 DEF Inv, SharedOK
<1>16. ASSUME NEW g \in Fds \ N, owner[g] # None
       PROVE  /\ owner'[g] # None /\ table'[g] = table[g] /\ table[g] \in Files \ M
              /\ file[table[g]] # None /\ file'[table[g]].kind = file[table[g]].kind
    BY <1>2, <1>4, <1>5, <1>7, <1>16
<1>17. /\ \A g \in registered \cup full : g \in Fds \ N /\ owner[g] # None
    BY <1>5 DEF Inv, RegisteredOK, FullOK, TypeOK
<1>18. RegisteredOK'
    BY <1>16, <1>17 DEF Inv, RegisteredOK, MakeRest
<1>19. FullOK'
    <2> SUFFICES ASSUME NEW g \in full'
                 PROVE  owner'[g] # None /\ file'[table'[g]].kind \in Buffered
        BY DEF FullOK
    <2>1. CASE g \in full
        BY <2>1, <1>16, <1>17 DEF Inv, FullOK
    <2>2. CASE g \notin full
        <3>1. g \in N /\ owner'[g] \in Buffered
            BY <2>2 DEF MakeRest
        <3>2. owner'[g] # None
            BY <3>1, DescriptorsAssumption DEF Buffered, Kinds
        <3>3. QED
            BY <3>1, <3>2 DEF GetOwners
    <2>3. QED
        BY <2>1, <2>2
<1>20. DropDeregisters'
    <2> SUFFICES ASSUME NEW r \in regs', table'[r[1]] # r[2]
                 PROVE  file'[r[2]].kind = "TcpListener" /\ file'[r[2]].cloned
        BY DEF DropDeregisters
    <2>1. r \in regs
        BY <1>9
    <2>2. table[r[1]] # r[2]
        BY <2>1, <1>1, <1>7, <1>8 DEF Grows
    <2>3. QED
        BY <2>1, <2>2, <1>2, <1>8 DEF Inv, DropDeregisters
<1>21. ASSUME NEW f \in Files \ M, file[f] # None, Readable(f)'
       PROVE  Readable(f)
    <2>1. CASE file'[f] = file[f]
        BY <2>1, <1>21 DEF Readable
    <2>2. CASE file[f].in > 0
        BY <2>2 DEF Readable
    <2>3. QED
        BY <2>1, <2>2, <1>21 DEF Grows, Stays
<1>22. ASSUME NEW f \in Files \ M, file[f] # None, file[f].kind \in Buffered, Writable(f)'
       PROVE  Writable(f)
    <2>1. file'[f] = file[f]
        BY <1>22 DEF Grows, Stays, Buffered
    <2>2. CASE file[f].kind = "Sender" /\ file[f].peer # None
        <3>1. PICK p \in Files \ M :
                  p = file[f].peer /\ file[p] # None /\ file[p].kind = "Receiver"
            BY <2>2, <1>22 DEF Inv, PeersOK, Grows
        <3>2. file'[p] = file[p]
            BY <3>1 DEF Grows, Stays
        <3>3. QED
            BY <2>1, <2>2, <3>1, <3>2, <1>22 DEF Writable
    <2>3. CASE ~(file[f].kind = "Sender" /\ file[f].peer # None)
        BY <2>1, <2>3, <1>22 DEF Writable
    <2>4. QED
        BY <2>2, <2>3
<1>23. ReadTold'
    <2> SUFFICES ASSUME NEW g \in registered, file'[table'[g]].kind # "Sender",
                        Readable(table[g])'
                 PROVE  g \in events \/ <<g, table[g]>> \in listed
        BY <1>16, <1>17 DEF ReadTold, MakeRest
    <2>1. file[table[g]].kind # "Sender" /\ Readable(table[g])
        <3>1. table'[g] = table[g] /\ table[g] \in Files \ M /\ file[table[g]] # None
            BY <1>16, <1>17
        <3>2. PICK f \in Files \ M : f = table[g]
            BY <3>1
        <3>3. QED
            BY <3>1, <3>2, <1>16, <1>17, <1>21
    <2>2. QED
        BY <2>1 DEF Inv, ReadTold
<1>24. WriteTold'
    <2> SUFFICES ASSUME NEW g \in registered \cap full', Writable(table[g])'
                 PROVE  <<g, table[g]>> \in listed
        BY <1>16, <1>17 DEF WriteTold, MakeRest
    <2>1. g \in full
        BY <1>17 DEF MakeRest
    <2>2. table'[g] = table[g] /\ table[g] \in Files \ M /\ file[table[g]] # None
        BY <1>16, <1>17
    <2>3. PICK f \in Files \ M : f = table[g]
        BY <2>2
    <2>4. file[f].kind \in Buffered
        BY <2>1, <2>3 DEF Inv, FullOK
    <2>5. Writable(f)
        BY <2>2, <2>3, <2>4, <1>22
    <2>6. QED
        BY <2>1, <2>3, <2>5 DEF Inv, WriteTold
<1>25. QED
    BY <1>10, <1>11, <1>12, <1>13, <1>14, <1>15, <1>18, <1>19, <1>20, <1>23, <1>24
    DEF Inv, NeverStuck, MakeRest

\* What a call that gets a single descriptor may make of it.
Proper(kind, conn) ==
    /\ kind \in Kinds \ {"Receiver", "Sender"} /\ conn \in {"no", "pending", "made"}
    /\ conn = "pending" => kind = "TcpStream"

\* What matters of a new open file.
Fresh(new, kind, conn) ==
    /\ new \in OpenFiles /\ new.kind = kind /\ new.conn = conn
    /\ new.end = "no" /\ new.err = FALSE /\ new.in = 0 /\ new.peer = None

\* New open files are in non-blocking mode, unless a call fails before it is set.
LEMMA NewIsFresh ==
    ASSUME NEW kind, NEW conn, Proper(kind, conn)
    PROVE  /\ Fresh(NewOpenFile(kind, conn), kind, conn)
           /\ Fresh([NewOpenFile(kind, conn) EXCEPT !.nonblock = FALSE], kind, conn)
           /\ NewOpenFile(kind, conn).nonblock = TRUE
<1>1. 0 \in 0..Room
    BY DescriptorsAssumption
<1>2. NewOpenFile(kind, conn) \in OpenFiles
    BY <1>1 DEF Proper, NewOpenFile, OpenFiles
<1>3. [NewOpenFile(kind, conn) EXCEPT !.nonblock = FALSE] \in OpenFiles
    BY <1>1 DEF Proper, NewOpenFile, OpenFiles
<1>4. QED
    BY <1>2, <1>3 DEF NewOpenFile, Fresh

\* One new open file with a descriptor for it, which gets an owner or is left open.
LEMMA OpenStep ==
    ASSUME Inv, NEW fd \in Fds, table[fd] = None, NEW f \in Files, file[f] = None,
           table' = [table EXCEPT ![fd] = f],
           NEW kind, NEW conn, Proper(kind, conn),
           file' \in [Files -> OpenFiles \cup {None}],
           Fresh(file'[f], kind, conn),
           OthersStay(f),
           \/ file'[f].nonblock = TRUE /\ Own(fd, kind)
           \/ conn = "no" /\ UNCHANGED owner,
           MakeRest({fd})
    PROVE  Inv'
<1>1. /\ file'[f].kind = kind /\ file'[f].conn = conn
      /\ file'[f].end = "no" /\ file'[f].err = FALSE /\ file'[f].in = 0 /\ file'[f].peer = None
    BY DEF Fresh
<1>2. /\ table \in [Fds -> Files \cup {None}] /\ owner \in [Fds -> Kinds \cup {"raw", None}]
    BY DEF Inv, TypeOK, DescTypeOK
<1>3. table'[fd] = f
    BY <1>2
<1>4. file'[f] # None
    <2>1. file'[f] \in OpenFiles
        BY DEF Fresh
    <2>2. QED
        BY <2>1, DescriptorsAssumption
<1>5. Grows({fd}, {f})
    BY <1>2, <1>3, <1>4 DEF Grows, OthersStay
<1>6. GetOwners({fd})
    <2>1. CASE file'[f].nonblock = TRUE /\ Own(fd, kind)
        <3>1. owner'[fd] = kind /\ kind # None
            BY <2>1, <1>2, DescriptorsAssumption DEF Own, Proper
        <3>2. /\ owner' \in [Fds -> Kinds \cup {"raw", None}]
              /\ \A g \in Fds \ {fd} : owner'[g] = owner[g]
            BY <2>1, <1>2 DEF Own, Proper
        <3>3. file'[f].nonblock
            BY <2>1
        <3>4. file'[f].kind = kind /\ kind \notin {"Receiver", "Sender"}
            BY <1>1 DEF Proper
        <3>5. QED
            BY <3>1, <3>2, <3>3, <3>4, <1>3 DEF GetOwners
    <2>2. CASE conn = "no" /\ UNCHANGED owner
        <3>1. owner[fd] = None
            BY DEF Inv, OwnersOK
        <3>2. QED
            BY <2>2, <3>1, <1>1, <1>2, <1>3 DEF GetOwners
    <2>3. QED
        BY <2>1, <2>2
<1>7. StartWell({f})
    BY <1>1 DEF StartWell, Proper
<1>8. QED
    BY <1>5, <1>6, <1>7, GrowStep

\* What a call that makes handles starts from.
LEMMA CallsFrom ==
    ASSUME Inv, NEW c, NEW n \in Nat \ {0}, Calls(c, n)
    PROVE  /\ FreeFds # {} /\ calls' \in Seq(Constructors)
           /\ UNCHANGED <<listed, events, registered, stuck, traffic>>
<1>1. Cardinality(FreeFds) >= n
    BY DEF Calls
<1>2. FreeFds # {}
    BY <1>1, FS_EmptySet
<1>3. calls \in Seq(Constructors) /\ calls # <<>> /\ calls' = Tail(calls)
    BY DEF Calls, Inv, TypeOK
<1>4. calls' \in Seq(Constructors)
    BY <1>3, HeadTailProperties
<1>5. QED
    BY <1>2, <1>4 DEF Calls

\* A call that gets one new descriptor.
LEMMA OpenCall ==
    ASSUME Inv, NEW c, Calls(c, 1),
           NEW kind, NEW conn, Proper(kind, conn),
           NEW new, Open(new), Fresh(new, kind, conn),
           \/ new.nonblock = TRUE /\ Own(NewFd, kind)
           \/ conn = "no" /\ UNCHANGED owner,
           \/ UNCHANGED regs
           \/ Own(NewFd, kind) /\ regs' = regs \cup {<<NewFd, NewFile>>},
           \/ UNCHANGED full
           \/ Own(NewFd, kind) /\ kind \in Buffered /\ full' = full \cup {NewFd}
    PROVE  Inv'
<1>1. PICK fd \in Fds, f \in Files :
          fd = NewFd /\ f = NewFile /\ table[fd] = None /\ file[f] = None
    BY CallsFrom, NewNames DEF Inv
<1>2. /\ table \in [Fds -> Files \cup {None}] /\ owner \in [Fds -> Kinds \cup {"raw", None}]
      /\ file \in [Files -> OpenFiles \cup {None}]
    BY DEF Inv, TypeOK, DescTypeOK
<1>3. new \in OpenFiles
    BY DEF Fresh
<1>4. table' = [table EXCEPT ![fd] = f] /\ file' = [file EXCEPT ![f] = new]
    BY <1>1 DEF Open
<1>5. /\ file' \in [Files -> OpenFiles \cup {None}] /\ file'[f] = new /\ table'[fd] = f
      /\ OthersStay(f)
    BY <1>2, <1>3, <1>4 DEF Stays, OthersStay
<1>6. Own(NewFd, kind) => owner'[fd] = kind /\ owner'[fd] # None
    BY <1>1, <1>2, DescriptorsAssumption DEF Own, Proper
<1>7. MakeRest({fd})
    <2>1. /\ calls' \in Seq(Constructors)
          /\ UNCHANGED <<listed, events, registered, stuck, traffic>>
        BY CallsFrom
    <2>2. \A r \in regs' \ regs : r = <<fd, f>> /\ owner'[fd] # None
        BY <1>1, <1>6
    <2>3. \A g \in full' \ full : g = fd /\ owner'[fd] \in Buffered
        BY <1>1, <1>6
    <2>4. regs \subseteq regs' /\ full \subseteq full'
        OBVIOUS
    <2>5. QED
        BY <2>1, <2>2, <2>3, <2>4, <1>5 DEF MakeRest
<1>8. \/ file'[f].nonblock = TRUE /\ Own(fd, kind)
      \/ conn = "no" /\ UNCHANGED owner
    BY <1>1, <1>5
<1>9. Fresh(file'[f], kind, conn)
    BY <1>5
<1>10. QED
    BY <1>1, <1>4, <1>5, <1>7, <1>8, <1>9, OpenStep

\* A call returns a new handle, which may be registered, or full.
MakesHandle(c, kind, conn) ==
    /\ Calls(c, 1) /\ Open(NewOpenFile(kind, conn)) /\ Own(NewFd, kind)
    /\ UNCHANGED regs \/ regs' = regs \cup {<<NewFd, NewFile>>}
    /\ \/ UNCHANGED full
       \/ kind \in Buffered /\ full' = full \cup {NewFd}

\* A call fails and leaves a descriptor open.
Fails(c, kind) == Calls(c, 1) /\ LeftOpen(kind) /\ UNCHANGED regs

\* A call that makes a handle for a new open file keeps the invariant.
LEMMA OneNewHandle ==
    ASSUME Inv, NEW c, NEW kind, NEW conn, Proper(kind, conn), MakesHandle(c, kind, conn)
    PROVE  Inv'
<1>1. /\ Fresh(NewOpenFile(kind, conn), kind, conn)
      /\ NewOpenFile(kind, conn).nonblock = TRUE
    BY NewIsFresh
<1>2. QED
    BY <1>1, OpenCall DEF MakesHandle

\* So does a call that fails and leaves the new descriptor open.
LEMMA OneLeftOpen ==
    ASSUME Inv, NEW c, NEW kind, Proper(kind, "no"), Fails(c, kind)
    PROVE  Inv'
<1>1. Fresh([NewOpenFile(kind, "no") EXCEPT !.nonblock = FALSE], kind, "no")
    BY NewIsFresh
<1>2. QED
    BY <1>1, OpenCall DEF Fails, LeftOpen

\* connect, bind and Awakener::new, and what they leave when they fail.
LEMMA OpenSteps ==
    ASSUME Inv, Connect \/ Bind \/ UdpBind \/ NewAwakener
    PROVE  Inv'
<1>1. /\ \A conn \in {"no", "pending", "made"} : Proper("TcpStream", conn)
      /\ Proper("TcpListener", "made") /\ Proper("TcpListener", "no")
      /\ Proper("UdpSocket", "made") /\ Proper("UdpSocket", "no")
      /\ Proper("Awakener", "made") /\ Proper("Awakener", "no")
      /\ "TcpStream" \in Buffered
    BY DEF Proper, Kinds, Buffered
<1>2. ASSUME Connect PROVE Inv'
    <2>1. \/ \E conn \in {"pending", "made"} : MakesHandle("connect", "TcpStream", conn)
          \/ Fails("connect", "TcpStream")
        BY <1>1, <1>2 DEF Connect, MakesHandle, Fails
    <2>2. QED
        BY <1>1, <2>1, OneNewHandle, OneLeftOpen
<1>3. ASSUME Bind PROVE Inv'
    <2>1. MakesHandle("bind", "TcpListener", "made") \/ Fails("bind", "TcpListener")
        BY <1>3 DEF Bind, MakesHandle, Fails
    <2>2. QED
        BY <1>1, <2>1, OneNewHandle, OneLeftOpen
<1>4. ASSUME UdpBind PROVE Inv'
    <2>1. MakesHandle("UdpSocket::bind", "UdpSocket", "made")
        BY <1>4 DEF UdpBind, MakesHandle
    <2>2. QED
        BY <1>1, <2>1, OneNewHandle
<1>5. ASSUME NewAwakener PROVE Inv'
    <2>1. MakesHandle("Awakener::new", "Awakener", "made") \/ Fails("Awakener::new", "Awakener")
        BY <1>5 DEF NewAwakener, MakesHandle, Fails
    <2>2. QED
        BY <1>1, <2>1, OneNewHandle, OneLeftOpen
<1>6. QED
    BY <1>2, <1>3, <1>4, <1>5

\* accept: a connection becomes a stream, or is lost, or there is none.
LEMMA AcceptStep ==
    ASSUME Inv, NEW fd \in Fds, Accept(fd)
    PROVE  Inv'
<1>1. owner[fd] = "TcpListener" /\ owner[fd] \in Kinds
    BY DEF Accept, Handles, Owned, Kinds
<1>2. PICK f \in Files :
          /\ f = table[fd] /\ file[f] # None /\ file[f] \in OpenFiles
          /\ file[f].kind = "TcpListener"
    BY <1>1, OwnedKind, OwnedOpen
<1>3. CASE file[f].in = 0 /\ WouldBlock(fd)
    <2>1. file[f].end = "no" /\ ~file[f].err
        BY <1>2 DEF Inv, FilesOK
    <2>2. ~Readable(table[fd])
        BY <1>2, <1>3, <2>1 DEF Readable
    <2>3. QED
        BY <1>1, <1>3, <2>2, OwnedKind, WouldBlockStep
<1>4. CASE /\ file[f].in > 0 /\ file' = Taken(f) /\ UNCHANGED <<table, owner>>
           /\ UNCHANGED <<regs, listed, events, full, registered, stuck, calls, traffic>>
    <2>1. file[f].peer = None
        BY <1>2, NoPeer
    <2>2. QED
        BY <1>2, <1>4, <2>1, TakenStep DEF appVars
<1>5. CASE /\ file[f].in > 0 /\ FreeFds # {}
           /\ table' = [table EXCEPT ![NewFd] = NewFile]
           /\ file' = [Taken(f) EXCEPT ![NewFile] = NewOpenFile("TcpStream", "made")]
           /\ Own(NewFd, "TcpStream")
           /\ UNCHANGED <<regs, listed, events, full, registered, stuck, calls, traffic>>
    <2>1. PICK g \in Fds, n \in Files :
              g = NewFd /\ n = NewFile /\ table[g] = None /\ file[n] = None
        BY <1>5, NewNames DEF Inv
    <2>2. PICK new : new = NewOpenFile("TcpStream", "made")
        OBVIOUS
    <2>3. Proper("TcpStream", "made")
        BY DEF Proper, Kinds
    <2>4. Fresh(new, "TcpStream", "made") /\ new.nonblock = TRUE
        BY <2>2, <2>3, NewIsFresh
    <2>5. new \in OpenFiles
        BY <2>4 DEF Fresh
    <2>6. file \in [Files -> OpenFiles \cup {None}] /\ n # f
        BY <1>2, <2>1 DEF Inv, TypeOK, DescTypeOK
    <2>7. Taken(f) \in [Files -> OpenFiles \cup {None}]
        <3>1. [file[f] EXCEPT !.in = @ - 1] \in OpenFiles
            BY <1>2, <1>5, DescriptorsAssumption DEF OpenFiles
        <3>2. QED
            BY <3>1, <2>6 DEF Taken
    <2>8. \A q \in Files \ {f} : Taken(f)[q] = file[q]
        BY <2>6 DEF Taken
    <2>9. /\ file' \in [Files -> OpenFiles \cup {None}] /\ file'[n] = new
          /\ \A q \in Files \ {n} : file'[q] = Taken(f)[q]
        BY <1>5, <2>1, <2>2, <2>5, <2>7
    <2>10. OthersStay(n)
        <3> SUFFICES ASSUME NEW q \in Files \ {n} PROVE Stays(q)
            BY DEF OthersStay
        <3>1. CASE q = f
            BY <3>1, <1>2, <1>5, <2>9 DEF Stays
        <3>2. CASE q # f
            BY <3>2, <2>8, <2>9 DEF Stays
        <3>3. QED
            BY <3>1, <3>2
    <2>11. MakeRest({g})
        BY <1>5 DEF MakeRest, Inv, TypeOK
    <2>12. /\ table' = [table EXCEPT ![g] = n] /\ Own(g, "TcpStream")
           /\ Fresh(file'[n], "TcpStream", "made") /\ file'[n].nonblock = TRUE
        BY <1>5, <2>1, <2>4, <2>9
    <2>13. QED
        BY <2>1, <2>3, <2>9, <2>10, <2>11, <2>12, OpenStep
<1>6. QED
    BY <1>2, <1>3, <1>4, <1>5 DEF Accept

\* What is done with events keeps the invariant.
LEMMA HandleStep ==
    ASSUME Inv, NEW fd \in Fds, Handle(fd)
    PROVE  Inv'
BY AcceptStep, ReadStep, IgnoreStep DEF Handle

\* With two free descriptors there are two names for each end of a pipe.
LEMMA TwoNewNames ==
    ASSUME TypeOK, Cardinality(FreeFds) >= 2
    PROVE  /\ NewFd \in FreeFds /\ Min(FreeFds \ {NewFd}) \in FreeFds \ {NewFd}
           /\ NewFile \in FreeFiles /\ Min(FreeFiles \ {NewFile}) \in FreeFiles \ {NewFile}
<1>1. ASSUME NEW T, T \subseteq Nat, IsFiniteSet(T), Cardinality(T) >= 2
      PROVE  Min(T) \in T /\ Min(T \ {Min(T)}) \in T \ {Min(T)}
    <2>1. Cardinality({}) = 0 /\ Cardinality(T) \in Nat
        BY <1>1, FS_EmptySet, FS_CardinalityType
    <2>2. T # {}
        BY <1>1, <2>1
    <2>3. Min(T) \in T
        BY <1>1, <2>2, MinIn
    <2>4. Cardinality(T \ {Min(T)}) = Cardinality(T) - 1
        BY <1>1, <2>3, FS_RemoveElement
    <2>5. Cardinality(T \ {Min(T)}) # 0
        BY <1>1, <2>1, <2>4
    <2>6. T \ {Min(T)} # {}
        BY <2>1, <2>5
    <2>7. QED
        BY <1>1, <2>3, <2>6, MinIn
<1>2. FreeFds \subseteq Nat /\ FreeFiles \subseteq Nat
    BY DescriptorsAssumption DEF FreeFds, FreeFiles, Files
<1>3. IsFiniteSet(FreeFds) /\ IsFiniteSet(FreeFiles) /\ Cardinality(FreeFiles) >= 2
    BY EnoughNames
<1>4. QED
    BY <1>1, <1>2, <1>3 DEF NewFd, NewFile

\* A new end of a pipe.
IsEnd(new, kind, conn, p) ==
    /\ new \in OpenFiles /\ new.kind = kind /\ new.conn = conn /\ new.nonblock = TRUE
    /\ new.end = "no" /\ new.err = FALSE /\ new.in = 0 /\ new.peer = p

\* The files that new_pipe makes are such ends.
LEMMA NewEnd ==
    ASSUME NEW kind \in {"Receiver", "Sender"}, NEW conn \in {"made", "no"}, NEW p \in Files
    PROVE  IsEnd([NewOpenFile(kind, conn) EXCEPT !.peer = p], kind, conn, p)
<1>1. 0 \in 0..Room
    BY DescriptorsAssumption
<1>2. [NewOpenFile(kind, conn) EXCEPT !.peer = p] \in OpenFiles
    BY <1>1 DEF NewOpenFile, OpenFiles, Kinds
<1>3. QED
    BY <1>2 DEF NewOpenFile, IsEnd

\* Both ends of a new pipe, or what is left of it when the call fails.
LEMMA NewPipeStep ==
    ASSUME Inv, NewPipe
    PROVE  Inv'
<1>1. Cardinality(FreeFds) >= 2 /\ Calls("new_pipe", 2)
    BY DEF NewPipe, Calls
<1>2. PICK rfd \in Fds, wfd \in Fds, r \in Files, w \in Files :
          /\ rfd = NewFd /\ wfd = Min(FreeFds \ {rfd}) /\ rfd # wfd
          /\ r = NewFile /\ w = Min(FreeFiles \ {r}) /\ r # w
          /\ table[rfd] = None /\ table[wfd] = None /\ file[r] = None /\ file[w] = None
    BY <1>1, TwoNewNames DEF FreeFds, FreeFiles, Inv
<1>3. PICK conn \in {"made", "no"} :
          /\ table' = [table EXCEPT ![rfd] = r, ![wfd] = w]
          /\ file' = [file EXCEPT ![r] = [NewOpenFile("Receiver", conn) EXCEPT !.peer = w],
                                  ![w] = [NewOpenFile("Sender", conn) EXCEPT !.peer = r]]
          /\ owner' = IF conn = "no" THEN owner
                      ELSE [owner EXCEPT ![rfd] = "Receiver", ![wfd] = "Sender"]
          /\ UNCHANGED regs /\ UNCHANGED full
    BY <1>2 DEF NewPipe
<1>4. /\ table \in [Fds -> Files \cup {None}] /\ owner \in [Fds -> Kinds \cup {"raw", None}]
      /\ file \in [Files -> OpenFiles \cup {None}]
    BY DEF Inv, TypeOK, DescTypeOK
<1>5. PICK receiver, sender :
          /\ receiver = [NewOpenFile("Receiver", conn) EXCEPT !.peer = w]
          /\ sender = [NewOpenFile("Sender", conn) EXCEPT !.peer = r]
    OBVIOUS
<1>6. IsEnd(receiver, "Receiver", conn, w) /\ IsEnd(sender, "Sender", conn, r)
    BY <1>5, NewEnd
<1>7. /\ receiver \in OpenFiles /\ receiver.kind = "Receiver" /\ receiver.conn = conn
      /\ receiver.nonblock = TRUE /\ receiver.end = "no" /\ receiver.err = FALSE
      /\ receiver.in = 0 /\ receiver.peer = w
    BY <1>6 DEF IsEnd
<1>8. /\ sender \in OpenFiles /\ sender.kind = "Sender" /\ sender.conn = conn
      /\ sender.nonblock = TRUE /\ sender.end = "no" /\ sender.err = FALSE
      /\ sender.in = 0 /\ sender.peer = r
    BY <1>6 DEF IsEnd
<1>9. file' = [file EXCEPT ![r] = receiver, ![w] = sender]
    BY <1>3, <1>5
<1>10. /\ file' \in [Files -> OpenFiles \cup {None}] /\ file'[r] = receiver /\ file'[w] = sender
       /\ \A q \in Files \ {r, w} : file'[q] = file[q]
    BY <1>2, <1>4, <1>7, <1>8, <1>9
<1>11. /\ table' \in [Fds -> Files \cup {None}] /\ table'[rfd] = r /\ table'[wfd] = w
       /\ \A g \in Fds \ {rfd, wfd} : table'[g] = table[g]
    BY <1>2, <1>3, <1>4
<1>12. Grows({rfd, wfd}, {r, w})
    <2>1. receiver # None /\ sender # None
        BY <1>7, <1>8, DescriptorsAssumption
    <2>2. /\ \A g \in {rfd, wfd} : table[g] = None /\ table'[g] \in {r, w}
          /\ \A g \in Fds \ {rfd, wfd} : table'[g] = table[g]
          /\ \A g, h \in {rfd, wfd} : table'[g] = table'[h] => g = h
        BY <1>2, <1>11
    <2>3. /\ \A f \in {r, w} : file[f] = None /\ file'[f] # None
                              /\ \E g \in {rfd, wfd} : table'[g] = f
          /\ \A f \in Files \ {r, w} : Stays(f)
        BY <2>1, <1>2, <1>10, <1>11 DEF Stays
    <2>4. QED
        BY <2>2, <2>3, <1>10, <1>11 DEF Grows
<1>13. GetOwners({rfd, wfd})
    <2>1. CASE conn = "no"
        <3>1. owner[rfd] = None /\ owner[wfd] = None /\ owner' = owner
            BY <2>1, <1>2, <1>3 DEF Inv, OwnersOK
        <3>2. receiver.conn = "no" /\ receiver.in = 0 /\ sender.conn = "no" /\ sender.in = 0
            BY <2>1, <1>7, <1>8
        <3>3. QED
            BY <3>1, <3>2, <1>4, <1>10, <1>11 DEF GetOwners
    <2>2. CASE conn = "made"
        <3>1. owner' = [owner EXCEPT ![rfd] = "Receiver", ![wfd] = "Sender"]
            BY <2>2, <1>3
        <3>2. /\ owner'[rfd] = "Receiver" /\ owner'[wfd] = "Sender"
              /\ owner' \in [Fds -> Kinds \cup {"raw", None}]
              /\ \A g \in Fds \ {rfd, wfd} : owner'[g] = owner[g]
            BY <3>1, <1>2, <1>4 DEF Kinds
        <3>3. /\ receiver.kind = "Receiver" /\ receiver.conn = "made" /\ receiver.nonblock
              /\ sender.kind = "Sender" /\ sender.conn = "made" /\ sender.nonblock
            BY <2>2, <1>7, <1>8
        <3>4. "Receiver" # None /\ "Sender" # None
            BY DescriptorsAssumption DEF Kinds
        <3>5. QED
            BY <3>2, <3>3, <3>4, <1>10, <1>11 DEF GetOwners
    <2>3. QED
        BY <2>1, <2>2
<1>14. StartWell({r, w})
    BY <1>7, <1>8, <1>10 DEF StartWell
<1>15. MakeRest({rfd, wfd})
    <2>1. /\ calls' \in Seq(Constructors)
          /\ UNCHANGED <<listed, events, registered, stuck, traffic>>
        BY <1>1, CallsFrom
    <2>2. QED
        BY <2>1, <1>3 DEF MakeRest
<1>16. QED
    BY <1>12, <1>13, <1>14, <1>15, GrowStep

\* A clone shares the listener, and is told of nothing until it is registered.
LEMMA TryCloneStep ==
    ASSUME Inv, NEW fd \in Fds, TryClone(fd)
    PROVE  Inv'
<1>1. owner[fd] = "TcpListener" /\ owner[fd] \in Kinds /\ Calls("try_clone", 1)
    BY DEF TryClone, Owned, Kinds
<1>2. owner[fd] # None
    BY <1>1, OwnedKind
<1>3. PICK f \in Files :
          /\ f = table[fd] /\ file[f] # None /\ file[f] \in OpenFiles
          /\ file[f].kind = "TcpListener" /\ file[f].nonblock
    BY <1>1, <1>2, OwnedKind, OwnedOpen
<1>4. PICK g \in Fds : g = NewFd /\ table[g] = None
    BY <1>1, CallsFrom, NewNames DEF Inv
<1>5. /\ calls' \in Seq(Constructors)
      /\ UNCHANGED <<regs, full, listed, events, registered, stuck, traffic>>
    BY <1>1, CallsFrom DEF TryClone
<1>6. PICK new : new = [file[f] EXCEPT !.cloned = TRUE]
    OBVIOUS
<1>7. /\ table' = [table EXCEPT ![g] = f] /\ file' = [file EXCEPT ![f] = new]
      /\ owner' = [owner EXCEPT ![g] = "TcpListener"]
    BY <1>3, <1>4, <1>6 DEF TryClone, Dup, Own
<1>8. new \in OpenFiles
    BY <1>3, <1>6 DEF OpenFiles
<1>9. /\ new.kind = "TcpListener" /\ new.nonblock /\ new.cloned = TRUE
      /\ new.conn = file[f].conn /\ new.peer = file[f].peer /\ new.in = file[f].in
      /\ new.end = file[f].end /\ new.err = file[f].err /\ new.out = file[f].out
    BY <1>3, <1>6 DEF OpenFiles
<1>10. /\ table \in [Fds -> Files \cup {None}] /\ file \in [Files -> OpenFiles \cup {None}]
       /\ owner \in [Fds -> Kinds \cup {"raw", None}]
       /\ None \notin Files /\ None \notin OpenFiles /\ "TcpListener" # None
       /\ "TcpListener" \in Kinds
    BY DescriptorsAssumption DEF Inv, TypeOK, DescTypeOK, Files, Kinds
<1>11. /\ table'[g] = f /\ owner'[g] = "TcpListener" /\ g # fd
       /\ \A h \in Fds \ {g} : table'[h] = table[h] /\ owner'[h] = owner[h]
       /\ file'[f] = new /\ new # None /\ \A q \in Files \ {f} : file'[q] = file[q]
       /\ table' \in [Fds -> Files \cup {None}] /\ file' \in [Files -> OpenFiles \cup {None}]
       /\ owner' \in [Fds -> Kinds \cup {"raw", None}]
    BY <1>3, <1>4, <1>7, <1>8, <1>10
<1>12. ASSUME NEW q \in Files, file[q] # None
       PROVE  /\ file'[q] # None /\ file'[q].kind = file[q].kind /\ file'[q].conn = file[q].conn
              /\ file'[q].peer = file[q].peer /\ file'[q].in = file[q].in
    BY <1>3, <1>9, <1>11, <1>12
<1>13. \A h \in Fds : table[h] # None => table[h] \in Files /\ file[table[h]] # None
    BY Opened DEF Inv
<1>14. TypeOK'
    <2>1. \A q \in Files : file'[q] # None <=> file[q] # None
        BY <1>3, <1>11
    <2>2. \A q \in Files : (\E h \in Fds : table'[h] = q) <=> (\E h \in Fds : table[h] = q)
        BY <1>3, <1>4, <1>10, <1>11
    <2>3. regs' \subseteq Fds \X Files /\ listed' \subseteq regs' /\ \A r \in regs' : file'[r[2]] # None
        BY <2>1, <1>5 DEF Inv, TypeOK, DescTypeOK
    <2>4. \A q \in Files : file'[q] # None <=> \E h \in Fds : table'[h] = q
        BY <2>1, <2>2 DEF Inv, TypeOK, DescTypeOK
    <2>5. QED
        BY <2>3, <2>4, <1>5, <1>11 DEF Inv, TypeOK, DescTypeOK
<1>15. FilesOK'
    <2>1. file'[f].end = "no" /\ ~file'[f].err /\ file'[f].conn # "pending"
        BY <1>3, <1>9, <1>11 DEF Inv, FilesOK
    <2>2. QED
        BY <2>1, <1>11 DEF Inv, FilesOK
<1>16. PeersOK'
    <2> SUFFICES ASSUME NEW q \in Files, file'[q] # None, file'[q].peer # None
                 PROVE  LET p == file'[q].peer
                        IN  /\ p \in Files /\ file'[p] # None /\ file'[p].peer = q
                            /\ file'[p].conn = file'[q].conn
                            /\ \/ file'[q].kind = "Receiver" /\ file'[p].kind = "Sender"
                               \/ file'[q].kind = "Sender" /\ file'[p].kind = "Receiver"
        BY DEF PeersOK
    <2>1. file[q] # None /\ file[q].peer # None /\ file'[q].peer = file[q].peer
        BY <1>3, <1>11, <1>12
    <2>2. file[q].peer \in Files /\ file[file[q].peer] # None
        BY <2>1 DEF Inv, PeersOK
    <2>3. QED
        BY <2>1, <2>2, <1>12 DEF Inv, PeersOK
<1>17. OwnersOK'
    <2> SUFFICES ASSUME NEW h \in Fds, owner'[h] # None
                 PROVE  /\ table'[h] # None /\ file'[table'[h]].nonblock
                        /\ owner'[h] \in {"raw", file'[table'[h]].kind}
                        /\ file'[table'[h]].kind \in {"Receiver", "Sender"} =>
                              file'[table'[h]].conn = "made"
        BY DEF OwnersOK
    <2>1. CASE table'[h] = f
        <3>1. owner'[h] \in {"raw", "TcpListener"}
            BY <2>1, <1>3, <1>11 DEF Inv, OwnersOK
        <3>2. QED
            BY <2>1, <3>1, <1>9, <1>10, <1>11
    <2>2. CASE table'[h] # f
        BY <2>2, <1>11, <1>13 DEF Inv, OwnersOK
    <2>3. QED
        BY <2>1, <2>2
<1>18. \A h \in Fds : table[h] = f => owner[h] # None
    BY <1>2, <1>3, <1>10 DEF Inv, SharedOK
<1>19. LeftOK'
    <2> SUFFICES ASSUME NEW h \in Fds, owner'[h] = None, table'[h] # None
                 PROVE  /\ file'[table'[h]].conn = "no" /\ file'[table'[h]].in = 0
                        /\ \A r \in regs : r[2] # table'[h]
        BY <1>5 DEF LeftOK
    <2>1. h # g /\ table'[h] = table[h] /\ owner[h] = None
        BY <1>10, <1>11
    <2>2. /\ file[table[h]].conn = "no" /\ file[table[h]].in = 0
          /\ \A r \in regs : r[2] # table[h]
        BY <2>1 DEF Inv, LeftOK
    <2>3. QED
        BY <2>1, <2>2, <1>12, <1>13
<1>20. SharedOK'
    <2> SUFFICES ASSUME NEW h \in Fds, NEW k \in Fds, h # k,
                        table'[h] # None, table'[h] = table'[k]
                 PROVE  /\ file'[table'[h]].kind = "TcpListener" /\ file'[table'[h]].cloned
                        /\ owner'[h] # None
        BY DEF SharedOK
    <2>1. CASE table'[h] = f
        <3>1. owner'[h] # None
            BY <2>1, <1>10, <1>11, <1>18
        <3>2. QED
            BY <2>1, <3>1, <1>9, <1>11
    <2>2. CASE table'[h] # f
        <3>1. table'[h] = table[h] /\ table'[k] = table[k] /\ owner'[h] = owner[h]
            BY <2>2, <1>11
        <3>2. /\ file[table[h]].kind = "TcpListener" /\ file[table[h]].cloned
              /\ owner[h] # None
            BY <3>1 DEF Inv, SharedOK
        <3>3. file'[table[h]] = file[table[h]]
            BY <2>2, <3>1, <1>11, <1>13
        <3>4. QED
            BY <3>1, <3>2, <3>3
    <2>3. QED
        BY <2>1, <2>2
<1>21. ASSUME NEW h \in registered \cup full
       PROVE  /\ h \in Fds \ {g} /\ owner'[h] = owner[h] /\ owner[h] # None
              /\ table'[h] = table[h] /\ table[h] \in Files /\ file[table[h]] # None
    BY <1>4, <1>11, <1>13 DEF Inv, TypeOK, RegisteredOK, FullOK, OwnersOK
<1>22. RegisteredOK' /\ FullOK'
    <2>1. ASSUME NEW h \in registered \cup full
          PROVE  file'[table'[h]].kind = file[table[h]].kind
        BY <1>12, <1>21
    <2>2. RegisteredOK'
        BY <2>1, <1>5, <1>21 DEF Inv, RegisteredOK
    <2>3. FullOK'
        BY <2>1, <1>5, <1>21 DEF Inv, FullOK
    <2>4. QED
        BY <2>2, <2>3
<1>23. DropDeregisters'
    <2> SUFFICES ASSUME NEW r \in regs, table'[r[1]] # r[2]
                 PROVE  file'[r[2]].kind = "TcpListener" /\ file'[r[2]].cloned
        BY <1>5 DEF DropDeregisters
    <2>1. r[1] \in Fds /\ r[2] \in Files /\ file[r[2]] # None
        BY DEF Inv, TypeOK, DescTypeOK
    <2>2. CASE r[2] = f
        BY <2>2, <1>9, <1>11
    <2>3. CASE r[2] # f
        <3>1. table[r[1]] # r[2]
            BY <2>1, <1>4, <1>10, <1>11
        <3>2. QED
            BY <2>1, <2>3, <3>1, <1>11 DEF Inv, DropDeregisters
    <2>4. QED
        BY <2>2, <2>3
<1>24. ASSUME NEW q \in Files, file[q] # None
       PROVE  Readable(q)' = Readable(q) /\ (q # f => Writable(q)' = Writable(q))
    <2>1. Readable(q)' = Readable(q)
        BY <1>9, <1>11 DEF Readable
    <2>2. ASSUME q # f, file[q].peer # None PROVE Writable(q)' = Writable(q)
        <3>1. PICK p \in Files : p = file[q].peer /\ file[p] # None /\ file'[p].in = file[p].in
            BY <2>2, <1>12, <1>24 DEF Inv, PeersOK
        <3>2. QED
            BY <2>2, <3>1, <1>11 DEF Writable
    <2>3. ASSUME q # f, file[q].peer = None PROVE Writable(q)' = Writable(q)
        BY <2>3, <1>11 DEF Writable
    <2>4. QED
        BY <2>1, <2>2, <2>3
<1>25. ReadTold'
    <2> SUFFICES ASSUME NEW h \in registered, file'[table'[h]].kind # "Sender", Readable(table[h])'
                 PROVE  h \in events \/ <<h, table[h]>> \in listed
        BY <1>5, <1>21 DEF ReadTold
    <2>1. PICK q \in Files : q = table[h] /\ q = table'[h] /\ file[q] # None
        BY <1>21
    <2>2. Readable(q) /\ file[q].kind # "Sender"
        BY <2>1, <1>12, <1>24
    <2>3. QED
        BY <2>1, <2>2 DEF Inv, ReadTold
<1>26. WriteTold'
    <2> SUFFICES ASSUME NEW h \in registered \cap full, Writable(table[h])'
                 PROVE  <<h, table[h]>> \in listed
        BY <1>5, <1>21 DEF WriteTold
    <2>1. PICK q \in Files : q = table[h] /\ q = table'[h] /\ file[q] # None
        BY <1>21
    <2>2. q # f
        BY <2>1, <1>3 DEF Inv, FullOK, Buffered
    <2>3. Writable(q)
        BY <2>1, <2>2, <1>24
    <2>4. QED
        BY <2>1, <2>3 DEF Inv, WriteTold
<1>27. QED
    BY <1>5, <1>14, <1>15, <1>16, <1>17, <1>19, <1>20, <1>22, <1>23, <1>25, <1>26
    DEF Inv, NeverStuck

-----------------------------------------------------------------------------
(* The theorems.                                                           *)

\* Nothing is open yet.
LEMMA InvInit ==
    ASSUME Init
    PROVE  Inv
<1>1. /\ table = [fd \in Fds |-> None] /\ file = [f \in Files |-> None]
      /\ regs = {} /\ listed = {} /\ owner = [fd \in Fds |-> None] /\ events = {} /\ full = {}
      /\ registered = {} /\ stuck = FALSE /\ traffic = 0 /\ calls \in Programs
    BY DEF Init, DescInit
<1>2. TypeOK
    <2>1. DescTypeOK
        BY <1>1, DescriptorsAssumption DEF DescTypeOK, Files
    <2>2. traffic \in 0..MaxTraffic /\ calls \in Seq(Constructors)
        BY <1>1, SocketsAssumption
    <2>3. QED
        BY <2>1, <2>2, <1>1 DEF TypeOK
<1>3. QED
    BY <1>1, <1>2 DEF Inv, FilesOK, PeersOK, OwnersOK, LeftOK, SharedOK, RegisteredOK, FullOK,
        DropDeregisters, ReadTold, WriteTold, NeverStuck

\* Every step keeps the invariant.
LEMMA InvNext ==
    ASSUME Inv, [Next]_vars
    PROVE  Inv'
<1>1. ASSUME Make PROVE Inv'
    BY <1>1, OpenSteps, NewPipeStep, TryCloneStep DEF Make
<1>2. ASSUME NEW fd \in Fds, Manage(fd) \/ Handle(fd) \/ Look(fd) \/ Send(fd) PROVE Inv'
    BY <1>2, ManageStep, HandleStep, LookStep, SendStep
<1>3. ASSUME NEW r \in listed, Poll(r) PROVE Inv'
    BY <1>3, PollStep
<1>4. ASSUME NEW f \in Files, Surroundings(f) PROVE Inv'
    BY <1>4, SurroundingsStep
<1>5. QED
    BY <1>1, <1>2, <1>3, <1>4, Stuttering DEF Next

\* The inductive invariant holds for any descriptors, programs and bounds.
THEOREM Invariant == Spec => []Inv
<1>1. Init => Inv
    BY InvInit
<1>2. Inv /\ [Next]_vars => Inv'
    BY InvNext
<1>3. QED
    BY <1>1, <1>2, PTL DEF Spec

\* No call on a handle ever blocks its thread: whatever numbers, events and clones
\* are about, every descriptor that is owned is in non-blocking mode.
THEOREM NoCallBlocks == Spec => []NeverStuck
<1>1. Inv => NeverStuck
    BY DEF Inv
<1>2. QED
    BY <1>1, Invariant, PTL

\* Descriptors, open files and registrations are accounted for: a handle's
\* descriptor is its own, and what failed calls leave open concerns nobody.
THEOREM AllAccounted == Spec => []DescriptorsAccounted
<1>1. ASSUME Inv PROVE DescriptorsAccounted
    <2>1. ASSUME NEW fd \in Fds, owner[fd] \in Kinds
          PROVE  table[fd] # None /\ file[table[fd]].kind = owner[fd]
        <3>1. owner[fd] # None /\ file[table[fd]].kind = owner[fd]
            BY <1>1, <2>1, OwnedKind
        <3>2. QED
            BY <1>1, <3>1 DEF Inv, OwnersOK
    <2>2. ASSUME NEW fd \in registered PROVE <<fd, table[fd]>> \in regs
        BY <1>1, <2>2 DEF Inv, RegisteredOK
    <2>3. ASSUME NEW fd \in Fds, owner[fd] = None, table[fd] # None
          PROVE  /\ file[table[fd]].conn = "no" /\ file[table[fd]].in = 0
                 /\ \A r \in regs : r[2] # table[fd]
        BY <1>1, <2>3 DEF Inv, LeftOK
    <2>4. TypeOK
        BY <1>1 DEF Inv
    <2>5. QED
        BY <2>1, <2>2, <2>3, <2>4 DEF DescriptorsAccounted
<1>2. QED
    BY <1>1, Invariant, PTL

\* A handle that is dropped leaves a registration behind only if it was cloned.
THEOREM OnlyClonesStayRegistered == Spec => []DropDeregisters
<1>1. Inv => DropDeregisters
    BY DEF Inv
<1>2. QED
    BY <1>1, Invariant, PTL

\* An application that drains misses nothing: what it waits for is on epoll's ready
\* list or in an event it still handles.
THEOREM NothingIsMissed == Spec => []NothingMissed
<1>1. ASSUME Inv, NEW fd \in Fds, Waits(fd)
      PROVE  fd \in events \/ <<fd, table[fd]>> \in listed
    <2>1. owner[fd] \in Kinds
        BY <1>1 DEF Waits, Evented
    <2>2. file[table[fd]].kind = owner[fd]
        BY <2>1, <1>1, OwnedKind
    <2>3. QED
        BY <2>2, <1>1 DEF Waits, Inv, ReadTold, WriteTold
<1>2. Inv => NothingMissed
    BY <1>1 DEF NothingMissed
<1>3. QED
    BY <1>2, Invariant, PTL
==============================================================================
