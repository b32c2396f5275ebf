------------------------------- MODULE Sockets --------------------------------
(***************************************************************************)
(* runtime/Clib/csocket.c and cselect.c: the socket objects over the       *)
(* descriptors of the process, and the DNS cache.                          *)
(*                                                                         *)
(* A client socket has two descriptors, the one connect or accept gave,    *)
(* which its input port owns, and a duplicate, which its output port owns; *)
(* the socket keeps the number of the first.  The kernel gives the lowest  *)
(* free number, so a number that is kept too long comes to stand for       *)
(* another socket.                                                         *)
(***************************************************************************)
EXTENDS Integers, Sequences, FiniteSets

CONSTANTS
  Socks,       \* socket objects
  Fds,         \* descriptor numbers; 0 is not among them: stdin stays open
  NoSock,      \* what a descriptor that is not a socket's belongs to
  Clients,     \* the threads that look names up
  Hosts,       \* host names, which all have the same hash key
  Validity,    \* bigloo-dns-cache-validity-timeout, in seconds
  MaxTime      \* bound: the last second

VARIABLES
  fds,         \* fds[d]: the socket that descriptor d was opened for, if any
  sock,        \* the socket objects
  lost,        \* descriptors that no object owns any more
  path,        \* the server that the path of the unix servers leads to, if any
  displaced,   \* auxiliary: servers whose path another one took or removed
  stray,       \* auxiliary: the socket that closed a descriptor of another one
  result       \* what the last call returned, and for a call that acts on a
               \* descriptor whether it is still the socket's

socketVars == <<fds, sock, lost, path, displaced, stray, result>>
pathVars   == <<path, displaced>>

None     == -1
Free     == "free"
NoObject == [kind |-> "none"]
(* The options that are not simply passed on, and the values they are      *)
(* given: a time in microseconds.                                          *)
Options  == {"timeval", "unsupported", "ttl"}
Values   == [timeval |-> {1500000, 2000001}, unsupported |-> {1}, ttl |-> {1}]
Done     == [kind |-> "done"]

InitSockets ==
  /\ fds = [d \in Fds |-> Free]
  /\ sock = [s \in Socks |-> NoObject] /\ lost = {} /\ stray = NoSock
  /\ path = NoSock /\ displaced = {} /\ result = Done

(* The kernel's choice among the free descriptors of f.                    *)
FreeOf(f) == {d \in Fds : f[d] = Free}
Lowest(f) == CHOOSE d \in FreeOf(f) : \A e \in FreeOf(f) : d <= e

Object(kind, fd, in, out, nonblock) ==
  [kind |-> kind, fd |-> fd, in |-> in, out |-> out, nonblock |-> nonblock,
   opt |-> [name |-> "timeval", value |-> 0]]

(* Mutant: both ports are given the same descriptor.                       *)
ShareDescriptor(f, s, kind, d, nonblock) ==
  [fds |-> f, obj |-> Object(kind, d, d, d, nonblock), lost |-> {}]

(* dup fails when no descriptor is left and fdopen may fail: the program   *)
(* then gets an error and d stays open without an owner.                   *)
SetSocketIoPorts(f, s, kind, d, nonblock) ==
  IF FreeOf(f) = {} THEN [fds |-> f, obj |-> NoObject, lost |-> {d}]
  ELSE LET t == Lowest(f) IN
       [fds |-> [f EXCEPT ![t] = s], obj |-> Object(kind, d, d, t, nonblock), lost |-> {}]

FdopenFails(d) == [fds |-> [fds EXCEPT ![d] = NoSock], obj |-> NoObject, lost |-> {d}]

Becomes(s, r) ==
  /\ fds' = r.fds /\ sock' = [sock EXCEPT ![s] = r.obj] /\ lost' = lost \cup r.lost
  /\ result' = Done /\ UNCHANGED stray /\ UNCHANGED pathVars

Opened(s) == LET d == Lowest(fds) IN [fds EXCEPT ![d] = s]

(* The connection succeeds at once, in time, too late or not at all.  Only *)
(* a connection in progress is made blocking again.  The name may be       *)
(* unknown, in which case no descriptor is opened.                         *)
BglMakeClientSocket(s, timeo, outcome) ==
  /\ sock[s] = NoObject /\ FreeOf(fds) # {}
  /\ outcome = "in progress" => timeo
  /\ LET d == Lowest(fds) IN
     CASE outcome = "at once" -> Becomes(s, SetSocketIoPorts(Opened(s), s, "client", d, timeo))
       [] outcome = "in progress" -> Becomes(s, SetSocketIoPorts(Opened(s), s, "client", d, FALSE))
       [] outcome = "no file" -> Becomes(s, FdopenFails(d))
       [] OTHER -> UNCHANGED socketVars

(* No wait for a connection in progress: it counts as a failure.           *)
BglMakeClientUnixSocket(s, timeo) ==
  /\ sock[s] = NoObject /\ FreeOf(fds) # {}
  /\ Becomes(s, SetSocketIoPorts(Opened(s), s, "unix", Lowest(fds), timeo))

(* setsockopt and an unknown name leave the descriptor open; bind,         *)
(* getsockname and listen close it.                                        *)
BglMakeServerSocket(s, outcome) ==
  /\ sock[s] = NoObject /\ FreeOf(fds) # {}
  /\ LET d == Lowest(fds) IN
     CASE outcome = "ok" ->
            Becomes(s, [fds |-> Opened(s), obj |-> Object("server", d, None, None, FALSE), lost |-> {}])
       [] outcome = "option or name" ->
            Becomes(s, [fds |-> Opened(NoSock), obj |-> NoObject, lost |-> {d}])
       [] OTHER -> UNCHANGED socketVars

(* What a path led to before it is given to another server, or removed.    *)
Displaces(s) == displaced' = IF path \in {s, NoSock} THEN displaced ELSE displaced \cup {path}

(* The file of the path is removed, whoever made it, before the socket is  *)
(* bound to it.                                                            *)
BglMakeServerUnixSocket(s, outcome) ==
  /\ sock[s] = NoObject /\ FreeOf(fds) # {}
  /\ path' = IF outcome = "ok" THEN s ELSE NoSock
  /\ Displaces(s)
  /\ IF outcome # "ok" THEN UNCHANGED <<fds, sock>>
     ELSE /\ fds' = Opened(s)
          /\ sock' = [sock EXCEPT ![s] = Object("unix server", Lowest(fds), None, None, FALSE)]
  /\ result' = Done /\ UNCHANGED <<lost, stray>>

Servers == {"server", "unix server"}

(* accept on a non-blocking socket without a connection fails like any     *)
(* other error of accept: the program gets an error or #f.                 *)
BglSocketAccept(serv, s) ==
  /\ sock[serv].kind \in Servers /\ sock[serv].fd # None /\ sock[s] = NoObject
  /\ FreeOf(fds) # {}
  /\ Becomes(s, SetSocketIoPorts(Opened(s), s, "client", Lowest(fds), FALSE))

(* An error of select returns before the server is made blocking again,    *)
(* and so does an accept that cannot make its ports.                       *)
BglSocketAcceptMany(serv, s, outcome) ==
  /\ sock[serv].kind \in Servers /\ sock[serv].fd # None /\ sock[s] = NoObject
  /\ FreeOf(fds) # {}
  /\ LET r == SetSocketIoPorts(Opened(s), s, "client", Lowest(fds), FALSE)
         server(b) == [sock EXCEPT ![serv].nonblock = b]
     IN CASE outcome = "select" -> sock' = server(TRUE) /\ UNCHANGED <<fds, lost>>
          [] outcome = "one" /\ r.lost = {} ->
               /\ fds' = r.fds /\ sock' = [server(FALSE) EXCEPT ![s] = r.obj] /\ UNCHANGED lost
          [] outcome = "one" /\ r.lost # {} ->
               /\ fds' = r.fds /\ sock' = server(TRUE) /\ lost' = lost \cup r.lost
          [] OTHER -> sock' = server(FALSE) /\ UNCHANGED <<fds, lost>>
  /\ result' = Done /\ UNCHANGED stray /\ UNCHANGED pathVars
-----------------------------------------------------------------------------
(* close of a number: whatever it stands for now is closed.                *)
Closes(f, d) == IF d = None THEN f ELSE [f EXCEPT ![d] = Free]
IsStray(f, s, d) == d # None /\ f[d] # s

(* Mutant: a closed port is closed again.                                  *)
ClosedStaysOpen(s) == sock[s]

InputClosed(s) == [sock[s] EXCEPT !.in = None]

(* close-input-port of a socket's port: the socket keeps the number.       *)
CloseInput(s) ==
  /\ sock[s].kind \in {"client", "unix", "datagram server"} /\ sock[s].in # None
  /\ fds' = Closes(fds, sock[s].in)
  /\ stray' = IF IsStray(fds, s, sock[s].in) THEN s ELSE NoSock
  /\ sock' = [sock EXCEPT ![s] = InputClosed(s)]
  /\ result' = Done /\ UNCHANGED lost /\ UNCHANGED pathVars

CloseOutput(s) ==
  /\ sock[s].kind \in {"client", "unix"} /\ sock[s].out # None
  /\ fds' = Closes(fds, sock[s].out)
  /\ stray' = IF IsStray(fds, s, sock[s].out) THEN s ELSE NoSock
  /\ sock' = [sock EXCEPT ![s].out = None]
  /\ result' = Done /\ UNCHANGED lost /\ UNCHANGED pathVars

SocketCloses(s) == [sock[s] EXCEPT !.fd = None, !.in = None, !.out = None]

(* The close hook of a unix server removes its path, even when that leads  *)
(* to another server by now.                                               *)
ServerUnixSocketCloseHook(s) ==
  IF sock[s].kind = "unix server" THEN path' = NoSock /\ Displaces(s) ELSE UNCHANGED pathVars

(* The descriptor is closed with the input port.  A server socket has no   *)
(* port.                                                                   *)
SocketClose(s) ==
  /\ sock[s].kind \in {"client", "unix"} \cup Servers /\ sock[s].fd > 0
  /\ LET after == SocketCloses(s)
         f == IF after.in = sock[s].in THEN fds ELSE Closes(fds, sock[s].in)
         g == IF after.out = sock[s].out THEN f ELSE Closes(f, sock[s].out)
     IN /\ fds' = g
        /\ stray' = IF IsStray(fds, s, sock[s].in) \/ IsStray(f, s, sock[s].out)
                    THEN s ELSE NoSock
        /\ sock' = [sock EXCEPT ![s] = after]
        /\ lost' = IF sock[s].kind \in Servers THEN lost \cup {sock[s].fd} ELSE lost
  /\ ServerUnixSocketCloseHook(s) /\ result' = Done

(* Servers and datagram clients have no port that could close the          *)
(* descriptor.                                                             *)
Own(s) == fds[sock[s].fd] = s
Acted(s) ==
  [kind |-> "acted", own |-> Own(s),
   open |-> sock[s].kind \in Servers \cup {"datagram client"} \/ sock[s].in # None]

SocketShutdown(s) ==
  /\ sock[s].kind \in {"client", "unix"} \cup Servers /\ sock[s].fd > 0
  /\ result' = Acted(s) /\ UNCHANGED <<fds, sock, lost, stray, path, displaced>>

(* A time is split into seconds and microseconds.                          *)
SetTimeval(v) == [tv_sec |-> v \div 1000000, tv_usec |-> v % 1000000]

(* Mutant: the seconds are taken for microseconds.                         *)
AddTimeval(t) == t.tv_sec + t.tv_usec

BTimeval(t) == t.tv_sec * 1000000 + t.tv_usec

(* SO_TIMEOUT is not supported.  The option is set for whatever socket the *)
(* number of the descriptor stands for.                                    *)
BglSetsockopt(s, o, v) ==
  /\ sock[s].kind # "none" /\ sock[s].fd # None
  /\ result' = Acted(s)
  /\ LET owner == fds[sock[s].fd] IN
     sock' = IF o = "unsupported" \/ owner \notin Socks \/ sock[owner] = NoObject THEN sock
             ELSE [sock EXCEPT ![owner].opt = [name |-> o, value |-> v]]
  /\ UNCHANGED <<fds, lost, stray, path, displaced>>

(* The time to live of multicast packets is written at the level of TCP    *)
(* and read at that of sockets, which has no such option.                  *)
Read(o, v) == CASE o = "timeval" -> BTimeval(SetTimeval(v))
                [] o = "ttl" -> None
                [] OTHER -> v

(* The last option that was set is followed.                               *)
BglGetsockopt(s, o) ==
  /\ sock[s].kind # "none" /\ sock[s].fd # None
  /\ LET opt == sock[s].opt IN
     result' = IF ~ Own(s) THEN Acted(s)
               ELSE IF opt.name # o THEN Done
               ELSE [kind |-> "option", name |-> o, set |-> opt.value, got |-> Read(o, opt.value)]
  /\ UNCHANGED <<fds, sock, lost, stray, path, displaced>>
-----------------------------------------------------------------------------
(* A datagram socket with its input port, if it has one.                   *)
Datagram(s, kind, in) ==
  Becomes(s, [fds |-> Opened(s), lost |-> {}, obj |-> Object(kind, Lowest(fds), in, None, FALSE)])

(* An error after the descriptor was opened that does not close it.        *)
Leak(s) == Becomes(s, [fds |-> Opened(NoSock), obj |-> NoObject, lost |-> {Lowest(fds)}])

(* A client has an output port that writes to the socket and has no        *)
(* descriptor.  A socket that cannot be set to broadcast stays open.       *)
BglMakeDatagramClientSocket(s, outcome) ==
  /\ sock[s] = NoObject /\ FreeOf(fds) # {}
  /\ CASE outcome = "ok" -> Datagram(s, "datagram client", None)
       [] outcome = "option" -> Leak(s)
       [] OTHER -> UNCHANGED socketVars

(* A server has an input port on its descriptor.  Only a failed bind       *)
(* closes the descriptor: setsockopt and fdopen leave it open.             *)
BglMakeDatagramServerSocket(s, outcome) ==
  /\ sock[s] = NoObject /\ FreeOf(fds) # {}
  /\ CASE outcome = "ok" -> Datagram(s, "datagram server", Lowest(fds))
       [] outcome \in {"option", "fdopen"} -> Leak(s)
       [] OTHER -> UNCHANGED socketVars

BglMakeDatagramUnboundSocket(s, outcome) ==
  /\ sock[s] = NoObject /\ FreeOf(fds) # {}
  /\ IF outcome = "ok" THEN Datagram(s, "datagram server", Lowest(fds)) ELSE Leak(s)

(* The descriptor is closed and the number forgotten; the input port of a  *)
(* server is not closed and still has it.  The close function of a         *)
(* client's output port is given the socket where it takes a descriptor.   *)
BglDatagramSocketClose(s) ==
  /\ sock[s].kind \in {"datagram client", "datagram server"} /\ sock[s].fd > 0
  /\ fds' = Closes(fds, sock[s].fd)
  /\ stray' = IF IsStray(fds, s, sock[s].fd) THEN s ELSE NoSock
  /\ sock' = [sock EXCEPT ![s].fd = None]
  /\ result' = Done /\ UNCHANGED lost /\ UNCHANGED pathVars

(* What is written to the port of a client goes to its descriptor.         *)
DatagramSocketWrite(s) ==
  /\ sock[s].kind = "datagram client" /\ sock[s].fd >= 0
  /\ result' = Acted(s) /\ UNCHANGED <<fds, sock, lost, stray, path, displaced>>

(* sendto and recvfrom of an open socket.                                  *)
BglDatagramSocketTransfer(s) ==
  /\ sock[s].kind = "datagram server" /\ sock[s].fd >= 0
  /\ result' = Acted(s) /\ UNCHANGED <<fds, sock, lost, stray, path, displaced>>
-----------------------------------------------------------------------------
Objfd(s, dir) == IF sock[s].kind \in {"client", "unix"}
                 THEN IF dir = -1 THEN sock[s].in ELSE sock[s].out
                 ELSE None

(* Mutant: the descriptor of the last file serves for all.                 *)
ReadLast(rs, set) == IF \E s \in rs : Objfd(s, -1) \in set THEN rs ELSE {}

Readers(rs, set) == {s \in rs : Objfd(s, -1) > 0 /\ Objfd(s, -1) \in set}

(* The set of the files to write is built when a file to read was given    *)
(* (the test is on the largest descriptor so far), and what is reported is *)
(* looked up by the descriptor to read.                                    *)
Writers(rs, ws, set) ==
  {s \in ws : Objfd(s, -1) > 0 /\ Objfd(s, -1) \in set
              /\ \E r \in rs : Objfd(r, -1) > 0 /\ \E w \in ws : Objfd(w, 1) = Objfd(s, -1)}

BglSelect(rs, ws, ready) ==
  /\ \A s \in rs \cup ws : sock[s].kind \in {"client", "unix"} /\ sock[s].in # None
  /\ result' = [kind |-> "select", read |-> Readers(rs, {Objfd(s, -1) : s \in ready}),
                write |-> Writers(rs, ws, {Objfd(s, 1) : s \in ws}),
                ready |-> ready]
  /\ UNCHANGED <<fds, sock, lost, stray, path, displaced>>

SocketSteps ==
  \/ \E s \in Socks :
       \/ \E timeo \in BOOLEAN :
            \/ \E outcome \in {"at once", "in progress", "no file", "refused"} :
                 BglMakeClientSocket(s, timeo, outcome)
            \/ BglMakeClientUnixSocket(s, timeo)
       \/ \E outcome \in {"ok", "option or name", "bind or listen"} : BglMakeServerSocket(s, outcome)
       \/ \E outcome \in {"ok", "bind or listen"} : BglMakeServerUnixSocket(s, outcome)
       \/ \E serv \in Socks :
            \/ BglSocketAccept(serv, s)
            \/ \E outcome \in {"select", "one", "none"} : BglSocketAcceptMany(serv, s, outcome)
       \/ CloseInput(s) \/ CloseOutput(s) \/ SocketClose(s) \/ SocketShutdown(s)
       \/ \E o \in Options : BglGetsockopt(s, o) \/ \E v \in Values[o] : BglSetsockopt(s, o, v)
       \/ \E outcome \in {"ok", "option", "fdopen", "bind"} :
            \/ BglMakeDatagramClientSocket(s, outcome) \/ BglMakeDatagramServerSocket(s, outcome)
       \/ \E outcome \in {"ok", "fdopen"} : BglMakeDatagramUnboundSocket(s, outcome)
       \/ DatagramSocketWrite(s)
       \/ BglDatagramSocketClose(s) \/ BglDatagramSocketTransfer(s)
  \/ \E rs, ws \in SUBSET Socks : \E ready \in SUBSET rs : BglSelect(rs, ws, ready)

(* Nothing is said of a process that closed a descriptor of another one.   *)
SocketNext == stray = NoSock /\ SocketSteps
-----------------------------------------------------------------------------
(* Only a datagram server, whose socket and whose input port both close    *)
(* the one descriptor, ever closes a descriptor of another socket.  Until  *)
(* one did, the ports of client and unix sockets have descriptors of their *)
(* own, a closed socket has none left, and every open descriptor belongs   *)
(* to an object that can still close it or is one of those that were lost. *)
(* An open unix server is at its path, unless another one was made or      *)
(* closed there.                                                           *)
Descriptors ==
  /\ \A s \in Socks : sock[s].kind = "unix server" /\ sock[s].fd # None
       => path = s \/ s \in displaced
  /\ stray # NoSock => sock[stray].kind = "datagram server"
  /\ stray = NoSock =>
       /\ \A d \in Fds : fds[d] \in Socks /\ d \notin lost =>
            LET o == sock[fds[d]] IN o.kind # "none" /\ d \in {o.fd, o.in, o.out}
       /\ \A s \in Socks : sock[s].kind \in {"client", "unix"} =>
            /\ sock[s].in # None => fds[sock[s].in] = s
            /\ sock[s].out # None => fds[sock[s].out] = s

(* What is shut down, sent to or given an option is the socket itself:     *)
(* always for a server and a datagram client, and for the others as long   *)
(* as their input port was not closed on its own; an option that is read   *)
(* back has the value it was given, except for the time to live of         *)
(* multicast packets; the sockets that select reports as readable are      *)
(* those that are.                                                         *)
Addressed ==
  /\ result.kind = "acted" /\ stray = NoSock => result.own \/ ~ result.open
  /\ result.kind = "option" /\ result.name # "ttl" => result.got = result.set
  /\ result.kind = "select" => result.read = result.ready

(***************************************************************************)
(* The DNS cache: two tables of one entry per hash key, hosttable for the  *)
(* addresses of a name and addrtable for the name of an address, both      *)
(* under socket_mutex.  A lookup keeps the mutex while it asks the DNS, so *)
(* it is one step here, and no other thread ever sees the PENDING entry it *)
(* stores first.  A thread that cannot connect to the address it was given *)
(* invalidates the entry of that host.  This is the build with getaddrinfo *)
(* and getnameinfo.                                                        *)
(***************************************************************************)
(* Addresses as sequences of bytes.  They also share one hash key.         *)
Addresses == {<<1, 0, 2>>, <<1, 0, 3>>, <<1, 4, 2>>}
Forever   == MaxTime + 1   \* LONG_MAX, the expiration of a failed reverse lookup

VARIABLES
  now,         \* time(0)
  hosttable,   \* the entry of hosttable at the key of the hosts, or 0
  addrtable,   \* the entry of addrtable at the key of the addresses, or 0
  client,      \* the host that each client connects to, or "none"
  answer       \* what a client was told last, and when

resolverVars == <<now, hosttable, addrtable, client, answer>>

NoEntry     == [state |-> "none"]
Families == {"inet", "inet6"}

InitResolver ==
  /\ now = 0 /\ hosttable = NoEntry /\ addrtable = NoEntry
  /\ client = [c \in Clients |-> "none"] /\ answer = [kind |-> "none"]

(* Auxiliary: the question to the DNS that an entry was made from, and     *)
(* whether a connection to that host failed since.                         *)
Asked(what, ok) == [what |-> what, at |-> now, ok |-> ok, spoilt |-> FALSE]

(* A question, and the entry made of the answer: addresses of the family   *)
(* asked for, valid for Validity seconds, or a failure, valid for a quarter*)
(* of that.  Only a question for the canonical name brings aliases.        *)
BglHostentByName(h, canon, family, ok) ==
  [hostaddr |-> h, family |-> family, aliases |-> canon, dns |-> Asked(h, ok),
   state |-> IF ok THEN "ok" ELSE "failure",
   exptime |-> now + (IF ok THEN Validity ELSE Validity \div 4)]

(* Mutants: an entry whose time is over, or of another host, still serves. *)
UsableForever(e, h, canon) == e # NoEntry /\ e.hostaddr = h /\ (canon => e.aliases)
UsableForAll(e, h, canon) == e # NoEntry /\ now - e.exptime <= 0 /\ (canon => e.aliases)

(* The family of the answer is not looked at.                              *)
Usable(e, h, canon) ==
  e # NoEntry /\ e.hostaddr = h /\ now - e.exptime <= 0 /\ (canon => e.aliases)

Told(c, h, e) ==
  /\ answer' = [kind |-> "host", what |-> h, ok |-> e.state = "ok",
                dns |-> e.dns, when |-> now]
  /\ client' = [client EXCEPT ![c] = IF e.state = "ok" THEN h ELSE "none"]

BglHostByName(c, h, canon, family) ==
  /\ client[c] = "none"
  /\ IF Usable(hosttable, h, canon)
     THEN Told(c, h, hosttable) /\ UNCHANGED hosttable
     ELSE \E ok \in BOOLEAN :
            LET e == BglHostentByName(h, canon, family, ok) IN
            hosttable' = e /\ Told(c, h, e)
  /\ UNCHANGED <<now, addrtable>>

(* bigloo-dns-enable-cache #f: the DNS is always asked.                    *)
HostByNameNoCache(c, h, canon, family) ==
  /\ client[c] = "none"
  /\ \E ok \in BOOLEAN : Told(c, h, BglHostentByName(h, canon, family, ok))
  /\ UNCHANGED <<now, hosttable, addrtable>>

Spoilt(e, h) == IF e # NoEntry /\ e.dns.what = h THEN [e EXCEPT !.dns.spoilt = TRUE] ELSE e

(* Mutant: the test of bigloo_strcmp, which is true for equal strings, is  *)
(* written as for strcmp.                                                  *)
InvalidateOthers(h) ==
  hosttable' = IF hosttable # NoEntry /\ hosttable.hostaddr # h THEN NoEntry ELSE Spoilt(hosttable, h)

InvalidateHostByName(h) ==
  hosttable' = IF hosttable # NoEntry /\ hosttable.hostaddr = h THEN NoEntry ELSE Spoilt(hosttable, h)

(* bgl_make_client_socket connects to the first address it was given.      *)
ConnectFails(c) ==
  /\ client[c] # "none"
  /\ InvalidateHostByName(client[c])
  /\ client' = [client EXCEPT ![c] = "none"]
  /\ UNCHANGED <<now, addrtable, answer>>

Connected(c) ==
  /\ client[c] # "none"
  /\ client' = [client EXCEPT ![c] = "none"]
  /\ UNCHANGED <<now, hosttable, addrtable, answer>>
-----------------------------------------------------------------------------
(* strncmp on the bytes of two addresses stops at a zero byte.             *)
UpToZero(a) == LET z == {i \in DOMAIN a : a[i] = 0} IN
               IF z = {} THEN a ELSE SubSeq(a, 1, CHOOSE i \in z : \A j \in z : i <= j)

(* A name that is not found is stored too, as PENDING, for ever.           *)
MakeBglHostentByAddr(a, ok) ==
  [hostaddr |-> a, dns |-> Asked(a, ok),
   state |-> IF ok THEN "ok" ELSE "pending", exptime |-> IF ok THEN now + Validity ELSE Forever]

(* Mutant: the address is not compared.                                    *)
AnyAddress(e, a) == e # NoEntry /\ now - e.exptime <= 0

SameAddress(e, a) == e # NoEntry /\ UpToZero(e.hostaddr) = UpToZero(a) /\ now - e.exptime <= 0

NamedAs(a, e, name) ==
  answer' = [kind |-> "name", what |-> a, name |-> name, dns |-> e.dns, when |-> now]

(* The caller of bglhostbyaddr takes the name of the entry it is given,    *)
(* the empty string where the entry was just made for a failure, and the   *)
(* address itself where it is given no entry.                              *)
GetSocketHostname(a) ==
  /\ IF SameAddress(addrtable, a)
     THEN /\ NamedAs(a, addrtable, IF addrtable.state = "ok" THEN "name" ELSE "address")
          /\ UNCHANGED addrtable
     ELSE \E ok \in BOOLEAN :
            LET e == MakeBglHostentByAddr(a, ok) IN
            /\ addrtable' = e
            /\ NamedAs(a, e, IF ok THEN "name" ELSE "empty")
  /\ UNCHANGED <<now, hosttable, client>>

Second ==
  /\ now < MaxTime /\ now' = now + 1
  /\ UNCHANGED <<hosttable, addrtable, client, answer>>

HostNext ==
  \/ Second
  \/ \E c \in Clients :
       \/ \E h \in Hosts, canon \in BOOLEAN, family \in Families :
            BglHostByName(c, h, canon, family)
       \/ \E h \in Hosts : HostByNameNoCache(c, h, FALSE, "inet")
       \/ ConnectFails(c) \/ Connected(c)

AddrNext == Second \/ \E a \in Addresses : GetSocketHostname(a)
-----------------------------------------------------------------------------
(* What a client is told of a host is what the DNS answered for that very  *)
(* host, within the validity of the answer, a quarter of it for a failure, *)
(* and after the last time the client or another one could not connect to  *)
(* that host.  The name of an address was given for an address that is the *)
(* same up to its first zero byte.                                         *)
AnswersAreCurrent ==
  LET q == answer.dns
      age == answer.when - q.at
  IN /\ answer.kind = "host" =>
          /\ q.what = answer.what /\ q.ok = answer.ok
          /\ age <= IF answer.ok THEN Validity ELSE Validity \div 4
          /\ ~ q.spoilt
     /\ answer.kind = "name" =>
          /\ UpToZero(q.what) = UpToZero(answer.what)
          /\ (answer.name = "name") = q.ok
          /\ q.ok => age <= Validity
-----------------------------------------------------------------------------
(* 0 is not a number that the kernel gives, and nothing that stands for    *)
(* nobody is a socket.                                                     *)
NetworkConstants ==
  /\ Fds \subseteq Nat \ {0} /\ Validity \in Nat /\ MaxTime \in Nat
  /\ NoSock \notin Socks /\ Free \notin Socks /\ NoSock # Free

networkVars == <<socketVars, resolverVars>>

(* The sockets and the resolver share nothing but the mutex.               *)
NetworkNext ==
  \/ SocketNext /\ UNCHANGED resolverVars
  \/ (HostNext \/ AddrNext) /\ UNCHANGED socketVars

NetworkSpec == InitSockets /\ InitResolver /\ [][NetworkNext]_networkVars

(* A name resolves to what the name server said last within the validity   *)
(* of the cache, and the sockets of a program use and close their own      *)
(* descriptors, at the address that was asked for.                         *)
NetworkExact == AnswersAreCurrent /\ Descriptors /\ Addressed
=============================================================================
