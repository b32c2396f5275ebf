---------------------------- MODULE NetworkProofs ----------------------------
(***************************************************************************)
(* Sockets, the DNS cache (Sockets) and what travels over TLS              *)
(* (SslConnection), for any number of sockets, descriptors, hosts, texts   *)
(* and sessions.                                                           *)
(***************************************************************************)
EXTENDS Sockets, SslConnection, FiniteSetTheorems, SequenceTheorems, WellFoundedInduction, TLAPS

-----------------------------------------------------------------------------
(* The DNS cache.  An entry is what the DNS answered for its own host, and *)
(* expires when the answer does.                                           *)
HostEntry ==
  [hostaddr : Hosts, family : Families, aliases : BOOLEAN, state : {"ok", "failure"}, exptime : Int,
   dns : [what : Hosts, at : Int, ok : BOOLEAN, spoilt : {FALSE}]]
AddrEntry ==
  [hostaddr : Addresses, state : {"ok", "pending"}, exptime : Int,
   dns : [what : Addresses, at : Int, ok : BOOLEAN, spoilt : {FALSE}]]

HostCached(e) ==
  /\ e.dns.what = e.hostaddr /\ (e.dns.ok <=> e.state = "ok")
  /\ e.exptime = e.dns.at + (IF e.dns.ok THEN Validity ELSE Validity \div 4)

AddrCached(e) ==
  /\ e.dns.what = e.hostaddr /\ (e.dns.ok <=> e.state = "ok")
  /\ e.dns.ok => e.exptime = e.dns.at + Validity

ResolverInv ==
  /\ now \in Int
  /\ hosttable = NoEntry \/ (hosttable \in HostEntry /\ HostCached(hosttable))
  /\ addrtable = NoEntry \/ (addrtable \in AddrEntry /\ AddrCached(addrtable))

(* A host that a client connects to was one that it asked for.             *)
ClientInv == client \in [Clients -> Hosts \cup {"none"}]

-----------------------------------------------------------------------------
(* What socket s, with the object o, holds of the descriptors f.  Only     *)
(* which of them are its own matters.                                      *)
Kept(f, o, s) ==
  /\ o.kind \in {"client", "unix"} =>
       /\ o.in # None => o.fd = o.in /\ f[o.in] = s
       /\ o.in = None /\ o.fd # None => f[o.fd] # s
       /\ o.out # None => f[o.out] = s /\ o.out # o.fd
  /\ o.kind \in Servers \cup {"datagram client"} =>
       /\ o.in = None /\ o.out = None
       /\ o.fd # None => f[o.fd] = s
  /\ o.kind = "datagram server" =>
       /\ o.out = None
       /\ o.fd # None /\ o.in # None => o.fd = o.in /\ f[o.fd] = s

Owned(f, o, l, s) ==
  \A d \in Fds : f[d] = s /\ d \notin l => o.kind # "none" /\ d \in {o.fd, o.in, o.out}

Number == Fds \cup {None}
Socket ==
  [kind : {"client", "unix", "datagram client", "datagram server"} \cup Servers,
   fd : Number, in : Number, out : Number, nonblock : BOOLEAN,
   opt : [name : Options, value : Nat]]

SocketTypes ==
  /\ fds \in [Fds -> Socks \cup {Free, NoSock}]
  /\ sock \in [Socks -> {NoObject} \cup Socket]
  /\ stray \in Socks \cup {NoSock} /\ path \in Socks \cup {NoSock}
  /\ stray # NoSock => sock[stray].kind = "datagram server"

HoldInv ==
  stray = NoSock => \A s \in Socks : Kept(fds, sock[s], s) /\ Owned(fds, sock[s], lost, s)

PathInv ==
  \A s \in Socks : sock[s].kind = "unix server" /\ sock[s].fd # None => path = s \/ s \in displaced

SocketsInv == SocketTypes /\ HoldInv /\ PathInv /\ Addressed

-----------------------------------------------------------------------------
LEMMA ResolverStarts ==
  ASSUME NetworkConstants, InitResolver
  PROVE  ResolverInv /\ ClientInv /\ AnswersAreCurrent
BY DEF InitResolver, ResolverInv, ClientInv, AnswersAreCurrent

(* What a client is told out of an entry that has not expired.             *)
LEMMA ToldCurrent ==
  ASSUME NetworkConstants, ResolverInv, ClientInv, NEW c \in Clients, NEW h \in Hosts,
         NEW e \in HostEntry, HostCached(e), e.hostaddr = h, now - e.exptime <= 0, Told(c, h, e)
  PROVE  AnswersAreCurrent' /\ ClientInv'
<1>1. e.dns \in [what : Hosts, at : Int, ok : BOOLEAN, spoilt : {FALSE}] /\ e.exptime \in Int
  BY DEF HostEntry
<1>2. Validity \div 4 \in Int /\ Validity \in Int /\ now \in Int
  BY DEF NetworkConstants, ResolverInv
<1>3. answer' = [kind |-> "host", what |-> h, ok |-> e.state = "ok", dns |-> e.dns, when |-> now]
  BY DEF Told
<1>4. /\ e.dns.what = h /\ (e.dns.ok <=> e.state = "ok")
      /\ e.exptime = e.dns.at + (IF e.dns.ok THEN Validity ELSE Validity \div 4)
  BY DEF HostCached
<1>5. ~ e.dns.spoilt /\ e.dns.at \in Int
  BY <1>1
<1>6. now - e.dns.at <= IF e.dns.ok THEN Validity ELSE Validity \div 4
  <2> DEFINE valid == IF e.dns.ok THEN Validity ELSE Validity \div 4
  <2>1. valid \in Int
    BY <1>2
  <2>2. e.exptime = e.dns.at + valid
    BY <1>4
  <2> HIDE DEF valid
  <2>3. now - e.dns.at <= valid
    BY <1>1, <1>2, <1>5, <2>1, <2>2
  <2> QED BY <2>3 DEF valid
<1>7. AnswersAreCurrent'
  BY <1>1, <1>3, <1>4, <1>5, <1>6 DEF AnswersAreCurrent
<1>8. ClientInv'
  BY DEF Told, ClientInv
<1> QED BY <1>7, <1>8

(* A new entry.                                                            *)
LEMMA EntryMade ==
  ASSUME NetworkConstants, ResolverInv, NEW h \in Hosts, NEW canon \in BOOLEAN,
         NEW family \in Families, NEW ok \in BOOLEAN
  PROVE  LET e == BglHostentByName(h, canon, family, ok)
         IN e \in HostEntry /\ HostCached(e) /\ e.hostaddr = h /\ now - e.exptime <= 0
<1>1. Validity \div 4 \in Nat /\ Validity \in Nat /\ now \in Int
  BY DEF NetworkConstants, ResolverInv
<1> DEFINE valid == IF ok THEN Validity ELSE Validity \div 4
           dns == Asked(h, ok)
           state == IF ok THEN "ok" ELSE "failure"
           e == [hostaddr |-> h, family |-> family, aliases |-> canon, dns |-> dns,
                 state |-> state, exptime |-> now + valid]
<1>2. valid \in Nat
  BY <1>1
<1>3. /\ dns \in [what : Hosts, at : Int, ok : BOOLEAN, spoilt : {FALSE}]
      /\ dns.what = h /\ dns.at = now /\ dns.ok = ok
  BY <1>1 DEF Asked
<1>4. e = BglHostentByName(h, canon, family, ok)
  BY DEF BglHostentByName
<1>10. state \in {"ok", "failure"} /\ (state = "ok" <=> ok)
  OBVIOUS
<1>5. valid = IF dns.ok THEN Validity ELSE Validity \div 4
  BY <1>3
<1> HIDE DEF valid, dns, state
<1>6. e \in HostEntry /\ e.hostaddr = h /\ e.dns = dns /\ e.exptime = now + valid /\ e.state = state
  <2>1. now + valid \in Int
    BY <1>1, <1>2
  <2>2. e \in HostEntry
    BY <1>3, <1>10, <2>1, Zenon DEF HostEntry
  <2> QED BY <2>2
<1>7. e.dns.ok <=> e.state = "ok"
  <2> HIDE DEF e
  <2> QED BY <1>3, <1>10, <1>6
<1>8. HostCached(e)
  BY <1>3, <1>5, <1>6, <1>7 DEF HostCached
<1>9. now - e.exptime <= 0
  BY <1>1, <1>2, <1>6
<1> QED BY <1>4, <1>6, <1>8, <1>9

LEMMA HostSteps ==
  ASSUME NetworkConstants, ResolverInv, ClientInv, AnswersAreCurrent, HostNext
  PROVE  ResolverInv' /\ ClientInv' /\ AnswersAreCurrent'
<1>1. CASE Second
  BY <1>1 DEF Second, ResolverInv, ClientInv, AnswersAreCurrent, HostCached, AddrCached
<1>2. ASSUME NEW c \in Clients, NEW h \in Hosts, NEW canon \in BOOLEAN, NEW family \in Families,
             BglHostByName(c, h, canon, family)
      PROVE  ResolverInv' /\ ClientInv' /\ AnswersAreCurrent'
  <2>1. CASE Usable(hosttable, h, canon)
    <3>1. /\ hosttable \in HostEntry /\ HostCached(hosttable)
          /\ hosttable.hostaddr = h /\ now - hosttable.exptime <= 0
      BY <2>1 DEF Usable, ResolverInv
    <3>2. Told(c, h, hosttable) /\ UNCHANGED <<hosttable, now, addrtable>>
      BY <1>2, <2>1 DEF BglHostByName
    <3>3. AnswersAreCurrent' /\ ClientInv'
      BY <3>1, <3>2, ToldCurrent
    <3> QED BY <3>2, <3>3 DEF ResolverInv, HostCached, AddrCached
  <2>2. CASE ~ Usable(hosttable, h, canon)
    <3>1. PICK ok \in BOOLEAN : /\ hosttable' = BglHostentByName(h, canon, family, ok)
                                /\ Told(c, h, BglHostentByName(h, canon, family, ok))
      BY <1>2, <2>2 DEF BglHostByName
    <3> DEFINE e == BglHostentByName(h, canon, family, ok)
    <3>2. e \in HostEntry /\ HostCached(e) /\ e.hostaddr = h /\ now - e.exptime <= 0
      BY EntryMade
    <3>3. hosttable' = e /\ Told(c, h, e) /\ UNCHANGED <<now, addrtable>>
      BY <1>2, <3>1 DEF BglHostByName
    <3> HIDE DEF e
    <3>4. AnswersAreCurrent' /\ ClientInv'
      BY <3>2, <3>3, ToldCurrent
    <3> QED BY <3>2, <3>3, <3>4 DEF ResolverInv, HostCached, AddrCached
  <2> QED BY <2>1, <2>2
<1>3. ASSUME NEW c \in Clients, NEW h \in Hosts, HostByNameNoCache(c, h, FALSE, "inet")
      PROVE  ResolverInv' /\ ClientInv' /\ AnswersAreCurrent'
  <2>1. PICK ok \in BOOLEAN : Told(c, h, BglHostentByName(h, FALSE, "inet", ok))
    BY <1>3 DEF HostByNameNoCache
  <2> DEFINE e == BglHostentByName(h, FALSE, "inet", ok)
  <2>2. e \in HostEntry /\ HostCached(e) /\ e.hostaddr = h /\ now - e.exptime <= 0
    BY EntryMade DEF Families
  <2>3. Told(c, h, e) /\ UNCHANGED <<now, hosttable, addrtable>>
    BY <1>3, <2>1 DEF HostByNameNoCache
  <2> HIDE DEF e
  <2>4. AnswersAreCurrent' /\ ClientInv'
    BY <2>2, <2>3, ToldCurrent
  <2> QED BY <2>3, <2>4 DEF ResolverInv, HostCached, AddrCached
<1>4. ASSUME NEW c \in Clients, ConnectFails(c)
      PROVE  ResolverInv' /\ ClientInv' /\ AnswersAreCurrent'
  <2>1. hosttable' = NoEntry \/ hosttable' = hosttable
    BY <1>4 DEF ConnectFails, InvalidateHostByName, Spoilt, ResolverInv, HostCached
  <2> QED BY <1>4, <2>1 DEF ConnectFails, ResolverInv, ClientInv, AnswersAreCurrent, HostCached, AddrCached
<1>5. ASSUME NEW c \in Clients, Connected(c)
      PROVE  ResolverInv' /\ ClientInv' /\ AnswersAreCurrent'
  BY <1>5 DEF Connected, ResolverInv, ClientInv, AnswersAreCurrent, HostCached, AddrCached
<1> QED BY <1>1, <1>2, <1>3, <1>4, <1>5 DEF HostNext

LEMMA AddrSteps ==
  ASSUME NetworkConstants, ResolverInv, ClientInv, AnswersAreCurrent, AddrNext
  PROVE  ResolverInv' /\ ClientInv' /\ AnswersAreCurrent'
<1>1. CASE Second
  BY <1>1 DEF Second, ResolverInv, ClientInv, AnswersAreCurrent, HostCached, AddrCached
<1>2. ASSUME NEW a \in Addresses, GetSocketHostname(a)
      PROVE  ResolverInv' /\ ClientInv' /\ AnswersAreCurrent'
  <2>1. PICK e \in AddrEntry, name \in {"name", "address", "empty"} :
          /\ addrtable' = e /\ AddrCached(e) /\ NamedAs(a, e, name)
          /\ UpToZero(e.hostaddr) = UpToZero(a) /\ (name = "name" <=> e.dns.ok)
          /\ e.dns.ok => now - e.exptime <= 0
    <3>1. CASE SameAddress(addrtable, a)
      <4>1. addrtable \in AddrEntry /\ AddrCached(addrtable)
        BY <3>1 DEF SameAddress, ResolverInv
      <4>2. /\ NamedAs(a, addrtable, IF addrtable.state = "ok" THEN "name" ELSE "address")
            /\ addrtable' = addrtable
        BY <1>2, <3>1 DEF GetSocketHostname
      <4>3. UpToZero(addrtable.hostaddr) = UpToZero(a) /\ now - addrtable.exptime <= 0
        BY <3>1 DEF SameAddress
      <4> DEFINE name == IF addrtable.state = "ok" THEN "name" ELSE "address"
      <4>4. name \in {"name", "address", "empty"} /\ (name = "name" <=> addrtable.dns.ok)
        BY <4>1 DEF AddrCached
      <4> QED BY <4>1, <4>2, <4>3, <4>4
    <3>2. CASE ~ SameAddress(addrtable, a)
      <4>1. PICK ok \in BOOLEAN : /\ addrtable' = MakeBglHostentByAddr(a, ok)
                                  /\ NamedAs(a, MakeBglHostentByAddr(a, ok), IF ok THEN "name" ELSE "empty")
        BY <1>2, <3>2 DEF GetSocketHostname
      <4>2. Validity \in Nat /\ MaxTime \in Nat /\ now \in Int
        BY DEF NetworkConstants, ResolverInv
      <4> DEFINE e == MakeBglHostentByAddr(a, ok)
                 name == IF ok THEN "name" ELSE "empty"
      <4>3. e \in AddrEntry /\ AddrCached(e) /\ e.hostaddr = a /\ e.dns.ok = ok
        BY <4>2 DEF MakeBglHostentByAddr, Asked, AddrEntry, AddrCached, Forever
      <4>4. ok => now - e.exptime <= 0
        BY <4>2 DEF MakeBglHostentByAddr
      <4>5. name \in {"name", "address", "empty"} /\ (name = "name" <=> e.dns.ok)
        BY <4>3
      <4> HIDE DEF e
      <4> QED BY <4>1, <4>3, <4>4, <4>5 DEF e
    <3> QED BY <3>1, <3>2
  <2>2. UNCHANGED <<now, hosttable, client>>
    BY <1>2 DEF GetSocketHostname
  <2>3. ResolverInv' /\ ClientInv'
    BY <2>1, <2>2 DEF ResolverInv, ClientInv, HostCached, AddrCached
  <2>4. e.dns.at \in Int /\ e.exptime \in Int /\ e.dns.ok \in BOOLEAN /\ Validity \in Int /\ now \in Int
    BY <2>1 DEF AddrEntry, NetworkConstants, ResolverInv
  <2>5. /\ UpToZero(e.dns.what) = UpToZero(a)
        /\ e.dns.ok => now - e.dns.at <= Validity
    BY <2>1, <2>4 DEF AddrCached
  <2>6. answer' = [kind |-> "name", what |-> a, name |-> name, dns |-> e.dns, when |-> now]
    BY <2>1 DEF NamedAs
  <2>7. AnswersAreCurrent'
    BY <2>1, <2>4, <2>5, <2>6 DEF AnswersAreCurrent
  <2> QED BY <2>3, <2>7
<1> QED BY <1>1, <1>2 DEF AddrNext

-----------------------------------------------------------------------------
(* The kernel gives one number: the least of those that are free.          *)
LEMMA LeastNatural ==
  ASSUME NEW T \in SUBSET Nat, T # {}
  PROVE  \E x \in T : \A y \in T : x <= y
<1> DEFINE R == OpToRel(<, Nat)
<1>1. IsWellFoundedOn(R, Nat)
  BY NatLessThanWellFounded
<1>2. PICK x \in T : \A y \in T : ~ (<<y, x>> \in R)
  <2> HIDE DEF R
  <2> QED BY <1>1, WFMin
<1>3. \A y \in T : y < x => <<y, x>> \in R
  BY DEF OpToRel
<1> HIDE DEF R
<1>4. \A y \in T : ~ (y < x)
  BY <1>2, <1>3
<1>5. x \in Nat /\ \A y \in T : y \in Nat
  OBVIOUS
<1> QED BY <1>4, <1>5

Holders == [Fds -> Socks \cup {Free, NoSock}]

LEMMA LowestFree ==
  ASSUME NetworkConstants, NEW f, FreeOf(f) # {}
  PROVE  Lowest(f) \in Fds /\ f[Lowest(f)] = Free /\ Lowest(f) \in Number /\ Lowest(f) # None
<1>1. FreeOf(f) \in SUBSET Nat
  BY DEF NetworkConstants, FreeOf
<1>2. \E d \in FreeOf(f) : \A e \in FreeOf(f) : d <= e
  BY <1>1, LeastNatural
<1>3. Lowest(f) \in FreeOf(f)
  BY <1>2 DEF Lowest
<1>4. Lowest(f) \in Fds /\ f[Lowest(f)] = Free
  BY <1>3 DEF FreeOf
<1> QED BY <1>4 DEF NetworkConstants, Number, None

(* A socket whose own descriptors stay the same.                           *)
LEMMA OthersHold ==
  ASSUME NEW f, NEW g, NEW l, NEW m, l \subseteq m, NEW t,
         NEW o \in {NoObject} \cup Socket,
         \A d \in Fds : f[d] = t <=> g[d] = t,
         Kept(f, o, t), Owned(f, o, l, t)
  PROVE  Kept(g, o, t) /\ Owned(g, o, m, t)
<1>1. CASE o = NoObject
  BY <1>1 DEF Kept, Owned, NoObject, Servers
<1>2. CASE o \in Socket
  <2>1. /\ o.fd # None => o.fd \in Fds
        /\ o.in # None => o.in \in Fds
        /\ o.out # None => o.out \in Fds
    BY <1>2 DEF Socket, Number
  <2>2. Kept(g, o, t)
    BY <2>1 DEF Kept
  <2>3. Owned(g, o, m, t)
    BY DEF Owned
  <2> QED BY <2>2, <2>3
<1> QED BY <1>1, <1>2

(* A step of socket s: its new object o, the new descriptors g.            *)
LEMMA Changed ==
  ASSUME NetworkConstants, SocketsInv, stray = NoSock, NEW s \in Socks,
         NEW g \in Holders, NEW o \in {NoObject} \cup Socket,
         fds' = g, sock' = [sock EXCEPT ![s] = o], lost \subseteq lost',
         stray' \in {NoSock, s}, stray' = s => o.kind = "datagram server",
         stray' = NoSock =>
           /\ \A t \in Socks \ {s} : \A d \in Fds : fds[d] = t <=> g[d] = t
           /\ Kept(g, o, s) /\ Owned(g, o, lost', s),
         path' \in Socks \cup {NoSock}, PathInv', Addressed'
  PROVE  SocketsInv'
<1>1. sock' \in [Socks -> {NoObject} \cup Socket] /\ sock'[s] = o
  BY DEF SocketsInv, SocketTypes
<1>2. SocketTypes'
  BY <1>1 DEF SocketTypes, Holders, NetworkConstants
<1>3. ASSUME stray' = NoSock, NEW t \in Socks
      PROVE  Kept(g, sock'[t], t) /\ Owned(g, sock'[t], lost', t)
  <2>1. CASE t = s
    BY <1>1, <1>3, <2>1
  <2>2. CASE t # s
    <3>1. sock'[t] = sock[t] /\ sock[t] \in {NoObject} \cup Socket
      BY <2>2 DEF SocketsInv, SocketTypes
    <3>2. Kept(fds, sock[t], t) /\ Owned(fds, sock[t], lost, t)
      BY DEF SocketsInv, HoldInv
    <3>3. \A d \in Fds : fds[d] = t <=> g[d] = t
      BY <1>3, <2>2
    <3> QED BY <3>1, <3>2, <3>3, OthersHold, ZenonT(60)
  <2> QED BY <2>1, <2>2
<1>4. HoldInv'
  BY <1>3 DEF HoldInv
<1> QED BY <1>2, <1>4 DEF SocketsInv

(* The path of the unix servers does not move.                             *)
LEMMA PathStays ==
  ASSUME SocketsInv, NEW s \in Socks, NEW o, sock' = [sock EXCEPT ![s] = o], UNCHANGED pathVars,
         o.kind = "unix server" /\ o.fd # None => sock[s].kind = "unix server" /\ sock[s].fd # None
  PROVE  PathInv' /\ path' \in Socks \cup {NoSock}
<1>1. path' = path /\ displaced' = displaced
  BY DEF pathVars
<1>2. \A t \in Socks : sock'[t] = IF t = s THEN o ELSE sock[t]
  BY DEF SocketsInv, SocketTypes
<1> QED BY <1>1, <1>2 DEF SocketsInv, PathInv, SocketTypes

-----------------------------------------------------------------------------
(* A socket is made of a new descriptor.                                   *)
Made(s, r) ==
  /\ r.fds \in Holders /\ r.obj \in {NoObject} \cup Socket /\ r.obj.kind # "unix server"
  /\ Kept(r.fds, r.obj, s) /\ Owned(r.fds, r.obj, lost \cup r.lost, s)
  /\ \A t \in Socks \ {s} : \A d \in Fds : fds[d] = t <=> r.fds[d] = t

LEMMA BecomesMade ==
  ASSUME NetworkConstants, SocketsInv, stray = NoSock, NEW s \in Socks, NEW r,
         Made(s, r), Becomes(s, r)
  PROVE  SocketsInv'
<1>1. /\ fds' = r.fds /\ sock' = [sock EXCEPT ![s] = r.obj] /\ lost' = lost \cup r.lost
      /\ result' = Done /\ stray' = NoSock /\ UNCHANGED pathVars
  BY DEF Becomes
<1>2. PathInv' /\ path' \in Socks \cup {NoSock}
  BY <1>1, PathStays DEF Made
<1>3. Addressed'
  BY <1>1 DEF Addressed, Done
<1>4. NoSock # s
  BY DEF NetworkConstants
<1> DEFINE g == r.fds
           o == r.obj
<1>5. /\ g \in Holders /\ o \in {NoObject} \cup Socket /\ Kept(g, o, s)
      /\ Owned(g, o, lost', s)
      /\ \A t \in Socks \ {s} : \A d \in Fds : fds[d] = t <=> g[d] = t
  BY <1>1 DEF Made
<1>6. fds' = g /\ sock' = [sock EXCEPT ![s] = o] /\ lost \subseteq lost'
  BY <1>1
<1> HIDE DEF g, o
<1> QED BY <1>1, <1>2, <1>3, <1>4, <1>5, <1>6, Changed

LEMMA NobodyOwns ==
  ASSUME SocketsInv, stray = NoSock, NEW s \in Socks, sock[s] = NoObject
  PROVE  \A d \in Fds : fds[d] = s => d \in lost
BY DEF SocketsInv, HoldInv, Owned, NoObject

LEMMA OpenedHolders ==
  ASSUME NetworkConstants, SocketsInv, FreeOf(fds) # {}, NEW s \in Socks \cup {NoSock}
  PROVE  /\ Opened(s) \in Holders /\ Opened(s)[Lowest(fds)] = s
         /\ \A d \in Fds : d # Lowest(fds) => Opened(s)[d] = fds[d]
         /\ \A t \in Socks \ {s} : \A d \in Fds : fds[d] = t <=> Opened(s)[d] = t
<1>1. Lowest(fds) \in Fds /\ fds[Lowest(fds)] = Free
  BY LowestFree
<1>2. fds \in Holders
  BY DEF SocketsInv, SocketTypes, Holders
<1> QED BY <1>1, <1>2 DEF Opened, Holders, NetworkConstants

LEMMA PortsMade ==
  ASSUME NetworkConstants, SocketsInv, stray = NoSock, NEW s \in Socks, sock[s] = NoObject,
         FreeOf(fds) # {}, NEW kind \in {"client", "unix"}, NEW nonblock \in BOOLEAN
  PROVE  Made(s, SetSocketIoPorts(Opened(s), s, kind, Lowest(fds), nonblock))
<1> DEFINE f == Opened(s)
           d == Lowest(fds)
<1>1. /\ f \in Holders /\ f[d] = s /\ \A e \in Fds : e # d => f[e] = fds[e]
      /\ \A t \in Socks \ {s} : \A e \in Fds : fds[e] = t <=> f[e] = t
  BY OpenedHolders
<1>2. d \in Fds /\ d \in Number /\ d # None
  BY LowestFree
<1>3. \A e \in Fds : fds[e] = s => e \in lost
  BY NobodyOwns
<1> HIDE DEF f, d
<1>4. CASE FreeOf(f) = {}
  <2> DEFINE r == [fds |-> f, obj |-> NoObject, lost |-> {d}]
  <2>1. SetSocketIoPorts(f, s, kind, d, nonblock) = r
    BY <1>4 DEF SetSocketIoPorts
  <2>2. r.fds = f /\ r.obj = NoObject /\ r.lost = {d} /\ NoObject.kind = "none"
    BY DEF NoObject
  <2>3. Kept(f, NoObject, s)
    BY <2>2 DEF Kept, Servers
  <2>4. Owned(f, NoObject, lost \cup {d}, s)
    BY <1>1, <1>3 DEF Owned
  <2> HIDE DEF r
  <2>5. Made(s, r)
    BY <1>1, <2>2, <2>3, <2>4 DEF Made
  <2> QED BY <2>1, <2>5 DEF f, d
<1>5. CASE FreeOf(f) # {}
  <2> DEFINE t == Lowest(f)
             g == [f EXCEPT ![t] = s]
             o == Object(kind, d, d, t, nonblock)
             r == [fds |-> g, obj |-> o, lost |-> {}]
  <2>1. SetSocketIoPorts(f, s, kind, d, nonblock) = r
    BY <1>5 DEF SetSocketIoPorts
  <2>2. t \in Fds /\ f[t] = Free /\ t \in Number /\ t # None
    BY <1>5, LowestFree
  <2> HIDE DEF t
  <2>3. t # d
    BY <1>1, <2>2 DEF NetworkConstants
  <2>4. g \in Holders /\ g[t] = s /\ g[d] = s /\ \A e \in Fds : e \notin {d, t} => g[e] = fds[e]
    BY <1>1, <1>2, <2>2 DEF Holders
  <2>5. \A u \in Socks \ {s} : \A e \in Fds : fds[e] = u <=> g[e] = u
    BY <1>1, <1>2, <2>2 DEF Holders, NetworkConstants
  <2>6. /\ o \in Socket /\ o.kind = kind /\ o.fd = d /\ o.in = d /\ o.out = t
    BY <1>2, <2>2 DEF Object, Socket, Options, Servers
  <2>7. r.fds = g /\ r.obj = o /\ r.lost = {}
    OBVIOUS
  <2> HIDE DEF g, o, r
  <2>8. Kept(g, o, s)
    BY <1>2, <2>3, <2>4, <2>6 DEF Kept, Servers
  <2>9. Owned(g, o, lost, s)
    BY <1>3, <2>4, <2>6 DEF Owned
  <2>10. Made(s, r)
    BY <2>4, <2>5, <2>6, <2>7, <2>8, <2>9 DEF Made
  <2> QED BY <2>1, <2>10 DEF f, d
<1> QED BY <1>4, <1>5

(* A descriptor that stays open without an owner.                          *)
LEMMA LeakMade ==
  ASSUME NetworkConstants, SocketsInv, stray = NoSock, NEW s \in Socks, sock[s] = NoObject,
         FreeOf(fds) # {}
  PROVE  Made(s, [fds |-> Opened(NoSock), obj |-> NoObject, lost |-> {Lowest(fds)}])
<1> DEFINE f == Opened(NoSock)
           d == Lowest(fds)
           r == [fds |-> f, obj |-> NoObject, lost |-> {d}]
<1>1. /\ f \in Holders /\ f[d] = NoSock /\ \A e \in Fds : e # d => f[e] = fds[e]
      /\ \A t \in Socks : \A e \in Fds : fds[e] = t <=> f[e] = t
  BY OpenedHolders DEF NetworkConstants
<1>2. \A e \in Fds : fds[e] = s => e \in lost
  BY NobodyOwns
<1>3. r.fds = f /\ r.obj = NoObject /\ r.lost = {d} /\ NoObject.kind = "none"
  BY DEF NoObject
<1> HIDE DEF f, d, r
<1>4. Kept(f, NoObject, s)
  BY <1>3 DEF Kept, Servers
<1>5. Owned(f, NoObject, lost \cup {d}, s)
  BY <1>1, <1>2 DEF Owned
<1>6. Made(s, r)
  BY <1>1, <1>3, <1>4, <1>5 DEF Made
<1> QED BY <1>6 DEF f, d, r

(* A socket with the one descriptor that was opened.                       *)
LEMMA OneMade ==
  ASSUME NetworkConstants, SocketsInv, stray = NoSock, NEW s \in Socks, sock[s] = NoObject,
         FreeOf(fds) # {},
         NEW kind \in {"server", "datagram client", "datagram server", "unix server"},
         NEW in \in {None, Lowest(fds)}, kind # "datagram server" => in = None
  PROVE  LET o == Object(kind, Lowest(fds), in, None, FALSE)
         IN /\ o \in Socket /\ o.kind = kind /\ Kept(Opened(s), o, s) /\ Owned(Opened(s), o, lost, s)
            /\ kind # "unix server" => Made(s, [fds |-> Opened(s), obj |-> o, lost |-> {}])
<1> DEFINE f == Opened(s)
           d == Lowest(fds)
           o == Object(kind, d, in, None, FALSE)
           r == [fds |-> f, obj |-> o, lost |-> {}]
<1>1. /\ f \in Holders /\ f[d] = s /\ \A e \in Fds : e # d => f[e] = fds[e]
      /\ \A t \in Socks \ {s} : \A e \in Fds : fds[e] = t <=> f[e] = t
  BY OpenedHolders
<1>2. d \in Fds /\ d \in Number /\ d # None
  BY LowestFree
<1>3. \A e \in Fds : fds[e] = s => e \in lost
  BY NobodyOwns
<1>4. in \in {None, d}
  OBVIOUS
<1> HIDE DEF f, d
<1>5. /\ o \in Socket /\ o.kind = kind /\ o.fd = d /\ o.in = in /\ o.out = None
  BY <1>2, <1>4 DEF Object, Socket, Options, Servers, Number
<1>6. r.fds = f /\ r.obj = o /\ r.lost = {}
  OBVIOUS
<1> HIDE DEF o, r
<1>7. Kept(f, o, s)
  BY <1>1, <1>2, <1>4, <1>5 DEF Kept, Servers
<1>8. Owned(f, o, lost, s)
  BY <1>1, <1>3, <1>5 DEF Owned
<1>9. kind # "unix server" => Made(s, r)
  BY <1>1, <1>5, <1>6, <1>7, <1>8 DEF Made
<1> QED BY <1>5, <1>7, <1>8, <1>9 DEF f, d, o, r

-----------------------------------------------------------------------------
(* The steps that make sockets.                                            *)
LEMMA SocketUnchanged ==
  ASSUME SocketsInv, UNCHANGED socketVars
  PROVE  SocketsInv'
BY DEF SocketsInv, SocketTypes, HoldInv, PathInv, Addressed, Kept, Owned, socketVars

LEMMA ClientMade ==
  ASSUME NetworkConstants, SocketsInv, stray = NoSock, NEW s \in Socks, NEW timeo \in BOOLEAN,
         NEW outcome, BglMakeClientSocket(s, timeo, outcome)
  PROVE  SocketsInv'
<1>1. sock[s] = NoObject /\ FreeOf(fds) # {}
  BY DEF BglMakeClientSocket
<1>2. CASE outcome = "at once"
  <2>1. Becomes(s, SetSocketIoPorts(Opened(s), s, "client", Lowest(fds), timeo))
    BY <1>2 DEF BglMakeClientSocket
  <2>2. Made(s, SetSocketIoPorts(Opened(s), s, "client", Lowest(fds), timeo))
    BY <1>1, PortsMade
  <2> QED BY <2>1, <2>2, BecomesMade
<1>3. CASE outcome = "in progress"
  <2>1. Becomes(s, SetSocketIoPorts(Opened(s), s, "client", Lowest(fds), FALSE))
    BY <1>3 DEF BglMakeClientSocket
  <2>2. Made(s, SetSocketIoPorts(Opened(s), s, "client", Lowest(fds), FALSE))
    BY <1>1, PortsMade
  <2> QED BY <2>1, <2>2, BecomesMade
<1>4. CASE outcome = "no file"
  <2> DEFINE r == [fds |-> Opened(NoSock), obj |-> NoObject, lost |-> {Lowest(fds)}]
  <2>1. FdopenFails(Lowest(fds)) = r
    BY DEF FdopenFails, Opened
  <2>2. Becomes(s, FdopenFails(Lowest(fds)))
    BY <1>4 DEF BglMakeClientSocket
  <2>3. Made(s, r)
    BY <1>1, LeakMade
  <2> HIDE DEF r
  <2> QED BY <2>1, <2>2, <2>3, BecomesMade
<1>5. CASE outcome \notin {"at once", "in progress", "no file"}
  BY <1>5, SocketUnchanged DEF BglMakeClientSocket
<1> QED BY <1>2, <1>3, <1>4, <1>5

LEMMA PortsBecome ==
  ASSUME NetworkConstants, SocketsInv, stray = NoSock, NEW s \in Socks, NEW timeo \in BOOLEAN,
         sock[s] = NoObject, FreeOf(fds) # {}, NEW kind \in {"client", "unix"},
         Becomes(s, SetSocketIoPorts(Opened(s), s, kind, Lowest(fds), timeo))
  PROVE  SocketsInv'
<1>1. Made(s, SetSocketIoPorts(Opened(s), s, kind, Lowest(fds), timeo))
  BY PortsMade
<1> QED BY <1>1, BecomesMade

LEMMA LeakBecomes ==
  ASSUME NetworkConstants, SocketsInv, stray = NoSock, NEW s \in Socks,
         sock[s] = NoObject, FreeOf(fds) # {}, Leak(s)
  PROVE  SocketsInv'
<1> DEFINE r == [fds |-> Opened(NoSock), obj |-> NoObject, lost |-> {Lowest(fds)}]
<1>1. Made(s, r)
  BY LeakMade
<1>2. Becomes(s, r)
  BY DEF Leak
<1> HIDE DEF r
<1> QED BY <1>1, <1>2, BecomesMade

LEMMA OneBecomes ==
  ASSUME NetworkConstants, SocketsInv, stray = NoSock, NEW s \in Socks,
         sock[s] = NoObject, FreeOf(fds) # {},
         NEW kind \in {"server", "datagram client", "datagram server"},
         NEW in \in {None, Lowest(fds)}, kind # "datagram server" => in = None,
         Becomes(s, [fds |-> Opened(s), obj |-> Object(kind, Lowest(fds), in, None, FALSE), lost |-> {}])
  PROVE  SocketsInv'
<1> DEFINE r == [fds |-> Opened(s), obj |-> Object(kind, Lowest(fds), in, None, FALSE), lost |-> {}]
<1>1. Made(s, r)
  BY OneMade
<1>2. Becomes(s, r)
  OBVIOUS
<1> HIDE DEF r
<1> QED BY <1>1, <1>2, BecomesMade

LEMMA ServerMade ==
  ASSUME NetworkConstants, SocketsInv, stray = NoSock, NEW s \in Socks, NEW outcome,
         BglMakeServerSocket(s, outcome)
  PROVE  SocketsInv'
<1>1. sock[s] = NoObject /\ FreeOf(fds) # {}
  BY DEF BglMakeServerSocket
<1>2. CASE outcome = "ok"
  <2>1. Becomes(s, [fds |-> Opened(s), obj |-> Object("server", Lowest(fds), None, None, FALSE),
                    lost |-> {}])
    BY <1>2 DEF BglMakeServerSocket
  <2> QED BY <1>1, <2>1, OneBecomes
<1>3. CASE outcome = "option or name"
  <2>1. Leak(s)
    BY <1>3 DEF BglMakeServerSocket, Leak
  <2> QED BY <1>1, <2>1, LeakBecomes
<1>4. CASE outcome \notin {"ok", "option or name"}
  BY <1>4, SocketUnchanged DEF BglMakeServerSocket
<1> QED BY <1>2, <1>3, <1>4

LEMMA DatagramMade ==
  ASSUME NetworkConstants, SocketsInv, stray = NoSock, NEW s \in Socks, NEW outcome,
         \/ BglMakeDatagramClientSocket(s, outcome)
         \/ BglMakeDatagramServerSocket(s, outcome)
         \/ BglMakeDatagramUnboundSocket(s, outcome)
  PROVE  SocketsInv'
<1>1. sock[s] = NoObject /\ FreeOf(fds) # {}
  BY DEF BglMakeDatagramClientSocket, BglMakeDatagramServerSocket, BglMakeDatagramUnboundSocket
<1>2. \/ Datagram(s, "datagram client", None) \/ Datagram(s, "datagram server", Lowest(fds))
      \/ Leak(s) \/ UNCHANGED socketVars
  BY DEF BglMakeDatagramClientSocket, BglMakeDatagramServerSocket, BglMakeDatagramUnboundSocket
<1>3. CASE Datagram(s, "datagram client", None)
  <2>1. Becomes(s, [fds |-> Opened(s), lost |-> {},
                    obj |-> Object("datagram client", Lowest(fds), None, None, FALSE)])
    BY <1>3 DEF Datagram
  <2>2. Becomes(s, [fds |-> Opened(s), obj |-> Object("datagram client", Lowest(fds), None, None, FALSE),
                    lost |-> {}])
    BY <2>1
  <2> QED BY <1>1, <2>2, OneBecomes
<1>4. CASE Datagram(s, "datagram server", Lowest(fds))
  <2>1. Becomes(s, [fds |-> Opened(s), lost |-> {},
                    obj |-> Object("datagram server", Lowest(fds), Lowest(fds), None, FALSE)])
    BY <1>4 DEF Datagram
  <2>2. Becomes(s, [fds |-> Opened(s),
                    obj |-> Object("datagram server", Lowest(fds), Lowest(fds), None, FALSE),
                    lost |-> {}])
    BY <2>1
  <2> QED BY <1>1, <2>2, OneBecomes
<1> QED BY <1>1, <1>2, <1>3, <1>4, LeakBecomes, SocketUnchanged

(* What the unix servers do to the path.                                   *)
LEMMA UnixServerMade ==
  ASSUME NetworkConstants, SocketsInv, stray = NoSock, NEW s \in Socks, NEW outcome,
         BglMakeServerUnixSocket(s, outcome)
  PROVE  SocketsInv'
<1>1. /\ sock[s] = NoObject /\ FreeOf(fds) # {} /\ result' = Done
      /\ lost' = lost /\ stray' = NoSock /\ Displaces(s)
  BY DEF BglMakeServerUnixSocket
<1>2. Addressed'
  BY <1>1 DEF Addressed, Done
<1>3. NoObject.kind = "none" /\ s # NoSock
  BY DEF NoObject, NetworkConstants
<1>4. \A t \in Socks : path = t \/ t \in displaced => t = s \/ t \in displaced'
  BY <1>1 DEF Displaces, NetworkConstants
<1>5. CASE outcome = "ok"
  <2> DEFINE o == Object("unix server", Lowest(fds), None, None, FALSE)
             g == Opened(s)
  <2>1. /\ fds' = g /\ sock' = [sock EXCEPT ![s] = o] /\ path' = s
    BY <1>5 DEF BglMakeServerUnixSocket
  <2>2. /\ o \in Socket /\ o.kind = "unix server" /\ Kept(g, o, s) /\ Owned(g, o, lost, s)
    BY <1>1, OneMade
  <2>3. g \in Holders /\ \A t \in Socks \ {s} : \A d \in Fds : fds[d] = t <=> g[d] = t
    BY <1>1, OpenedHolders
  <2> HIDE DEF o, g
  <2>4. PathInv'
    <3>1. \A t \in Socks \ {s} : sock'[t] = sock[t]
      BY <2>1 DEF SocketsInv, SocketTypes
    <3> QED BY <1>4, <2>1, <3>1 DEF SocketsInv, PathInv
  <2> QED BY <1>1, <1>2, <1>3, <2>1, <2>2, <2>3, <2>4, Changed
<1>6. CASE outcome # "ok"
  <2>1. fds' = fds /\ sock' = sock /\ path' = NoSock
    BY <1>6 DEF BglMakeServerUnixSocket
  <2>2. PathInv'
    BY <1>1, <1>3, <1>4, <2>1 DEF SocketsInv, PathInv
  <2> QED BY <1>1, <1>2, <2>1, <2>2 DEF SocketsInv, SocketTypes, HoldInv, Kept, Owned
<1> QED BY <1>5, <1>6

-----------------------------------------------------------------------------
(* Accepting a connection.                                                 *)
LEMMA AcceptKeeps ==
  ASSUME NetworkConstants, SocketsInv, stray = NoSock, NEW serv \in Socks, NEW s \in Socks,
         BglSocketAccept(serv, s)
  PROVE  SocketsInv'
BY PortsBecome DEF BglSocketAccept

(* Only whether the server blocks changes.                                 *)
LEMMA BlockingKeeps ==
  ASSUME SocketsInv, NEW serv \in Socks, sock[serv] \in Socket, NEW b \in BOOLEAN, NEW t \in Socks
  PROVE  LET o == [sock EXCEPT ![serv].nonblock = b][t]
         IN /\ o \in {NoObject} \cup Socket /\ o.kind = sock[t].kind
            /\ sock[t] = NoObject => o = NoObject
            /\ sock[t] # NoObject => o.fd = sock[t].fd /\ o.in = sock[t].in /\ o.out = sock[t].out
<1> DEFINE o == [sock EXCEPT ![serv].nonblock = b][t]
<1>1. sock \in [Socks -> {NoObject} \cup Socket]
  BY DEF SocketsInv, SocketTypes
<1>2. CASE t # serv
  BY <1>1, <1>2
<1>3. CASE t = serv
  <2>1. o = [sock[serv] EXCEPT !.nonblock = b]
    BY <1>1, <1>3
  <2>2. o \in Socket /\ o.kind = sock[t].kind /\ o.fd = sock[t].fd /\ o.in = sock[t].in /\ o.out = sock[t].out
    <3> DEFINE q == sock[serv]
    <3>1. q \in Socket /\ o = [q EXCEPT !.nonblock = b] /\ sock[t] = q
      BY <1>3, <2>1
    <3> HIDE DEF q, o
    <3>2. o \in Socket /\ o.kind = q.kind /\ o.fd = q.fd /\ o.in = q.in /\ o.out = q.out
      BY <3>1 DEF Socket
    <3> QED BY <3>1, <3>2
  <2>3. sock[t] # NoObject
    <3>1. sock[t].kind # "none"
      BY <1>3 DEF Socket, Servers
    <3>2. NoObject.kind = "none"
      BY DEF NoObject
    <3> QED BY <3>1, <3>2
  <2> QED BY <2>2, <2>3
<1> QED BY <1>2, <1>3

(* Sockets that look the same hold the same.                               *)
LEMMA AlikeHold ==
  ASSUME SocketsInv, stray = NoSock, NEW n \in [Socks -> {NoObject} \cup Socket],
         \A t \in Socks :
           /\ n[t].kind = sock[t].kind /\ (sock[t] = NoObject => n[t] = NoObject)
           /\ sock[t] # NoObject => n[t].fd = sock[t].fd /\ n[t].in = sock[t].in /\ n[t].out = sock[t].out,
         sock' = n, UNCHANGED <<fds, lost, stray, path, displaced>>, Addressed'
  PROVE  SocketsInv'
<1>1. SocketTypes'
  BY DEF SocketsInv, SocketTypes
<1>2. NoObject.kind = "none"
  BY DEF NoObject
<1>3. HoldInv'
  <2> SUFFICES ASSUME NEW t \in Socks
               PROVE  Kept(fds, n[t], t) /\ Owned(fds, n[t], lost, t)
    BY DEF HoldInv
  <2>1. Kept(fds, sock[t], t) /\ Owned(fds, sock[t], lost, t)
    BY DEF SocketsInv, HoldInv
  <2>2. CASE sock[t] = NoObject
    BY <2>1, <2>2
  <2>3. CASE sock[t] # NoObject
    <3>1. /\ n[t].kind = sock[t].kind /\ n[t].fd = sock[t].fd
          /\ n[t].in = sock[t].in /\ n[t].out = sock[t].out
      BY <2>3
    <3>2. Kept(fds, n[t], t)
      BY <2>1, <3>1 DEF Kept
    <3>3. Owned(fds, n[t], lost, t)
      BY <2>1, <3>1 DEF Owned
    <3> QED BY <3>2, <3>3
  <2> QED BY <2>2, <2>3
<1>4. PathInv'
  <2> SUFFICES ASSUME NEW t \in Socks, n[t].kind = "unix server", n[t].fd # None
               PROVE  path = t \/ t \in displaced
    BY DEF PathInv
  <2>1. sock[t] # NoObject /\ sock[t].kind = "unix server" /\ sock[t].fd # None
    BY <1>2
  <2> QED BY <2>1 DEF SocketsInv, PathInv
<1> QED BY <1>1, <1>3, <1>4 DEF SocketsInv

LEMMA AcceptManyKeeps ==
  ASSUME NetworkConstants, SocketsInv, stray = NoSock, NEW serv \in Socks, NEW s \in Socks,
         NEW outcome, BglSocketAcceptMany(serv, s, outcome)
  PROVE  SocketsInv'
<1> DEFINE r == SetSocketIoPorts(Opened(s), s, "client", Lowest(fds), FALSE)
           server(b) == [sock EXCEPT ![serv].nonblock = b]
<1>1. /\ sock[serv].kind \in Servers /\ sock[s] = NoObject /\ FreeOf(fds) # {}
      /\ result' = Done /\ UNCHANGED <<stray, path, displaced>>
  BY DEF BglSocketAcceptMany, pathVars
<1>2. sock[serv] \in Socket /\ serv # s
  <2>1. NoObject.kind \notin Servers
    BY DEF NoObject, Servers
  <2> QED BY <1>1, <2>1 DEF SocketsInv, SocketTypes
<1>3. Addressed'
  BY <1>1 DEF Addressed, Done
<1>4. ASSUME NEW b \in BOOLEAN
      PROVE  /\ server(b) \in [Socks -> {NoObject} \cup Socket]
             /\ \A t \in Socks :
                  /\ server(b)[t].kind = sock[t].kind /\ (sock[t] = NoObject => server(b)[t] = NoObject)
                  /\ sock[t] # NoObject => /\ server(b)[t].fd = sock[t].fd /\ server(b)[t].in = sock[t].in
                                           /\ server(b)[t].out = sock[t].out
  <2>1. \A t \in Socks :
          /\ server(b)[t] \in {NoObject} \cup Socket
          /\ server(b)[t].kind = sock[t].kind /\ (sock[t] = NoObject => server(b)[t] = NoObject)
          /\ sock[t] # NoObject => /\ server(b)[t].fd = sock[t].fd /\ server(b)[t].in = sock[t].in
                                   /\ server(b)[t].out = sock[t].out
    BY <1>2, BlockingKeeps
  <2>2. DOMAIN server(b) = Socks /\ server(b) = [t \in Socks |-> server(b)[t]]
    BY DEF SocketsInv, SocketTypes
  <2> HIDE DEF server
  <2>3. server(b) \in [Socks -> {NoObject} \cup Socket]
    BY <2>1, <2>2
  <2> QED BY <2>1, <2>3
<1>5. Made(s, r)
  BY <1>1, PortsMade
<1>6. \/ \E b \in BOOLEAN : sock' = server(b) /\ UNCHANGED <<fds, lost>>
      \/ fds' = r.fds /\ sock' = [server(FALSE) EXCEPT ![s] = r.obj] /\ lost' = lost /\ r.lost = {}
      \/ fds' = r.fds /\ sock' = server(TRUE) /\ lost' = lost \cup r.lost /\ r.lost # {}
  BY DEF BglSocketAcceptMany
<1>7. r.lost # {} => r.obj = NoObject
  BY DEF SetSocketIoPorts
<1> HIDE DEF r, server
<1>8. CASE \E b \in BOOLEAN : sock' = server(b) /\ UNCHANGED <<fds, lost>>
  <2>1. PICK b \in BOOLEAN : sock' = server(b) /\ UNCHANGED <<fds, lost>>
    BY <1>8
  <2> DEFINE n == server(b)
  <2>2. /\ n \in [Socks -> {NoObject} \cup Socket]
        /\ \A t \in Socks :
             /\ n[t].kind = sock[t].kind /\ (sock[t] = NoObject => n[t] = NoObject)
             /\ sock[t] # NoObject => n[t].fd = sock[t].fd /\ n[t].in = sock[t].in /\ n[t].out = sock[t].out
    BY <1>4
  <2>3. sock' = n /\ UNCHANGED <<fds, lost, stray, path, displaced>>
    BY <1>1, <2>1
  <2> HIDE DEF n
  <2> QED BY <1>3, <2>2, <2>3, AlikeHold
<1>9. ASSUME NEW b \in BOOLEAN, fds' = r.fds, sock' = [server(b) EXCEPT ![s] = r.obj],
             lost' = lost \cup r.lost
      PROVE  SocketsInv'
  <2> DEFINE n == server(b)
  <2>1. /\ n \in [Socks -> {NoObject} \cup Socket]
        /\ \A t \in Socks :
             /\ n[t].kind = sock[t].kind /\ (sock[t] = NoObject => n[t] = NoObject)
             /\ sock[t] # NoObject => n[t].fd = sock[t].fd /\ n[t].in = sock[t].in /\ n[t].out = sock[t].out
    BY <1>4
  <2>2. fds' = r.fds /\ sock' = [n EXCEPT ![s] = r.obj] /\ lost' = lost \cup r.lost
    BY <1>9
  <2> HIDE DEF n
  <2>3. /\ r.fds \in Holders /\ r.obj \in {NoObject} \cup Socket /\ r.obj.kind # "unix server"
        /\ Kept(r.fds, r.obj, s) /\ Owned(r.fds, r.obj, lost', s)
        /\ \A t \in Socks \ {s} : \A d \in Fds : fds[d] = t <=> r.fds[d] = t
    BY <1>5, <2>2 DEF Made
  <2>4. sock' \in [Socks -> {NoObject} \cup Socket] /\ sock'[s] = r.obj
        /\ \A t \in Socks \ {s} : sock'[t] = n[t]
    BY <2>1, <2>2, <2>3
  <2>5. SocketTypes'
    BY <1>1, <2>2, <2>3, <2>4 DEF SocketsInv, SocketTypes, Holders
  <2>6. ASSUME NEW t \in Socks, t # s
        PROVE  Kept(fds', sock'[t], t) /\ Owned(fds', sock'[t], lost', t)
    <3>1. Kept(fds, sock[t], t) /\ Owned(fds, sock[t], lost, t) /\ sock[t] \in {NoObject} \cup Socket
      BY DEF SocketsInv, HoldInv, SocketTypes
    <3>2. Kept(fds', sock[t], t) /\ Owned(fds', sock[t], lost', t)
      <4>1. lost \subseteq lost' /\ \A d \in Fds : fds[d] = t <=> fds'[d] = t
        BY <2>2, <2>3, <2>6
      <4> QED BY <3>1, <4>1, OthersHold
    <3>3. CASE sock[t] = NoObject
      BY <2>1, <2>4, <2>6, <3>2, <3>3
    <3>4. CASE sock[t] # NoObject
      <4>1. /\ sock'[t].kind = sock[t].kind /\ sock'[t].fd = sock[t].fd
            /\ sock'[t].in = sock[t].in /\ sock'[t].out = sock[t].out
        BY <2>1, <2>4, <2>6, <3>4
      <4>2. Kept(fds', sock'[t], t)
        BY <3>2, <4>1 DEF Kept
      <4>3. Owned(fds', sock'[t], lost', t)
        BY <3>2, <4>1 DEF Owned
      <4> QED BY <4>2, <4>3
    <3> QED BY <3>3, <3>4
  <2>7. HoldInv'
    BY <2>2, <2>3, <2>4, <2>6 DEF HoldInv
  <2>8. PathInv'
    <3> SUFFICES ASSUME NEW t \in Socks, sock'[t].kind = "unix server", sock'[t].fd # None
                 PROVE  path = t \/ t \in displaced
      BY <1>1 DEF PathInv
    <3>1. t # s /\ NoObject.kind = "none"
      BY <2>3, <2>4 DEF NoObject
    <3>2. sock[t].kind = "unix server" /\ sock[t].fd # None
      BY <2>1, <2>4, <3>1
    <3> QED BY <3>2 DEF SocketsInv, PathInv
  <2> QED BY <1>3, <2>5, <2>7, <2>8 DEF SocketsInv
<1>10. CASE fds' = r.fds /\ sock' = [server(FALSE) EXCEPT ![s] = r.obj] /\ lost' = lost /\ r.lost = {}
  BY <1>9, <1>10
<1>11. CASE fds' = r.fds /\ sock' = server(TRUE) /\ lost' = lost \cup r.lost /\ r.lost # {}
  <2>1. server(TRUE) = [server(TRUE) EXCEPT ![s] = r.obj]
    <3> DEFINE n == server(TRUE)
    <3>1. n \in [Socks -> {NoObject} \cup Socket] /\ n[s] = r.obj
      BY <1>1, <1>4, <1>7, <1>11
    <3> HIDE DEF n
    <3>2. n = [n EXCEPT ![s] = r.obj]
      BY <3>1
    <3> QED BY <3>2 DEF n
  <2> QED BY <1>9, <1>11, <2>1
<1> QED BY <1>6, <1>8, <1>10, <1>11

-----------------------------------------------------------------------------
(* Closing.  A descriptor that its own socket closes is nobody else's.     *)
LEMMA ClosesOwn ==
  ASSUME NetworkConstants, NEW f \in Holders, NEW s \in Socks, NEW d \in Number, d # None => f[d] = s
  PROVE  /\ Closes(f, d) \in Holders
         /\ \A t \in Socks \ {s} : \A e \in Fds : f[e] = t <=> Closes(f, d)[e] = t
         /\ \A e \in Fds : Closes(f, d)[e] = s <=> f[e] = s /\ e # d
BY DEF Closes, Holders, Number, NetworkConstants, None

LEMMA ClosesHolders ==
  ASSUME NEW f \in Holders, NEW d \in Number
  PROVE  Closes(f, d) \in Holders
BY DEF Closes, Holders, Number

(* The object of an open socket.                                           *)
LEMMA OpenSocket ==
  ASSUME NetworkConstants, SocketsInv, stray = NoSock, NEW s \in Socks, sock[s].kind # "none"
  PROVE  /\ sock[s] \in Socket /\ fds \in Holders /\ s # NoSock
         /\ Kept(fds, sock[s], s) /\ Owned(fds, sock[s], lost, s)
         /\ sock[s].fd \in Number /\ sock[s].in \in Number /\ sock[s].out \in Number
<1>1. sock[s] \in Socket
  BY DEF SocketsInv, SocketTypes, NoObject
<1>2. sock[s].fd \in Number /\ sock[s].in \in Number /\ sock[s].out \in Number
  BY <1>1 DEF Socket
<1> QED BY <1>1, <1>2 DEF SocketsInv, SocketTypes, HoldInv, Holders, NetworkConstants

LEMMA OpenNumber ==
  ASSUME NEW d, d > 0
  PROVE  d # None
BY DEF None

LEMMA InputKeeps ==
  ASSUME NetworkConstants, SocketsInv, stray = NoSock, NEW s \in Socks, CloseInput(s)
  PROVE  SocketsInv'
<1> DEFINE p == sock[s]
           o == InputClosed(s)
           g == Closes(fds, p.in)
<1>1. /\ p.kind \in {"client", "unix", "datagram server"} /\ p.in # None
      /\ fds' = g /\ sock' = [sock EXCEPT ![s] = o] /\ lost' = lost /\ result' = Done
      /\ stray' = (IF IsStray(fds, s, p.in) THEN s ELSE NoSock) /\ UNCHANGED pathVars
  BY DEF CloseInput
<1>2. /\ p \in Socket /\ fds \in Holders /\ s # NoSock
      /\ Kept(fds, p, s) /\ Owned(fds, p, lost, s)
      /\ p.fd \in Number /\ p.in \in Number /\ p.out \in Number
  BY <1>1, OpenSocket
<1>3. /\ o \in Socket /\ o.kind = p.kind /\ o.fd = p.fd /\ o.in = None /\ o.out = p.out
  BY <1>2 DEF InputClosed, Socket, Number
<1>4. g \in Holders
  BY <1>2, ClosesHolders
<1>5. stray' = NoSock => fds[p.in] = s
  BY <1>1, <1>2 DEF IsStray
<1>6. p.kind # "datagram server" => stray' = NoSock
  BY <1>1, <1>2 DEF IsStray, Kept
<1>7. ASSUME stray' = NoSock
      PROVE  /\ \A t \in Socks \ {s} : \A e \in Fds : fds[e] = t <=> g[e] = t
             /\ \A e \in Fds : g[e] = s <=> fds[e] = s /\ e # p.in
  BY <1>2, <1>5, <1>7, ClosesOwn
<1>8. Addressed'
  BY <1>1 DEF Addressed, Done
<1>9. PathInv' /\ path' \in Socks \cup {NoSock}
  <2>1. o.kind # "unix server"
    BY <1>1, <1>3
  <2> HIDE DEF o
  <2> QED BY <1>1, <2>1, PathStays
<1>10. stray' \in {NoSock, s} /\ (stray' = s => o.kind = "datagram server")
  BY <1>1, <1>2, <1>3, <1>6
<1> HIDE DEF p, o, g
<1>11. ASSUME stray' = NoSock
       PROVE  Kept(g, o, s) /\ Owned(g, o, lost', s)
  <2>1. Kept(g, o, s)
    BY <1>1, <1>2, <1>3, <1>7, <1>11 DEF Kept, Servers, Number
  <2>2. Owned(g, o, lost', s)
    BY <1>1, <1>2, <1>3, <1>7, <1>11 DEF Owned, Kept
  <2> QED BY <2>1, <2>2
<1> QED BY <1>1, <1>3, <1>4, <1>7, <1>8, <1>9, <1>10, <1>11, Changed

LEMMA OutputKeeps ==
  ASSUME NetworkConstants, SocketsInv, stray = NoSock, NEW s \in Socks, CloseOutput(s)
  PROVE  SocketsInv'
<1> DEFINE p == sock[s]
           o == [p EXCEPT !.out = None]
           g == Closes(fds, p.out)
<1>1. /\ p.kind \in {"client", "unix"} /\ p.out # None
      /\ fds' = g /\ lost' = lost /\ result' = Done
      /\ stray' = (IF IsStray(fds, s, p.out) THEN s ELSE NoSock) /\ UNCHANGED pathVars
  BY DEF CloseOutput
<1>13. sock' = [sock EXCEPT ![s] = o]
  BY DEF CloseOutput
<1>2. /\ p \in Socket /\ fds \in Holders /\ s # NoSock
      /\ Kept(fds, p, s) /\ Owned(fds, p, lost, s)
      /\ p.fd \in Number /\ p.in \in Number /\ p.out \in Number
  BY <1>1, OpenSocket
<1>3. /\ o \in Socket /\ o.kind = p.kind /\ o.fd = p.fd /\ o.in = p.in /\ o.out = None
  BY <1>2 DEF Socket, Number
<1>4. g \in Holders
  BY <1>2, ClosesHolders
<1>5. fds[p.out] = s /\ stray' = NoSock
  BY <1>1, <1>2 DEF IsStray, Kept
<1>7. /\ \A t \in Socks \ {s} : \A e \in Fds : fds[e] = t <=> g[e] = t
      /\ \A e \in Fds : g[e] = s <=> fds[e] = s /\ e # p.out
  BY <1>2, <1>5, ClosesOwn
<1>8. Addressed'
  BY <1>1 DEF Addressed, Done
<1>9. PathInv' /\ path' \in Socks \cup {NoSock}
  <2>1. o.kind # "unix server"
    BY <1>1, <1>3
  <2> HIDE DEF o
  <2> QED BY <1>1, <1>13, <2>1, PathStays
<1> HIDE DEF p, o, g
<1>11. Kept(g, o, s)
  BY <1>1, <1>2, <1>3, <1>7 DEF Kept, Servers, Number
<1>12. Owned(g, o, lost', s)
  BY <1>1, <1>2, <1>3, <1>7 DEF Owned
<1> QED BY <1>1, <1>2, <1>13, <1>3, <1>4, <1>5, <1>7, <1>8, <1>9, <1>11, <1>12, Changed

LEMMA CloseKeeps ==
  ASSUME NetworkConstants, SocketsInv, stray = NoSock, NEW s \in Socks, SocketClose(s)
  PROVE  SocketsInv'
<1> DEFINE p == sock[s]
           o == SocketCloses(s)
           f == Closes(fds, p.in)
           g == Closes(f, p.out)
<1>1. p.kind \in {"client", "unix"} \cup Servers /\ p.kind # "none" /\ p.fd > 0
  BY DEF SocketClose, Servers
<1>2. /\ p \in Socket /\ fds \in Holders /\ s # NoSock
      /\ Kept(fds, p, s) /\ Owned(fds, p, lost, s)
      /\ p.fd \in Number /\ p.in \in Number /\ p.out \in Number
  BY <1>1, OpenSocket
<1>3. /\ o \in Socket /\ o.kind = p.kind /\ o.fd = None /\ o.in = None /\ o.out = None
  BY <1>2 DEF SocketCloses, Socket, Number
<1>4. /\ fds' = g /\ sock' = [sock EXCEPT ![s] = o] /\ result' = Done
      /\ lost' = (IF p.kind \in Servers THEN lost \cup {p.fd} ELSE lost)
      /\ stray' = IF IsStray(fds, s, p.in) \/ IsStray(f, s, p.out) THEN s ELSE NoSock
  <2>1. /\ (IF o.in = p.in THEN fds ELSE Closes(fds, p.in)) = f
        /\ (IF o.out = p.out THEN f ELSE Closes(f, p.out)) = g
    BY <1>3 DEF Closes
  <2> HIDE DEF o, f, g
  <2>2. /\ fds' = g /\ sock' = [sock EXCEPT ![s] = o]
        /\ stray' = IF IsStray(fds, s, p.in) \/ IsStray(f, s, p.out) THEN s ELSE NoSock
    BY <2>1 DEF SocketClose, o, f
  <2> QED BY <2>2 DEF SocketClose
<1>5. p.in # None => fds[p.in] = s
  BY <1>1, <1>2 DEF Kept, Servers
<1>6. /\ f \in Holders
      /\ \A t \in Socks \ {s} : \A e \in Fds : fds[e] = t <=> f[e] = t
      /\ \A e \in Fds : f[e] = s <=> fds[e] = s /\ e # p.in
  BY <1>2, <1>5, ClosesOwn
<1>7. p.out # None => p.out \in Fds /\ fds[p.out] = s /\ p.out # p.in
  BY <1>1, <1>2 DEF Kept, Servers, Number
<1> HIDE DEF f
<1>8. p.out # None => f[p.out] = s
  BY <1>6, <1>7
<1>9. /\ g \in Holders
      /\ \A t \in Socks \ {s} : \A e \in Fds : f[e] = t <=> g[e] = t
      /\ \A e \in Fds : g[e] = s <=> f[e] = s /\ e # p.out
  BY <1>2, <1>6, <1>8, ClosesOwn
<1>10. stray' = NoSock
  BY <1>4, <1>5, <1>8 DEF IsStray
<1> HIDE DEF o, g
<1>11. \A t \in Socks \ {s} : \A e \in Fds : fds[e] = t <=> g[e] = t
  BY <1>6, <1>9
<1>12. \A e \in Fds : g[e] = s <=> fds[e] = s /\ e # p.in /\ e # p.out
  BY <1>6, <1>9
<1>13. Kept(g, o, s)
  BY <1>1, <1>3 DEF Kept, Servers
<1>14. Owned(g, o, lost', s)
  <2> SUFFICES ASSUME NEW d \in Fds, g[d] = s, d \notin lost'
               PROVE  FALSE
    BY DEF Owned
  <2>1. fds[d] = s /\ d # p.in /\ d # p.out /\ d \notin lost
    BY <1>4, <1>12
  <2>2. d = p.fd
    BY <1>2, <2>1 DEF Owned
  <2>3. p.kind \notin Servers
    BY <1>4, <2>2
  <2>4. p.kind \in {"client", "unix"}
    BY <1>1, <2>3
  <2> QED BY <1>2, <2>1, <2>2, <2>4 DEF Kept, Number, None, NetworkConstants
<1>15. Addressed'
  BY <1>4 DEF Addressed, Done
<1>16. PathInv' /\ path' \in Socks \cup {NoSock}
  <2>1. CASE p.kind = "unix server"
    <3>1. path' = NoSock /\ Displaces(s)
      BY <2>1 DEF SocketClose, ServerUnixSocketCloseHook
    <3>2. \A t \in Socks : path = t \/ t \in displaced => t = s \/ t \in displaced'
      BY <3>1 DEF Displaces, NetworkConstants
    <3>3. \A t \in Socks : sock'[t] = IF t = s THEN o ELSE sock[t]
      BY <1>4 DEF SocketsInv, SocketTypes
    <3> QED BY <1>3, <3>1, <3>2, <3>3 DEF SocketsInv, PathInv
  <2>2. CASE p.kind # "unix server"
    <3>1. UNCHANGED pathVars
      BY <2>2 DEF SocketClose, ServerUnixSocketCloseHook
    <3> QED BY <1>3, <1>4, <3>1, PathStays
  <2> QED BY <2>1, <2>2
<1>17. lost \subseteq lost'
  BY <1>4
<1> HIDE DEF p
<1> QED BY <1>2, <1>3, <1>4, <1>9, <1>10, <1>11, <1>13, <1>14, <1>15, <1>16, <1>17, Changed

LEMMA DatagramCloseKeeps ==
  ASSUME NetworkConstants, SocketsInv, stray = NoSock, NEW s \in Socks, BglDatagramSocketClose(s)
  PROVE  SocketsInv'
<1> DEFINE p == sock[s]
           o == [p EXCEPT !.fd = None]
           g == Closes(fds, p.fd)
<1>1. /\ p.kind \in {"datagram client", "datagram server"} /\ p.fd > 0
      /\ fds' = g /\ lost' = lost /\ result' = Done
      /\ stray' = (IF IsStray(fds, s, p.fd) THEN s ELSE NoSock) /\ UNCHANGED pathVars
  BY DEF BglDatagramSocketClose
<1>13. sock' = [sock EXCEPT ![s] = o]
  BY DEF BglDatagramSocketClose
<1>2. /\ p \in Socket /\ fds \in Holders /\ s # NoSock
      /\ Kept(fds, p, s) /\ Owned(fds, p, lost, s)
      /\ p.fd \in Number /\ p.in \in Number /\ p.out \in Number
  BY <1>1, OpenSocket
<1>14. p.fd # None
  BY <1>1, OpenNumber
<1>3. /\ o \in Socket /\ o.kind = p.kind /\ o.fd = None /\ o.in = p.in /\ o.out = p.out
  BY <1>2 DEF Socket, Number
<1>4. g \in Holders
  BY <1>2, ClosesHolders
<1>5. stray' = NoSock => fds[p.fd] = s
  BY <1>1, <1>2, <1>14 DEF IsStray
<1>6. p.kind # "datagram server" => stray' = NoSock
  BY <1>1, <1>2, <1>14 DEF IsStray, Kept
<1>7. ASSUME stray' = NoSock
      PROVE  /\ \A t \in Socks \ {s} : \A e \in Fds : fds[e] = t <=> g[e] = t
             /\ \A e \in Fds : g[e] = s <=> fds[e] = s /\ e # p.fd
  BY <1>2, <1>5, <1>7, ClosesOwn
<1>8. Addressed'
  BY <1>1 DEF Addressed, Done
<1>9. PathInv' /\ path' \in Socks \cup {NoSock}
  <2>1. o.kind # "unix server"
    BY <1>1, <1>3
  <2> HIDE DEF o
  <2> QED BY <1>1, <1>13, <2>1, PathStays
<1>10. stray' \in {NoSock, s} /\ (stray' = s => o.kind = "datagram server")
  BY <1>1, <1>2, <1>3, <1>6
<1> HIDE DEF p, o, g
<1>11. ASSUME stray' = NoSock
       PROVE  Kept(g, o, s) /\ Owned(g, o, lost', s)
  <2>1. Kept(g, o, s)
    BY <1>1, <1>2, <1>3, <1>7, <1>11 DEF Kept, Servers, Number
  <2>2. Owned(g, o, lost', s)
    BY <1>1, <1>2, <1>3, <1>7, <1>11 DEF Owned
  <2> QED BY <2>1, <2>2
<1> QED BY <1>1, <1>13, <1>3, <1>4, <1>7, <1>8, <1>9, <1>10, <1>11, Changed

-----------------------------------------------------------------------------
(* The calls that act on a descriptor.                                     *)
LEMMA ActedOwn ==
  ASSUME NetworkConstants, SocketsInv, stray = NoSock, NEW s \in Socks, sock[s].kind # "none",
         sock[s].fd # None, result' = Acted(s)
  PROVE  Addressed'
<1> DEFINE own == Own(s)
           open == sock[s].kind \in Servers \cup {"datagram client"} \/ sock[s].in # None
<1>1. Kept(fds, sock[s], s) /\ sock[s] \in Socket
  BY OpenSocket
<1>2. sock[s].kind \in {"client", "unix", "datagram client", "datagram server"} \cup Servers
  BY <1>1 DEF Socket
<1>3. own \/ ~ open
  BY <1>1, <1>2 DEF Kept, Own
<1>4. result' = [kind |-> "acted", own |-> own, open |-> open]
  BY DEF Acted
<1> HIDE DEF own, open
<1>5. result'.kind = "acted" /\ result'.own = own /\ result'.open = open
  BY <1>4
<1> QED BY <1>3, <1>5 DEF Addressed

LEMMA Observed ==
  ASSUME SocketsInv, UNCHANGED <<fds, sock, lost, stray, path, displaced>>, Addressed'
  PROVE  SocketsInv'
BY DEF SocketsInv, SocketTypes, HoldInv, PathInv, Kept, Owned

LEMMA ActsKeep ==
  ASSUME NetworkConstants, SocketsInv, stray = NoSock, NEW s \in Socks,
         SocketShutdown(s) \/ DatagramSocketWrite(s) \/ BglDatagramSocketTransfer(s)
  PROVE  SocketsInv'
<1>1. /\ sock[s].kind # "none" /\ result' = Acted(s)
      /\ UNCHANGED <<fds, sock, lost, stray, path, displaced>>
  BY DEF SocketShutdown, DatagramSocketWrite, BglDatagramSocketTransfer, Servers
<1>2. sock[s].fd > 0 \/ sock[s].fd >= 0
  BY DEF SocketShutdown, DatagramSocketWrite, BglDatagramSocketTransfer
<1>3. sock[s].fd # None
  <2> DEFINE d == sock[s].fd
  <2>1. d > 0 \/ d >= 0
    BY <1>2
  <2> HIDE DEF d
  <2>2. d # None
    BY <2>1 DEF None
  <2> QED BY <2>2 DEF d
<1> QED BY <1>1, <1>3, ActedOwn, Observed

LEMMA TimevalExact ==
  ASSUME NEW v \in Nat
  PROVE  BTimeval(SetTimeval(v)) = v
BY DEF BTimeval, SetTimeval

LEMMA SetKeeps ==
  ASSUME NetworkConstants, SocketsInv, stray = NoSock, NEW s \in Socks, NEW o \in Options,
         NEW v \in Values[o], BglSetsockopt(s, o, v)
  PROVE  SocketsInv'
<1> DEFINE w == fds[sock[s].fd]
           opt == [name |-> o, value |-> v]
           n == [sock EXCEPT ![w].opt = opt]
<1>1. /\ sock[s].kind # "none" /\ sock[s].fd # None /\ result' = Acted(s)
      /\ UNCHANGED <<fds, lost, stray, path, displaced>>
  BY DEF BglSetsockopt
<1>2. sock' = sock \/ (w \in Socks /\ sock[w] # NoObject /\ sock' = n)
  BY DEF BglSetsockopt
<1>3. Addressed'
  BY <1>1, ActedOwn
<1>4. sock \in [Socks -> {NoObject} \cup Socket]
  BY DEF SocketsInv, SocketTypes
<1>5. opt \in [name : Options, value : Nat]
  BY DEF Values, Options
<1> HIDE DEF opt, w
<1>6. CASE sock' = sock
  BY <1>1, <1>3, <1>6, Observed
<1>7. CASE w \in Socks /\ sock[w] # NoObject /\ sock' = n
  <2>1. sock[w] \in Socket
    BY <1>4, <1>7
  <2>2. n[w] \in Socket /\ n[w].kind = sock[w].kind /\ n[w].fd = sock[w].fd
        /\ n[w].in = sock[w].in /\ n[w].out = sock[w].out
    <3>1. n[w] = [sock[w] EXCEPT !.opt = opt]
      BY <1>4, <1>7
    <3> QED BY <1>5, <2>1, <3>1 DEF Socket
  <2>3. n = [sock EXCEPT ![w] = n[w]] /\ n \in [Socks -> {NoObject} \cup Socket]
        /\ \A t \in Socks \ {w} : n[t] = sock[t]
    BY <1>4, <1>7, <2>2
  <2> HIDE DEF n
  <2>4. \A t \in Socks :
          /\ n[t].kind = sock[t].kind /\ (sock[t] = NoObject => n[t] = NoObject)
          /\ sock[t] # NoObject => n[t].fd = sock[t].fd /\ n[t].in = sock[t].in /\ n[t].out = sock[t].out
    BY <1>7, <2>2, <2>3
  <2> QED BY <1>1, <1>3, <1>7, <2>3, <2>4, AlikeHold
<1> QED BY <1>2, <1>6, <1>7

LEMMA GetKeeps ==
  ASSUME NetworkConstants, SocketsInv, stray = NoSock, NEW s \in Socks, NEW o \in Options,
         BglGetsockopt(s, o)
  PROVE  SocketsInv'
<1> DEFINE opt == sock[s].opt
           got == Read(o, opt.value)
<1>1. /\ sock[s].kind # "none" /\ sock[s].fd # None
      /\ result' = (IF ~ Own(s) THEN Acted(s)
                    ELSE IF opt.name # o THEN Done
                    ELSE [kind |-> "option", name |-> o, set |-> opt.value, got |-> got])
      /\ UNCHANGED <<fds, sock, lost, stray, path, displaced>>
  BY DEF BglGetsockopt
<1>2. opt \in [name : Options, value : Nat]
  BY <1>1, OpenSocket DEF Socket
<1>3. opt.value \in Nat
  BY <1>2
<1> HIDE DEF opt
<1>4. o # "ttl" => got = opt.value
  BY <1>3, TimevalExact DEF Read
<1> HIDE DEF got
<1>5. CASE ~ Own(s)
  BY <1>1, <1>5, ActedOwn, Observed
<1>6. CASE Own(s) /\ opt.name # o
  <2>1. Addressed'
    BY <1>1, <1>6 DEF Addressed, Done
  <2> QED BY <1>1, <2>1, Observed
<1>7. CASE Own(s) /\ opt.name = o
  <2>1. result' = [kind |-> "option", name |-> o, set |-> opt.value, got |-> got]
    BY <1>1, <1>7
  <2>2. Addressed'
    BY <1>4, <2>1 DEF Addressed
  <2> QED BY <1>1, <2>2, Observed
<1> QED BY <1>5, <1>6, <1>7

(* Two sockets that can be read have two descriptors, so select tells them *)
(* apart.                                                                  *)
LEMMA SelectKeeps ==
  ASSUME NetworkConstants, SocketsInv, stray = NoSock, NEW rs \in SUBSET Socks, NEW ws \in SUBSET Socks,
         NEW ready \in SUBSET rs, BglSelect(rs, ws, ready)
  PROVE  SocketsInv'
<1> DEFINE set == {Objfd(s, -1) : s \in ready}
           read == Readers(rs, set)
           write == Writers(rs, ws, {Objfd(s, 1) : s \in ws})
<1>1. /\ \A s \in rs : sock[s].kind \in {"client", "unix"} /\ sock[s].in # None
      /\ result' = [kind |-> "select", read |-> read, write |-> write, ready |-> ready]
      /\ UNCHANGED <<fds, sock, lost, stray, path, displaced>>
  BY DEF BglSelect
<1>2. ASSUME NEW s \in rs
      PROVE  Objfd(s, -1) = sock[s].in /\ Objfd(s, -1) > 0 /\ fds[Objfd(s, -1)] = s
  <2>1. Kept(fds, sock[s], s) /\ sock[s].in \in Number
    BY <1>1, <1>2, OpenSocket
  <2>2. Objfd(s, -1) = sock[s].in
    BY <1>1, <1>2 DEF Objfd
  <2>3. sock[s].in \in Fds /\ fds[sock[s].in] = s
    BY <1>1, <1>2, <2>1 DEF Kept, Number
  <2>4. sock[s].in > 0
    <3>1. \A d \in Fds : d > 0
      BY DEF NetworkConstants
    <3> QED BY <2>3, <3>1
  <2> QED BY <2>2, <2>3, <2>4
<1>3. read = ready
  <2>1. ASSUME NEW s \in rs, Objfd(s, -1) \in set
        PROVE  s \in ready
    <3>1. PICK t \in ready : Objfd(s, -1) = Objfd(t, -1)
      BY <2>1
    <3> QED BY <1>2, <3>1
  <2>2. read \subseteq ready
    BY <2>1 DEF Readers
  <2>3. ready \subseteq read
    BY <1>2 DEF Readers
  <2> QED BY <2>2, <2>3
<1> HIDE DEF read, write
<1>4. Addressed'
  BY <1>1, <1>3 DEF Addressed
<1> QED BY <1>1, <1>4, Observed

LEMMA SocketSafe ==
  ASSUME NetworkConstants, SocketsInv, SocketNext
  PROVE  SocketsInv'
<1>1. stray = NoSock
  BY DEF SocketNext
<1>2. CASE \E rs, ws \in SUBSET Socks : \E ready \in SUBSET rs : BglSelect(rs, ws, ready)
  BY <1>1, <1>2, SelectKeeps
<1>3. ASSUME NEW s \in Socks,
             \/ \E timeo \in BOOLEAN :
                  \/ \E outcome \in {"at once", "in progress", "no file", "refused"} :
                       BglMakeClientSocket(s, timeo, outcome)
                  \/ BglMakeClientUnixSocket(s, timeo)
             \/ \E outcome \in {"ok", "option or name", "bind or listen"} : BglMakeServerSocket(s, outcome)
             \/ \E outcome \in {"ok", "bind or listen"} : BglMakeServerUnixSocket(s, outcome)
      PROVE  SocketsInv'
  <2>1. ASSUME NEW timeo \in BOOLEAN, BglMakeClientUnixSocket(s, timeo)
        PROVE  SocketsInv'
    BY <1>1, <2>1, PortsBecome DEF BglMakeClientUnixSocket
  <2> QED BY <1>1, <1>3, <2>1, ClientMade, ServerMade, UnixServerMade
<1>4. ASSUME NEW s \in Socks,
             \E serv \in Socks :
               \/ BglSocketAccept(serv, s)
               \/ \E outcome \in {"select", "one", "none"} : BglSocketAcceptMany(serv, s, outcome)
      PROVE  SocketsInv'
  BY <1>1, <1>4, AcceptKeeps, AcceptManyKeeps
<1>5. ASSUME NEW s \in Socks,
             \/ CloseInput(s) \/ CloseOutput(s) \/ SocketClose(s) \/ SocketShutdown(s)
             \/ \E o \in Options : BglGetsockopt(s, o) \/ \E v \in Values[o] : BglSetsockopt(s, o, v)
      PROVE  SocketsInv'
  BY <1>1, <1>5, InputKeeps, OutputKeeps, CloseKeeps, ActsKeep, GetKeeps, SetKeeps
<1>6. ASSUME NEW s \in Socks,
             \/ \E outcome \in {"ok", "option", "fdopen", "bind"} :
                  \/ BglMakeDatagramClientSocket(s, outcome) \/ BglMakeDatagramServerSocket(s, outcome)
             \/ \E outcome \in {"ok", "fdopen"} : BglMakeDatagramUnboundSocket(s, outcome)
             \/ DatagramSocketWrite(s)
             \/ BglDatagramSocketClose(s) \/ BglDatagramSocketTransfer(s)
      PROVE  SocketsInv'
  BY <1>1, <1>6, DatagramMade, ActsKeep, DatagramCloseKeeps
<1> QED BY <1>2, <1>3, <1>4, <1>5, <1>6 DEF SocketNext, SocketSteps

LEMMA SocketsStart ==
  ASSUME NetworkConstants, InitSockets
  PROVE  SocketsInv
BY DEF InitSockets, SocketsInv, SocketTypes, HoldInv, PathInv, Addressed, Kept, Owned, NoObject, Servers,
       Done, NetworkConstants

LEMMA SocketsDescriptors ==
  ASSUME NetworkConstants, SocketsInv
  PROVE  Descriptors
BY DEF SocketsInv, SocketTypes, HoldInv, PathInv, Descriptors, Kept, Owned

-----------------------------------------------------------------------------
(* A client is told what the DNS answered for its host within the validity *)
(* of the cache; what a socket acts on is its own descriptor, always for   *)
(* servers and datagram clients and for the others until their input port  *)
(* is closed on its own; until a datagram server closes a number that it   *)
(* had closed before, every socket closes descriptors of its own, and none *)
(* is left open that no object and no reported error accounts for.         *)
THEOREM NetworkIsExact ==
  ASSUME NetworkConstants
  PROVE  NetworkSpec => []NetworkExact
<1> DEFINE Inv == SocketsInv /\ ResolverInv /\ ClientInv /\ AnswersAreCurrent
<1>1. InitSockets /\ InitResolver => Inv
  BY SocketsStart, ResolverStarts
<1>2. Inv /\ [NetworkNext]_networkVars => Inv'
  <2> SUFFICES ASSUME Inv, [NetworkNext]_networkVars
               PROVE  Inv'
    OBVIOUS
  <2>1. ASSUME UNCHANGED resolverVars
        PROVE  ResolverInv' /\ ClientInv' /\ AnswersAreCurrent'
    BY <2>1 DEF resolverVars, ResolverInv, ClientInv, AnswersAreCurrent, HostCached, AddrCached
  <2>2. CASE SocketNext /\ UNCHANGED resolverVars
    BY <2>1, <2>2, SocketSafe
  <2>3. CASE (HostNext \/ AddrNext) /\ UNCHANGED socketVars
    BY <2>3, HostSteps, AddrSteps, SocketUnchanged
  <2>4. CASE UNCHANGED networkVars
    BY <2>1, <2>4, SocketUnchanged DEF networkVars
  <2> QED BY <2>2, <2>3, <2>4 DEF NetworkNext
<1>3. Inv => NetworkExact
  BY SocketsDescriptors DEF NetworkExact, SocketsInv
<1> QED BY <1>1, <1>2, <1>3, PTL DEF NetworkSpec

-----------------------------------------------------------------------------
(* TLS connections.  The records of the handshake that end e has sent when *)
(* its SSL object is at step n, and those that it has taken.               *)
Greeting(e, n) ==
  IF n = 0 THEN <<>>
  ELSE IF e = "server" THEN <<"reply">>
  ELSE IF n = 1 THEN <<"hello">> ELSE <<"hello", "finish">>

Heard(e, n) ==
  IF n = 0 THEN <<>>
  ELSE IF e = "server" THEN IF n = 1 THEN <<"hello">> ELSE <<"hello", "finish">>
  ELSE IF n = 1 THEN <<>> ELSE <<"reply">>

Notice(b) == IF b THEN <<"close">> ELSE <<>>

(* All that an end has sent, all that it has taken, and what is on its way *)
(* to it.                                                                  *)
Given(e) == Greeting(e, ssl[e].step) \o (text[e].in \o Notice(ssl[e].sent))
Taken(e) == Heard(e, ssl[e].step) \o (text[e].out \o Notice(ssl[e].received))
Pending(e) == bioread[e] \o (net[e] \o biowrite[Peer(e)])

StreamInv == \A e \in Ends : Given(Peer(e)) = Taken(e) \o Pending(e)

Plain == {Texts[i] : i \in 1 .. Len(Texts)}
Record == Notices \cup Plain

SslObject == [step : 0 .. 3, sent : BOOLEAN, received : BOOLEAN, live : BOOLEAN, failed : BOOLEAN]
Con == [err : {"none", "ssl"}, sent : BOOLEAN, received : BOOLEAN, next : Sessions \cup {"none"},
        request : BOOLEAN, reject : BOOLEAN, cert : {"none", "bad", "good"}]

SslTypes ==
  /\ bioread \in [Ends -> Seq(Record)] /\ biowrite \in [Ends -> Seq(Record)]
  /\ net \in [Ends -> Seq(Record)]
  /\ ssl \in [Ends -> SslObject] /\ con \in [Ends -> Con]
  /\ text \in [Ends -> [in : Seq(Plain), out : Seq(Plain)]]
  /\ session \in [Sessions -> {"free", "loaded", "given", "freed"}]

EndOf(e) ==
  /\ (con[e].sent <=> ssl[e].sent) /\ (con[e].received <=> ssl[e].received)
  /\ con[e].err # "none" <=> ssl[e].failed
  /\ ssl[e].step # 2 => /\ text[e].in = <<>> /\ text[e].out = <<>>
                        /\ ~ ssl[e].sent /\ ~ ssl[e].received

EndInv == \A e \in Ends : EndOf(e)

CertInv ==
  ssl["server"].step = 2 /\ con["server"].request /\ con["server"].reject => con["server"].cert # "none"

SessionsInv ==
  /\ con["server"].next # "none" => session[con["server"].next] = "loaded"
  /\ \A s \in Sessions : session[s] = "loaded" => s = con["server"].next

ServerInv == CertInv /\ SessionsInv

-----------------------------------------------------------------------------
(* The SSL object of a socket, its ports and the thread that closes it.    *)
Conn ==
  [phase : {"plain", "handshake", "secure", "refused", "failed"},
   ssl : {"none", "live", "leaked", "freed"}, reading : BOOLEAN, fd : BOOLEAN,
   in : {"open", "closed"}, out : {"open", "closed"}, pending : BOOLEAN, eof : BOOLEAN,
   frees : Nat, inCloses : Nat, outCloses : Nat]

ConnTypes ==
  /\ conn \in Conn
  /\ sslreader \in [at : {"idle", "reading", "returned"}, late : BOOLEAN]
  /\ sslcloser \in {"idle", "hook", "input", "output", "done"}
  /\ badUses \subseteq {"read", "flush"}

ConnInv ==
  /\ conn.frees = IF conn.ssl = "freed" THEN 1 ELSE 0
  /\ conn.inCloses = IF conn.in = "closed" THEN 1 ELSE 0
  /\ conn.outCloses = IF conn.out = "closed" THEN 1 ELSE 0
  /\ conn.phase = "handshake" => conn.in = "open" /\ conn.ssl = "live"
  /\ conn.phase \in {"handshake", "failed"} => sslcloser = "idle"
  /\ conn.phase # "failed" => (conn.out = "open" <=> sslcloser # "done")
  /\ conn.phase = "secure" /\ sslcloser \in {"idle", "hook"} => conn.ssl = "live"
  /\ conn.phase = "plain" => conn.ssl = "none"
  /\ conn.in = "closed" => conn.phase \in {"secure", "failed"} \/ sslcloser \in {"output", "done"}
  /\ conn.ssl = "freed" => sslcloser \in {"input", "output", "done"}
  /\ conn.pending => conn.phase = "secure"
  /\ sslcloser # "idle" => ~ conn.fd
  /\ sslcloser = "hook" => conn.phase = "secure"
  /\ sslcloser \in {"output", "done"} => conn.in = "closed"
  /\ badUses # {} => ~ conn.fd

ReaderInv ==
  /\ sslreader.at # "idle" => conn.reading /\ conn.phase = "secure"
  /\ sslreader.at = "reading" /\ ~ sslreader.late => conn.ssl # "freed"

SslSocketInv == ConnTypes /\ ConnInv /\ ReaderInv

LEMMA SslSocketStarts ==
  ASSUME InitSslSocket
  PROVE  SslSocketInv
BY DEF InitSslSocket, SslSocketInv, ConnTypes, Conn, ConnInv, ReaderInv

LEMMA SslSocketKept ==
  ASSUME SslSocketInv
  PROVE  SslKept
BY DEF SslSocketInv, ConnTypes, Conn, ConnInv, ReaderInv, SslKept

(* What the closing of either port, and the close hook, change.            *)
LEMMA InputClosedFields ==
  ASSUME NEW c \in Conn
  PROVE  LET d == [c EXCEPT !.in = "closed", !.eof = TRUE, !.inCloses = @ + 1]
         IN /\ d \in Conn /\ d.in = "closed" /\ d.inCloses = c.inCloses + 1 /\ d.phase = c.phase
            /\ d.ssl = c.ssl /\ d.reading = c.reading /\ d.fd = c.fd /\ d.out = c.out
            /\ d.pending = c.pending /\ d.frees = c.frees /\ d.outCloses = c.outCloses
<1> DEFINE n == c.inCloses + 1
           d == [c EXCEPT !.in = "closed", !.eof = TRUE, !.inCloses = n]
<1>1. n \in Nat
  BY DEF Conn
<1> HIDE DEF n
<1>2. d \in Conn
  BY <1>1 DEF Conn
<1>3. /\ d.in = "closed" /\ d.inCloses = n /\ d.phase = c.phase /\ d.ssl = c.ssl /\ d.out = c.out
      /\ d.frees = c.frees /\ d.outCloses = c.outCloses
  BY DEF Conn
<1>4. d.reading = c.reading
  BY DEF Conn
<1>5. d.fd = c.fd
  BY DEF Conn
<1>6. d.pending = c.pending
  BY DEF Conn
<1> QED BY <1>2, <1>3, <1>4, <1>5, <1>6 DEF n

LEMMA OutputClosedFields ==
  ASSUME NEW c \in Conn
  PROVE  LET d == [c EXCEPT !.out = "closed", !.pending = FALSE, !.outCloses = @ + 1]
         IN /\ d \in Conn /\ d.out = "closed" /\ d.outCloses = c.outCloses + 1 /\ d.phase = c.phase
            /\ d.ssl = c.ssl /\ d.reading = c.reading /\ d.fd = c.fd /\ d.in = c.in
            /\ ~ d.pending /\ d.frees = c.frees /\ d.inCloses = c.inCloses
<1> DEFINE n == c.outCloses + 1
           d == [c EXCEPT !.out = "closed", !.pending = FALSE, !.outCloses = n]
<1>1. n \in Nat
  BY DEF Conn
<1> HIDE DEF n
<1>2. d \in Conn
  BY <1>1 DEF Conn
<1>3. /\ d.out = "closed" /\ d.outCloses = n /\ d.phase = c.phase /\ d.ssl = c.ssl /\ d.in = c.in
      /\ d.frees = c.frees /\ d.inCloses = c.inCloses
  BY DEF Conn
<1>4. d.reading = c.reading
  BY DEF Conn
<1>5. d.fd = c.fd
  BY DEF Conn
<1>6. ~ d.pending
  BY DEF Conn
<1> QED BY <1>2, <1>3, <1>4, <1>5, <1>6 DEF n

LEMMA SslSocketSteps ==
  ASSUME SslSocketInv, SslSocketNext
  PROVE  SslSocketInv'
<1> USE DEF SslSocketInv, ConnTypes, Conn, ConnInv, ReaderInv
<1>1. CASE SocketEnableSsl
  BY <1>1, ZenonT(60) DEF SocketEnableSsl
<1>2. CASE Handshake
  <2>1. sslcloser = "idle" /\ UNCHANGED <<sslreader, sslcloser, badUses>> /\ conn \in Conn
    BY <1>2 DEF Handshake, Conn
  <2>2. CASE conn' = [conn EXCEPT !.phase = "failed", !.ssl = "leaked", !.fd = FALSE,
                        !.in = "closed", !.out = "closed", !.eof = TRUE,
                        !.inCloses = @ + 1, !.outCloses = @ + 1]
    <3> DEFINE m == conn.inCloses + 1
               n == conn.outCloses + 1
               d == [conn EXCEPT !.phase = "failed", !.ssl = "leaked", !.fd = FALSE,
                       !.in = "closed", !.out = "closed", !.eof = TRUE,
                       !.inCloses = m, !.outCloses = n]
    <3>1. m = 1 /\ n = 1 /\ m \in Nat /\ n \in Nat /\ conn.ssl = "live"
      BY <1>2, <2>1 DEF Handshake
    <3>2. conn' = d
      BY <2>2
    <3> HIDE DEF m, n
    <3>3. d \in Conn
      BY <2>1, <3>1 DEF Conn
    <3>4. /\ d.phase = "failed" /\ d.ssl = "leaked" /\ d.in = "closed" /\ d.out = "closed"
          /\ d.inCloses = m /\ d.outCloses = n /\ d.frees = conn.frees
      BY <2>1 DEF Conn
    <3>5. d.fd = FALSE /\ d.pending = conn.pending
      BY <2>1 DEF Conn
    <3>6. ~ conn.pending /\ sslreader.at = "idle"
      BY <1>2 DEF Handshake
    <3> HIDE DEF d
    <3> QED BY <2>1, <3>1, <3>2, <3>3, <3>4, <3>5, <3>6 DEF Conn
  <2>3. CASE conn' = [conn EXCEPT !.phase = "refused", !.ssl = "leaked"]
    BY <1>2, <2>1, <2>3 DEF Handshake
  <2>4. CASE conn' = [conn EXCEPT !.phase = "secure"]
    BY <1>2, <2>1, <2>4 DEF Handshake
  <2> QED BY <1>2, <2>2, <2>3, <2>4 DEF Handshake
<1>3. CASE SslReadMark
  <2> DEFINE late == conn.ssl = "freed"
  <2>1. /\ conn' = [conn EXCEPT !.reading = TRUE] /\ sslreader' = [at |-> "reading", late |-> late]
        /\ late \in BOOLEAN /\ (late <=> conn.ssl = "freed") /\ conn.phase = "secure"
        /\ UNCHANGED <<sslcloser, badUses>>
    BY <1>3 DEF SslReadMark
  <2> HIDE DEF late
  <2>2. sslreader' \in [at : {"idle", "reading", "returned"}, late : BOOLEAN]
    BY <2>1, Zenon
  <2>3. sslreader'.at = "reading" /\ sslreader'.late = late
    BY <2>1
  <2> QED BY <2>1, <2>2, <2>3
<1>4. CASE SslRead
  BY <1>4 DEF SslRead, Use
<1>5. CASE SslReadUnmark
  BY <1>5 DEF SslReadUnmark
<1>6. CASE SslPut
  BY <1>6 DEF SslPut
<1>7. CASE SslWrite
  BY <1>7 DEF SslWrite, Use
<1>8. CASE SocketCloseStart
  BY <1>8 DEF SocketCloseStart
<1>9. CASE SocketCloseHook
  <2>1. CASE conn.reading
    BY <1>9, <2>1 DEF SocketCloseHook
  <2>2. CASE ~ conn.reading
    <3> DEFINE n == conn.frees + 1
               d == [conn EXCEPT !.ssl = "freed", !.frees = n]
    <3>1. /\ conn' = d /\ sslcloser = "hook" /\ sslcloser' = "input" /\ UNCHANGED <<sslreader, badUses>>
      BY <1>9, <2>2 DEF SocketCloseHook
    <3>2. conn.ssl = "live" /\ n = 1 /\ n \in Nat /\ conn \in Conn
      BY <3>1 DEF Conn
    <3> HIDE DEF n
    <3>3. d \in Conn
      BY <3>2 DEF Conn
    <3>4. /\ d.ssl = "freed" /\ d.frees = n /\ d.phase = conn.phase /\ d.in = conn.in
          /\ d.out = conn.out /\ d.inCloses = conn.inCloses /\ d.outCloses = conn.outCloses
      BY <3>2 DEF Conn
    <3>5. d.fd = conn.fd /\ d.pending = conn.pending /\ d.reading = conn.reading
      BY <3>2 DEF Conn
    <3> HIDE DEF d
    <3> QED BY <2>2, <3>1, <3>2, <3>3, <3>4, <3>5 DEF Conn
  <2> QED BY <2>1, <2>2
<1>10. CASE SslInputClose
  <2>1. CASE conn.in = "closed"
    BY <1>10, <2>1 DEF SslInputClose, InputClosedBy
  <2>2. CASE conn.in = "open"
    <3>1. conn' = [conn EXCEPT !.in = "closed", !.eof = TRUE, !.inCloses = @ + 1]
      BY <1>10, <2>2 DEF SslInputClose, InputClosedBy
    <3>4. /\ conn' \in Conn /\ conn'.in = "closed" /\ conn'.inCloses = conn.inCloses + 1
          /\ conn'.phase = conn.phase /\ conn'.ssl = conn.ssl /\ conn'.reading = conn.reading
          /\ conn'.fd = conn.fd /\ conn'.out = conn.out /\ conn'.pending = conn.pending
          /\ conn'.frees = conn.frees /\ conn'.outCloses = conn.outCloses
      BY <3>1, InputClosedFields, ZenonT(60) DEF Conn
    <3>5. UNCHANGED <<sslreader, badUses>> /\ conn.inCloses = 0
      BY <1>10, <2>2 DEF SslInputClose
    <3>2. CASE sslcloser = "input" /\ sslcloser' = "output"
      BY <2>2, <3>4, <3>5, <3>2 DEF Conn
    <3>3. CASE conn.phase = "secure" /\ UNCHANGED sslcloser
      BY <2>2, <3>4, <3>5, <3>3 DEF Conn
    <3> QED BY <1>10, <3>2, <3>3 DEF SslInputClose
  <2> QED BY <2>1, <2>2
<1>11. CASE SslOutputClose
  <2>1. badUses' \subseteq {"read", "flush"} /\ (badUses' # badUses => conn.ssl = "freed")
    BY <1>11 DEF SslOutputClose, Use
  <2>2. /\ conn' = [conn EXCEPT !.out = "closed", !.pending = FALSE, !.outCloses = @ + 1]
        /\ sslcloser = "output" /\ sslcloser' = "done" /\ UNCHANGED sslreader
    BY <1>11 DEF SslOutputClose
  <2>3. conn.phase # "failed" /\ conn.out = "open" /\ conn.outCloses = 0 /\ ~ conn.fd
    BY <2>2
  <2>4. /\ conn' \in Conn /\ conn'.out = "closed" /\ conn'.outCloses = conn.outCloses + 1
        /\ conn'.phase = conn.phase /\ conn'.ssl = conn.ssl /\ conn'.reading = conn.reading
        /\ conn'.fd = conn.fd /\ conn'.in = conn.in /\ ~ conn'.pending
        /\ conn'.frees = conn.frees /\ conn'.inCloses = conn.inCloses
    BY <2>2, OutputClosedFields, ZenonT(60) DEF Conn
  <2> QED BY <2>1, <2>2, <2>3, <2>4 DEF Conn
<1> QED BY <1>1, <1>2, <1>3, <1>4, <1>5, <1>6, <1>7, <1>8, <1>9, <1>10, <1>11 DEF SslSocketNext

-----------------------------------------------------------------------------
(* Streams of records: taking the first one, adding some, moving some on.  *)
Stream == Seq(Record)

Associates(a, b, c) == (a \o b) \o c = a \o (b \o c)

LEMMA Assoc ==
  ASSUME NEW a \in Stream, NEW b \in Stream, NEW c \in Stream
  PROVE  Associates(a, b, c)
<1>1. (a \o b) \o c = a \o (b \o c)
  BY ConcatAssociative DEF Stream
<1> QED BY <1>1 DEF Associates

LEMMA Cancelled ==
  ASSUME NEW a \in Stream, NEW b \in Stream, NEW c \in Stream, a \o b = a \o c
  PROVE  b = c
BY ConcatSimplifications DEF Stream

LEMMA Joined ==
  ASSUME NEW a \in Stream, NEW b \in Stream
  PROVE  /\ a \o b \in Stream /\ Len(a \o b) = Len(a) + Len(b)
         /\ \A k \in 1 .. Len(a) : (a \o b)[k] = a[k]
         /\ \A k \in 1 .. Len(b) : (a \o b)[Len(a) + k] = b[k]
BY DEF Stream

LEMMA Empty ==
  /\ <<>> \in Stream /\ Len(<<>>) = 0
  /\ \A a \in Stream : a \o <<>> = a /\ <<>> \o a = a /\ (a = <<>> <=> Len(a) = 0) /\ Len(a) \in Nat
BY DEF Stream

LEMMA FirstOf ==
  ASSUME NEW b \in Stream, b # <<>>
  PROVE  /\ b = <<Head(b)>> \o Tail(b) /\ <<Head(b)>> \in Stream /\ Tail(b) \in Stream
         /\ Head(b) \in Record /\ Head(b) = b[1] /\ Len(b) >= 1
BY DEF Stream

LEMMA TakeOne ==
  ASSUME NEW C \in Stream, NEW b \in Stream, NEW r \in Stream, b # <<>>
  PROVE  C \o (b \o r) = (C \o <<Head(b)>>) \o (Tail(b) \o r)
<1> DEFINE h == <<Head(b)>>
           t == Tail(b)
<1>1. b = h \o t /\ h \in Stream /\ t \in Stream
  BY FirstOf
<1> HIDE DEF h, t
<1>2. (h \o t) \o r = h \o (t \o r) /\ t \o r \in Stream
  <2>1. Associates(h, t, r)
    BY <1>1, Assoc
  <2>2. t \o r \in Stream
    BY <1>1, Joined
  <2> QED BY <2>1, <2>2 DEF Associates
<1>3. Associates(C, h, t \o r)
  BY <1>1, <1>2, Assoc
<1>4. C \o (b \o r) = (C \o h) \o (t \o r)
  BY <1>1, <1>2, <1>3, Zenon DEF Associates
<1> QED BY <1>4 DEF h, t

Appended(C, b, n, w, x) == (C \o (b \o (n \o w))) \o x = C \o (b \o (n \o (w \o x)))

LEMMA GiveMore ==
  ASSUME NEW C \in Stream, NEW b \in Stream, NEW n \in Stream, NEW w \in Stream, NEW x \in Stream
  PROVE  Appended(C, b, n, w, x)
<1> DEFINE q == n \o w
           m == b \o q
<1>1. q \in Stream
  BY Joined
<1>5. Associates(n, w, x)
  BY Assoc
<1>7. q \o x = n \o (w \o x)
  BY <1>5 DEF Associates
<1> HIDE DEF q
<1>2. m \in Stream
  BY <1>1, Joined
<1>4. Associates(b, q, x)
  BY <1>1, Assoc
<1>8. m \o x = b \o (q \o x)
  BY <1>4 DEF Associates
<1> HIDE DEF m
<1>3. Associates(C, m, x)
  BY <1>2, Assoc
<1>6. (C \o m) \o x = C \o (b \o (n \o (w \o x)))
  BY <1>3, <1>7, <1>8, Zenon DEF Associates
<1> QED BY <1>6 DEF m, q, Appended

Moved(b, n, w, k) ==
  /\ SubSeq(n, 1, k) \in Stream /\ SubSeq(n, k + 1, Len(n)) \in Stream
  /\ (b \o SubSeq(n, 1, k)) \o (SubSeq(n, k + 1, Len(n)) \o w) = b \o (n \o w)
  /\ (b \o SubSeq(n, 1, k)) \o SubSeq(n, k + 1, Len(n)) = b \o n

LEMMA MoveOn ==
  ASSUME NEW b \in Stream, NEW n \in Stream, NEW w \in Stream, NEW k \in 1 .. Len(n)
  PROVE  Moved(b, n, w, k)
<1> DEFINE u == SubSeq(n, 1, k)
           v == SubSeq(n, k + 1, Len(n))
<1>1. u \in Stream /\ v \in Stream
  BY DEF Stream
<1>2. u \o v = n
  <2>1. u \o v = SubSeq(n, 1, Len(n))
    <3>1. /\ n \in Seq(Record) /\ 1 \in 1 .. Len(n) + 1 /\ k \in 1 - 1 .. Len(n)
          /\ Len(n) \in k .. Len(n)
      BY DEF Stream
    <3> QED BY <3>1, ConcatAdjacentSubSeq
  <2> QED BY <2>1, SubSeqFull DEF Stream
<1> HIDE DEF u, v
<1>3. Associates(b, u, v)
  BY <1>1, Assoc
<1>4. Associates(b, u, v \o w)
  <2>1. v \o w \in Stream
    BY <1>1, Joined
  <2> QED BY <1>1, <2>1, Assoc
<1>5. Associates(u, v, w)
  BY <1>1, Assoc
<1>6. /\ (b \o u) \o (v \o w) = b \o (n \o w) /\ (b \o u) \o v = b \o n
  BY <1>2, <1>3, <1>4, <1>5, Zenon DEF Associates
<1> QED BY <1>1, <1>6 DEF u, v, Moved

LEMMA PlainTexts ==
  ASSUME SslConstants
  PROVE  /\ Plain \cap Notices = {} /\ Plain \subseteq Record /\ Notices \subseteq Record
         /\ \A i \in 1 .. Len(Texts) : Texts[i] \in Plain
BY DEF SslConstants, Plain, Record

LEMMA PlainStreams ==
  ASSUME NEW t \in Seq(Plain)
  PROVE  t \in Stream
BY SeqMonotonic DEF Stream, Record

LEMMA NoticeStream ==
  ASSUME NEW b \in BOOLEAN
  PROVE  /\ Notice(b) \in Stream /\ Len(Notice(b)) \in {0, 1}
         /\ (b <=> Len(Notice(b)) = 1) /\ (Len(Notice(b)) = 1 => Notice(b)[1] = "close")
<1>1. CASE b
  BY <1>1 DEF Notice, Stream, Record, Notices
<1>2. CASE ~ b
  BY <1>2 DEF Notice, Stream
<1> QED BY <1>1, <1>2

(* What was taken and what is on its way, o, y and i, is what was given, t *)
(* and z: a text of the one is a text of the other.                        *)
NoticeOrNot(z) == z \in Stream /\ Len(z) \in {0, 1} /\ (Len(z) = 1 => z[1] = "close")

Fits(t, z, o, y, i) ==
  /\ Len(o) \in 0 .. Len(t) /\ o = SubSeq(t, 1, Len(o))
  /\ Len(y) = 1 => o = t /\ Len(z) = 1 /\ i = <<>>
  /\ Len(y) = 0 /\ i # <<>> /\ Head(i) # "close" => Head(i) \in Plain
  /\ Len(y) = 0 /\ i # <<>> /\ Head(i) = "close" => o = t

LEMMA Aligned ==
  ASSUME SslConstants, NEW t \in Seq(Plain), NEW o \in Seq(Plain), NEW i \in Stream,
         NEW z, NoticeOrNot(z), NEW y, NoticeOrNot(y), t \o z = (o \o y) \o i
  PROVE  Fits(t, z, o, y, i)
<1>23. /\ z \in Stream /\ Len(z) \in {0, 1} /\ (Len(z) = 1 => z[1] = "close")
       /\ y \in Stream /\ Len(y) \in {0, 1} /\ (Len(y) = 1 => y[1] = "close")
  BY DEF NoticeOrNot
<1>1. t \in Stream /\ o \in Stream
  BY PlainStreams
<1>2. /\ \A k \in 1 .. Len(t) : t[k] \in Plain /\ t[k] # "close"
      /\ \A k \in 1 .. Len(o) : o[k] \in Plain /\ o[k] # "close"
  BY PlainTexts DEF Notices
<1> DEFINE p == t \o z
           c == o \o y
           lt == Len(t)
           lo == Len(o)
           ly == Len(y)
           lz == Len(z)
           li == Len(i)
<1>3. c \in Stream
  BY <1>1, <1>23, Joined
<1>4. /\ Len(p) = lt + lz /\ Len(c) = lo + ly /\ Len(p) = Len(c) + li
      /\ lt \in Nat /\ lz \in Nat /\ lo \in Nat /\ ly \in Nat /\ li \in Nat
  BY <1>1, <1>3, <1>23, Joined, Empty
<1>5. /\ \A k \in 1 .. lt : p[k] = t[k]
      /\ \A k \in 1 .. lz : p[lt + k] = z[k]
      /\ \A k \in 1 .. lo : c[k] = o[k]
      /\ \A k \in 1 .. ly : c[lo + k] = y[k]
      /\ \A k \in 1 .. Len(c) : p[k] = c[k]
      /\ \A k \in 1 .. li : p[Len(c) + k] = i[k]
  <2>1. (\A k \in 1 .. lt : p[k] = t[k]) /\ \A k \in 1 .. lz : p[lt + k] = z[k]
    BY <1>1, <1>23, Joined
  <2>2. (\A k \in 1 .. lo : c[k] = o[k]) /\ \A k \in 1 .. ly : c[lo + k] = y[k]
    BY <1>1, <1>23, Joined
  <2>3. p = c \o i
    OBVIOUS
  <2> HIDE DEF p, c
  <2>4. (\A k \in 1 .. Len(c) : p[k] = c[k]) /\ \A k \in 1 .. li : p[Len(c) + k] = i[k]
    BY <1>3, <2>3, Joined
  <2> QED BY <2>1, <2>2, <2>4
<1>6. i # <<>> => Head(i) = i[1] /\ li >= 1
  BY FirstOf
<1>7. li = 0 => i = <<>>
  BY Empty
<1>8. Len(o) = Len(t) /\ (\A k \in 1 .. Len(o) : o[k] = t[k]) => o = t
  BY <1>1, SeqEqual DEF Stream
<1>9. lo <= lt /\ (\A k \in 1 .. lo : o[k] = t[k]) => o = SubSeq(t, 1, lo)
  BY <1>1 DEF Stream
<1> DEFINE lp == Len(p)
           lc == Len(c)
<1>10. \A k \in 1 .. lo : p[k] = o[k]
  <2> HIDE DEF p, c, lt, lo, ly, lz, li
  <2> QED BY <1>4, <1>5
<1>11. \A k \in 1 .. ly : p[lo + k] = y[k]
  <2> HIDE DEF p, c, lt, lo, ly, lz, li
  <2>1. \A k \in 1 .. ly : lo + k \in 1 .. Len(c)
    BY <1>4
  <2> QED BY <1>5, <2>1
<1>12. \A k \in 1 .. li : p[lo + ly + k] = i[k]
  <2> HIDE DEF p, c, lt, lo, ly, lz, li
  <2> QED BY <1>4, <1>5
<1>13. lz \in {0, 1} /\ (lz = 1 => z[1] = "close") /\ ly \in {0, 1} /\ (ly = 1 => y[1] = "close")
  BY <1>23
<1>14. lt + lz = lo + ly + li
  BY <1>4
<1>15. /\ \A k \in 1 .. lt : p[k] \in Plain /\ p[k] # "close"
       /\ \A k \in 1 .. lo : p[k] \in Plain /\ p[k] # "close"
       /\ lz = 1 => p[lt + 1] = "close"
       /\ ly = 1 => p[lo + 1] = "close"
       /\ i # <<>> => p[lo + ly + 1] = Head(i) /\ li >= 1
  <2>1. (lz = 1 => 1 \in 1 .. lz) /\ (ly = 1 => 1 \in 1 .. ly) /\ (li >= 1 => 1 \in 1 .. li)
    BY <1>4, SMTT(30)
  <2> HIDE DEF p, c, lt, lo, ly, lz, li
  <2>2. \A k \in 1 .. lt : t[k] \in Plain /\ t[k] # "close"
    BY <1>2 DEF lt
  <2>3. \A k \in 1 .. lo : o[k] \in Plain /\ o[k] # "close"
    BY <1>2 DEF lo
  <2> QED BY <1>5, <1>6, <1>10, <1>11, <1>12, <1>13, <2>1, <2>2, <2>3
<1> HIDE DEF p, c, lt, lo, ly, lz, li
<1>16. lo <= lt
  <2> SUFFICES ASSUME ~ (lo <= lt) PROVE FALSE
    OBVIOUS
  <2>1. lz = 1 /\ lt + 1 \in 1 .. lo
    BY <1>4, <1>13, <1>14
  <2> QED BY <1>15, <2>1
<1>17. \A k \in 1 .. lo : o[k] = t[k]
  BY <1>4, <1>5, <1>10, <1>16
<1>18. ly = 1 => lo = lt /\ lz = 1 /\ li = 0
  <2> SUFFICES ASSUME ly = 1 PROVE lo = lt /\ lz = 1 /\ li = 0
    OBVIOUS
  <2>1. ~ (lo + 1 \in 1 .. lt)
    BY <1>15
  <2> QED BY <1>4, <1>13, <1>14, <1>16, <2>1
<1>19. lo = lt => o = t
  BY <1>8, <1>17 DEF lo, lt
<1>20. o = SubSeq(t, 1, lo)
  BY <1>9, <1>16, <1>17
<1>21. ASSUME ly = 0, i # <<>>
       PROVE  (Head(i) # "close" => Head(i) \in Plain) /\ (Head(i) = "close" => o = t)
  <2>1. p[lo + 1] = Head(i) /\ li >= 1
    BY <1>4, <1>15, <1>21
  <2>2. CASE lo + 1 <= lt
    <3>1. lo + 1 \in 1 .. lt
      BY <1>4, <2>2
    <3> QED BY <1>15, <2>1, <3>1
  <2>3. CASE ~ (lo + 1 <= lt)
    <3>1. lo = lt /\ lz = 1
      BY <1>4, <1>13, <1>14, <1>16, <1>21, <2>1, <2>3
    <3> QED BY <1>15, <1>19, <2>1, <3>1
  <2> QED BY <2>2, <2>3
<1>22. lo \in 0 .. lt
  BY <1>4, <1>16
<1> QED BY <1>7, <1>18, <1>19, <1>20, <1>21, <1>22 DEF Fits, lo, lt, ly, lz, li

-----------------------------------------------------------------------------
(* Both ends.                                                              *)

ConnectionInv == SslTypes /\ EndInv /\ ServerInv /\ StreamInv

LEMMA Peers ==
  ASSUME NEW e \in Ends
  PROVE  Peer(e) \in Ends /\ Peer(Peer(e)) = e /\ Peer(e) # e /\ \A f \in Ends : f = e \/ f = Peer(e)
BY DEF Ends, Peer

(* The types of the pieces of a stream.                                    *)
LEMMA Pieces ==
  ASSUME SslTypes, NEW e \in Ends
  PROVE  /\ bioread[e] \in Stream /\ biowrite[e] \in Stream /\ net[e] \in Stream
         /\ text[e].in \in Seq(Plain) /\ text[e].out \in Seq(Plain)
         /\ text[e].in \in Stream /\ text[e].out \in Stream
         /\ ssl[e].step \in 0 .. 3 /\ ssl[e].sent \in BOOLEAN /\ ssl[e].received \in BOOLEAN
         /\ Notice(ssl[e].sent) \in Stream /\ Notice(ssl[e].received) \in Stream
         /\ text[e].in \o Notice(ssl[e].sent) \in Stream
         /\ text[e].out \o Notice(ssl[e].received) \in Stream
<1>1. /\ bioread[e] \in Stream /\ biowrite[e] \in Stream /\ net[e] \in Stream
  BY DEF SslTypes, Stream
<1>2. text[e].in \in Seq(Plain) /\ text[e].out \in Seq(Plain)
  BY DEF SslTypes
<1>3. text[e].in \in Stream /\ text[e].out \in Stream
  BY <1>2, PlainStreams
<1>4. ssl[e].step \in 0 .. 3 /\ ssl[e].sent \in BOOLEAN /\ ssl[e].received \in BOOLEAN
  <2>1. ssl[e] \in [step : 0 .. 3, sent : BOOLEAN, received : BOOLEAN, live : BOOLEAN, failed : BOOLEAN]
    BY DEF SslTypes, SslObject
  <2> QED BY <2>1
<1>5. Notice(ssl[e].sent) \in Stream /\ Notice(ssl[e].received) \in Stream
  BY <1>4, NoticeStream
<1>6. /\ text[e].in \o Notice(ssl[e].sent) \in Stream
      /\ text[e].out \o Notice(ssl[e].received) \in Stream
  BY <1>3, <1>5, Joined
<1> QED BY <1>1, <1>2, <1>3, <1>4, <1>5, <1>6

LEMMA Greetings ==
  ASSUME NEW e \in Ends, NEW n \in 0 .. 3
  PROVE  /\ Greeting(e, n) \in Stream /\ Heard(e, n) \in Stream
         /\ n = 0 => Greeting(e, n) = <<>>
         /\ e = "client" /\ n = 2 => Len(Heard(e, n)) = 1 /\ Heard(e, n) = <<"reply">>
         /\ e = "server" /\ n # 0 => Greeting(e, n) = <<"reply">>
         /\ e = "server" /\ n = 2 => Len(Heard(e, n)) = 2 /\ Heard(e, n) = <<"hello", "finish">>
         /\ e = "client" /\ n = 1 => Len(Greeting(e, n)) = 1
         /\ e = "client" /\ n \notin {0, 1} => Greeting(e, n) = <<"hello", "finish">>
<1>1. /\ <<>> \in Stream /\ <<"hello">> \in Stream /\ <<"reply">> \in Stream
      /\ <<"hello", "finish">> \in Stream
  BY DEF Stream, Record, Notices
<1>2. Len(<<"hello">>) = 1 /\ Len(<<"reply">>) = 1 /\ Len(<<"hello", "finish">>) = 2
  OBVIOUS
<1>3. (e = "client" \/ e = "server") /\ (n = 0 \/ n = 1 \/ n = 2 \/ n = 3)
  BY DEF Ends
<1>4. CASE n = 0
  BY <1>1, <1>3, <1>4 DEF Greeting, Heard
<1>5. CASE n # 0 /\ e = "server"
  BY <1>1, <1>2, <1>3, <1>5 DEF Greeting, Heard
<1>6. CASE n # 0 /\ e = "client"
  <2>1. Heard(e, n) = (IF n = 1 THEN <<>> ELSE <<"reply">>)
    BY <1>6 DEF Heard
  <2>2. Greeting(e, n) = (IF n = 1 THEN <<"hello">> ELSE <<"hello", "finish">>)
    BY <1>6 DEF Greeting
  <2> QED BY <1>1, <1>2, <1>3, <1>6, <2>1, <2>2
<1> QED BY <1>3, <1>4, <1>5, <1>6

(* An end that has finished its handshake has heard all of the peer's, so  *)
(* what remains are texts and the notification.                            *)
LEMMA EndAligned ==
  ASSUME SslConstants, ConnectionInv, NEW e \in Ends, ssl[e].step = 2
  PROVE  /\ text[Peer(e)].in \o Notice(ssl[Peer(e)].sent)
              = (text[e].out \o Notice(ssl[e].received)) \o Pending(e)
         /\ Pending(e) \in Stream
<1> DEFINE p == Peer(e)
           t == text[p].in \o Notice(ssl[p].sent)
           o == text[e].out \o Notice(ssl[e].received)
           i == Pending(e)
           g == Greeting(p, ssl[p].step)
           h == Heard(e, ssl[e].step)
<1>1. p \in Ends /\ e \in Ends /\ (p = "client" <=> e = "server")
  BY DEF Ends, Peer
<1>2. t \in Stream /\ o \in Stream /\ g \in Stream /\ h \in Stream
  BY <1>1, Pieces, Greetings DEF ConnectionInv
<1>3. i \in Stream
  <2>1. net[e] \in Stream /\ bioread[e] \in Stream /\ biowrite[p] \in Stream
    BY <1>1, Pieces DEF ConnectionInv
  <2>2. net[e] \o biowrite[p] \in Stream
    BY <2>1, Joined
  <2> QED BY <2>1, <2>2, Joined DEF Pending
<1>4. g \o t = (h \o o) \o i
  BY DEF ConnectionInv, StreamInv, Given, Taken
<1>5. ssl[p].step # 2 => t = <<>>
  <2> SUFFICES ASSUME ssl[p].step # 2 PROVE t = <<>>
    OBVIOUS
  <2>1. text[p].in = <<>> /\ ~ ssl[p].sent
    BY <1>1 DEF ConnectionInv, EndInv, EndOf
  <2> QED BY <2>1 DEF Notice
<1>6. ssl[p].step \in 0 .. 3 /\ ssl[e].step \in 0 .. 3
  BY <1>1, Pieces DEF ConnectionInv
<1>7. /\ ssl[p].step = 0 => g = <<>>
      /\ e = "client" => Len(h) = 1 /\ h = <<"reply">> /\ (ssl[p].step # 0 => g = <<"reply">>)
      /\ e = "server" => /\ Len(h) = 2 /\ h = <<"hello", "finish">>
                         /\ ssl[p].step = 1 => Len(g) = 1
                         /\ ssl[p].step \notin {0, 1} => g = <<"hello", "finish">>
  <2> DEFINE n == ssl[p].step
             m == ssl[e].step
  <2>1. n \in 0 .. 3 /\ m = 2 /\ m \in 0 .. 3 /\ g = Greeting(p, n) /\ h = Heard(e, m)
    BY <1>6
  <2> HIDE DEF n, m, g, h, p
  <2>2. /\ n = 0 => g = <<>>
        /\ p = "server" /\ n # 0 => g = <<"reply">>
        /\ p = "client" /\ n = 1 => Len(g) = 1
        /\ p = "client" /\ n \notin {0, 1} => g = <<"hello", "finish">>
    BY <1>1, <2>1, Greetings
  <2>3. /\ e = "client" => Len(h) = 1 /\ h = <<"reply">>
        /\ e = "server" => Len(h) = 2 /\ h = <<"hello", "finish">>
    BY <1>1, <2>1, Greetings
  <2>4. (e = "client" => p = "server") /\ (e = "server" => p = "client")
    BY <1>1 DEF Ends
  <2> QED BY <2>2, <2>3, <2>4 DEF n
<1>8. e = "client" \/ e = "server"
  BY DEF Ends
<1>9. h \o o \in Stream
  BY <1>2, Joined
<1> HIDE DEF t, o, i, g, h
<1>10. Len(g) + Len(t) >= Len(h) /\ Len(g) \in Nat /\ Len(t) \in Nat /\ Len(h) \in Nat
  <2>1. /\ Len(g \o t) = Len(g) + Len(t) /\ Len((h \o o) \o i) = Len(h \o o) + Len(i)
        /\ Len(h \o o) = Len(h) + Len(o)
    BY <1>2, <1>3, <1>9, Joined
  <2>2. Len(g) \in Nat /\ Len(t) \in Nat /\ Len(h) \in Nat /\ Len(o) \in Nat /\ Len(i) \in Nat
    BY <1>2, <1>3, Empty
  <2> QED BY <1>4, <2>1, <2>2
<1>11. Len(<<>>) = 0
  OBVIOUS
<1>12. g = h
  <2> DEFINE n == ssl[p].step
  <2>1. n \in 0 .. 3 /\ (n # 2 => Len(t) = 0)
    BY <1>5, <1>6, <1>11
  <2>2. n = 0 => Len(g) = 0
    BY <1>7, <1>11
  <2>3. CASE e = "client"
    <3>1. n # 0
      BY <1>7, <1>10, <2>1, <2>2, <2>3
    <3> QED BY <1>7, <2>3, <3>1
  <2>4. CASE e = "server"
    <3>1. Len(h) = 2 /\ h = <<"hello", "finish">> /\ (n = 1 => Len(g) = 1)
      BY <1>7, <2>4
    <3> HIDE DEF n
    <3>4. Len(h) = 2 /\ (n = 1 => Len(g) = 1)
      BY <3>1
    <3>5. n # 2 => Len(g) + 0 >= 2
      BY <1>10, <2>1, <3>4
    <3>6. n # 0 /\ n # 1
      <4>1. ASSUME n = 0 PROVE FALSE
        <5>1. Len(g) = 0 /\ Len(g) + 0 >= 2
          BY <2>2, <3>5, <4>1
        <5> QED BY <5>1
      <4>2. ASSUME n = 1 PROVE FALSE
        <5>1. Len(g) = 1 /\ Len(g) + 0 >= 2
          BY <3>4, <3>5, <4>2
        <5> QED BY <5>1
      <4> QED BY <4>1, <4>2
    <3>3. g = <<"hello", "finish">>
      BY <1>7, <2>4, <3>6 DEF n
    <3> QED BY <3>1, <3>3
  <2> QED BY <1>8, <2>3, <2>4
<1>13. Associates(h, o, i)
  BY <1>2, <1>3, Assoc
<1>14. o \o i \in Stream
  BY <1>2, <1>3, Joined
<1>15. t = o \o i
  BY <1>2, <1>4, <1>12, <1>13, <1>14, Cancelled DEF Associates
<1> QED BY <1>3, <1>15 DEF t, o, i

LEMMA EndSound ==
  ASSUME SslConstants, ConnectionInv, NEW e \in Ends, ssl[e].step = 2
  PROVE  LET t == text[Peer(e)].in
             o == text[e].out
         IN /\ Len(o) \in 0 .. Len(t) /\ o = SubSeq(t, 1, Len(o))
            /\ ssl[e].received => o = t /\ ssl[Peer(e)].sent /\ Pending(e) = <<>>
            /\ ~ ssl[e].received /\ Pending(e) # <<>> =>
                 /\ Head(Pending(e)) # "close" => Head(Pending(e)) \in Plain
                 /\ Head(Pending(e)) = "close" => o = t
<1> DEFINE p == Peer(e)
           z == Notice(ssl[p].sent)
           y == Notice(ssl[e].received)
           i == Pending(e)
<1>1. p \in Ends
  BY Peers
<1>2. text[p].in \in Seq(Plain) /\ text[e].out \in Seq(Plain) /\ i \in Stream
  BY <1>1, Pieces, EndAligned DEF ConnectionInv
<1>3. text[p].in \o z = (text[e].out \o y) \o i
  BY EndAligned
<1>4. NoticeOrNot(z) /\ Len(z) \in {0, 1} /\ (ssl[p].sent <=> Len(z) = 1)
  BY <1>1, Pieces, NoticeStream DEF ConnectionInv, NoticeOrNot
<1>5. NoticeOrNot(y) /\ Len(y) \in {0, 1} /\ (ssl[e].received <=> Len(y) = 1)
  BY Pieces, NoticeStream DEF ConnectionInv, NoticeOrNot
<1> HIDE DEF p, z, y, i
<1> DEFINE t == text[p].in
           o == text[e].out
<1>6. t \in Seq(Plain) /\ o \in Seq(Plain) /\ t \o z = (o \o y) \o i
  BY <1>2, <1>3
<1> HIDE DEF t, o
<1>7. Fits(t, z, o, y, i)
  BY <1>2, <1>4, <1>5, <1>6, Aligned
<1>8. ssl[e].received \/ Len(y) = 0
  BY <1>5
<1> QED BY <1>4, <1>5, <1>7, <1>8 DEF Fits, p, i, t, o

LEMMA LoadedOnce ==
  ASSUME ConnectionInv
  PROVE  Cardinality({s \in Sessions : session[s] = "loaded"}) <= 1
<1> DEFINE T == {s \in Sessions : session[s] = "loaded"}
<1>1. T \subseteq {con["server"].next}
  BY DEF ConnectionInv, ServerInv, SessionsInv
<1>2. IsFiniteSet({con["server"].next}) /\ Cardinality({con["server"].next}) = 1
  BY FS_Singleton
<1> HIDE DEF T
<1>3. Cardinality(T) <= 1
  BY <1>1, <1>2, FS_Subset
<1> QED BY <1>3 DEF T

LEMMA ConnectionIsExact ==
  ASSUME SslConstants, ConnectionInv
  PROVE  ConnectionExact
<1> SUFFICES ASSUME NEW e \in Ends
             PROVE  /\ \E n \in 0 .. Len(text[Peer(e)].in) : text[e].out = SubSeq(text[Peer(e)].in, 1, n)
                    /\ text[e].out # <<>> => ssl[e].step = 2 /\ ssl[Peer(e)].step = 2
                    /\ con[e].received => con[Peer(e)].sent /\ text[e].out = text[Peer(e)].in
                    /\ con[e].sent => ssl[e].sent
                    /\ con[e].err # "none" <=> ssl[e].failed
  BY LoadedOnce DEF ConnectionExact, ConnectionInv, ServerInv, CertInv, SessionsInv
<1>1. Peer(e) \in Ends
  BY Peers
<1>2. /\ (con[e].sent <=> ssl[e].sent) /\ (con[e].received <=> ssl[e].received)
      /\ (con[e].err # "none" <=> ssl[e].failed) /\ (con[Peer(e)].sent <=> ssl[Peer(e)].sent)
      /\ ssl[e].step # 2 => text[e].out = <<>> /\ ~ ssl[e].received
      /\ ssl[Peer(e)].step # 2 => text[Peer(e)].in = <<>>
  BY <1>1 DEF ConnectionInv, EndInv, EndOf
<1>3. text[Peer(e)].in \in Seq(Plain) /\ text[e].out \in Seq(Plain)
  BY <1>1, Pieces DEF ConnectionInv
<1>4. CASE ssl[e].step = 2
  <2> DEFINE t == text[Peer(e)].in
             o == text[e].out
  <2>1. /\ Len(o) \in 0 .. Len(t) /\ o = SubSeq(t, 1, Len(o))
        /\ ssl[e].received => o = t /\ ssl[Peer(e)].sent
    BY <1>4, EndSound
  <2>2. o # <<>> => t # <<>>
    BY <1>3, <2>1
  <2>3. \E n \in 0 .. Len(t) : o = SubSeq(t, 1, n)
    BY <2>1
  <2> QED BY <1>2, <1>4, <2>1, <2>2, <2>3
<1>5. CASE ssl[e].step # 2
  <2>1. text[e].out = SubSeq(text[Peer(e)].in, 1, 0) /\ 0 \in 0 .. Len(text[Peer(e)].in)
    BY <1>2, <1>3, <1>5
  <2> QED BY <1>2, <1>5, <2>1
<1> QED BY <1>4, <1>5

-----------------------------------------------------------------------------
(* The steps of end e.                                                     *)
LEMMA PendingStream ==
  ASSUME SslTypes, NEW e \in Ends
  PROVE  Pending(e) \in Stream
<1>1. net[e] \in Stream /\ bioread[e] \in Stream /\ biowrite[Peer(e)] \in Stream
  BY Peers, Pieces
<1>2. net[e] \o biowrite[Peer(e)] \in Stream
  BY <1>1, Joined
<1> QED BY <1>1, <1>2, Joined DEF Pending

LEMMA GivenStreams ==
  ASSUME SslTypes, NEW e \in Ends
  PROVE  Given(e) \in Stream /\ Taken(e) \in Stream
<1>1. /\ text[e].in \o Notice(ssl[e].sent) \in Stream /\ text[e].out \o Notice(ssl[e].received) \in Stream
      /\ ssl[e].step \in 0 .. 3
  BY Pieces
<1>2. Greeting(e, ssl[e].step) \in Stream /\ Heard(e, ssl[e].step) \in Stream
  BY <1>1, Greetings
<1> QED BY <1>1, <1>2, Joined DEF Given, Taken

LEMMA EndStep ==
  ASSUME ConnectionInv, NEW e \in Ends,
         SslTypes', EndOf(e)', ServerInv',
         ssl'[Peer(e)] = ssl[Peer(e)], con'[Peer(e)] = con[Peer(e)], text'[Peer(e)] = text[Peer(e)],
         Given(Peer(e)) = Taken(e)' \o Pending(e)', Given(e)' = Taken(Peer(e)) \o Pending(Peer(e))'
  PROVE  ConnectionInv'
<1> DEFINE p == Peer(e)
<1>1. p \in Ends /\ Peer(p) = e /\ \A f \in Ends : f = e \/ f = p
  BY Peers
<1>2. EndOf(p)'
  BY <1>1 DEF ConnectionInv, EndInv, EndOf
<1>3. EndInv'
  BY <1>1, <1>2 DEF EndInv
<1>4. Given(p)' = Given(p) /\ Taken(p)' = Taken(p)
  BY DEF Given, Taken
<1>5. Given(Peer(e))' = Taken(e)' \o Pending(e)'
  BY <1>4
<1>6. Given(Peer(p))' = Taken(p)' \o Pending(p)'
  BY <1>1, <1>4
<1>7. StreamInv'
  BY <1>1, <1>5, <1>6 DEF StreamInv
<1> QED BY <1>3, <1>7 DEF ConnectionInv

(* What the fields of a connection become.                                 *)
ErrSet(d, c, x, n) ==
  /\ d \in Con /\ d.err = x /\ d.next = n /\ d.cert = c.cert
  /\ d.sent = c.sent /\ d.received = c.received /\ d.request = c.request /\ d.reject = c.reject

LEMMA ErrFields ==
  ASSUME NEW c \in Con, NEW x \in {"none", "ssl"}, NEW n \in Sessions \cup {"none"}
  PROVE  ErrSet([c EXCEPT !.err = x, !.next = n], c, x, n)
<1> DEFINE d == [c EXCEPT !.err = x, !.next = n]
<1>1. d \in Con
  BY DEF Con
<1>2. d.err = x /\ d.next = n /\ d.cert = c.cert
  BY DEF Con
<1>3. d.sent = c.sent /\ d.received = c.received
  BY DEF Con
<1>4. d.request = c.request /\ d.reject = c.reject
  BY DEF Con
<1> QED BY <1>1, <1>2, <1>3, <1>4 DEF ErrSet

FlagsSet(d, c, s) ==
  /\ d \in Con /\ d.err = c.err /\ d.next = c.next /\ d.cert = c.cert
  /\ (d.sent <=> c.sent \/ s.sent) /\ (d.received <=> c.received \/ s.received)
  /\ d.request = c.request /\ d.reject = c.reject

LEMMA FlagFields ==
  ASSUME NEW c \in Con, NEW s \in SslObject
  PROVE  FlagsSet(SetShutdownFlags(c, s), c, s)
<1> DEFINE a == c.sent \/ s.sent
           b == c.received \/ s.received
           d == [c EXCEPT !.sent = a, !.received = b]
<1>1. d = SetShutdownFlags(c, s)
  BY DEF SetShutdownFlags
<1>2. a \in BOOLEAN /\ b \in BOOLEAN
  BY DEF Con, SslObject
<1>3. (a <=> c.sent \/ s.sent) /\ (b <=> c.received \/ s.received)
  OBVIOUS
<1> HIDE DEF a, b
<1>4. d \in Con
  BY <1>2 DEF Con
<1>5. d.err = c.err /\ d.next = c.next /\ d.cert = c.cert
  BY DEF Con
<1>6. d.sent = a /\ d.received = b
  BY DEF Con
<1>7. d.request = c.request /\ d.reject = c.reject
  BY DEF Con
<1> HIDE DEF d
<1> QED BY <1>1, <1>3, <1>4, <1>5, <1>6, <1>7 DEF FlagsSet

(* The records of the handshake, step by step.                             *)
LEMMA HandshakeRecords ==
  ASSUME NEW e \in Ends, ssl[e].step \in 0 .. 1
  PROVE  LET n == ssl[e].step
             m == IF Rejected(e) THEN 3 ELSE n + 1
             a == IF Awaits(e) = "nothing" THEN <<>> ELSE <<Awaits(e)>>
         IN /\ Greeting(e, m) = Greeting(e, n) \o Sends(e) /\ Sends(e) \in Stream
            /\ Heard(e, m) = Heard(e, n) \o a /\ m \in 0 .. 3
<1> DEFINE n == ssl[e].step
           m == IF Rejected(e) THEN 3 ELSE n + 1
           a == IF Awaits(e) = "nothing" THEN <<>> ELSE <<Awaits(e)>>
<1> SUFFICES /\ Greeting(e, m) = Greeting(e, n) \o Sends(e) /\ Sends(e) \in Stream
             /\ Heard(e, m) = Heard(e, n) \o a /\ m \in 0 .. 3
  OBVIOUS
<1>1. (e = "client" \/ e = "server") /\ (n = 0 \/ n = 1)
  BY DEF Ends
<1>2. /\ <<>> \o <<>> = <<>> /\ <<>> \o <<"hello">> = <<"hello">> /\ <<>> \o <<"reply">> = <<"reply">>
      /\ <<"hello">> \o <<"finish">> = <<"hello", "finish">> /\ <<"reply">> \o <<>> = <<"reply">>
  <2>1. /\ <<"hello">> \in Stream /\ <<"finish">> \in Stream /\ <<"hello", "finish">> \in Stream
        /\ <<"reply">> \in Stream /\ <<>> \in Stream
    BY DEF Stream, Record, Notices
  <2>2. <<"hello">> \o <<"finish">> = <<"hello", "finish">>
    <3> DEFINE u == <<"hello">> \o <<"finish">>
               v == <<"hello", "finish">>
    <3>1. u \in Seq(Record) /\ Len(u) = 1 + 1 /\ u[1] = "hello" /\ u[1 + 1] = "finish"
      <4>1. Len(<<"hello">>) = 1 /\ Len(<<"finish">>) = 1 /\ <<"hello">>[1] = "hello" /\ <<"finish">>[1] = "finish"
        OBVIOUS
      <4> QED BY <2>1, <4>1, Joined DEF Stream
    <3>2. v \in Seq(Record) /\ Len(v) = 2 /\ v[1] = "hello" /\ v[2] = "finish"
      BY <2>1 DEF Stream
    <3> HIDE DEF u, v
    <3>3. \A i \in 1 .. Len(u) : u[i] = v[i]
      BY <3>1, <3>2
    <3>4. u = v
      BY <3>1, <3>2, <3>3, SeqEqual
    <3> QED BY <3>4 DEF u, v
  <2> QED BY <2>1, <2>2, Empty
<1>3. <<>> \in Stream /\ <<"hello">> \in Stream /\ <<"reply">> \in Stream /\ <<"finish">> \in Stream
  BY DEF Stream, Record, Notices
<1>8. m \in 0 .. 3
  BY <1>1
<1>4. CASE e = "client" /\ n = 0
  <2>1. m = 1 /\ a = <<>> /\ Sends(e) = <<"hello">>
    BY <1>4 DEF Rejected, Awaits, Sends
  <2>2. /\ Greeting(e, 0) = <<>> /\ Greeting(e, 1) = <<"hello">> /\ Heard(e, 0) = <<>> /\ Heard(e, 1) = <<>>
    BY <1>4 DEF Greeting, Heard
  <2> HIDE DEF n, m, a
  <2> QED BY <1>2, <1>3, <1>4, <1>8, <2>1, <2>2, Zenon
<1>5. CASE e = "client" /\ n = 1
  <2>1. m = 2 /\ a = <<"reply">> /\ Sends(e) = <<"finish">>
    BY <1>5 DEF Rejected, Awaits, Sends
  <2>2. /\ Greeting(e, 1) = <<"hello">> /\ Greeting(e, 2) = <<"hello", "finish">>
        /\ Heard(e, 1) = <<>> /\ Heard(e, 2) = <<"reply">>
    BY <1>5 DEF Greeting, Heard
  <2> HIDE DEF n, m, a
  <2> QED BY <1>2, <1>3, <1>5, <1>8, <2>1, <2>2, Zenon
<1>6. CASE e = "server" /\ n = 0
  <2>1. m = 1 /\ a = <<"hello">> /\ Sends(e) = <<"reply">>
    BY <1>6 DEF Rejected, Awaits, Sends
  <2>2. /\ Greeting(e, 0) = <<>> /\ Greeting(e, 1) = <<"reply">>
        /\ Heard(e, 0) = <<>> /\ Heard(e, 1) = <<"hello">>
    BY <1>6 DEF Greeting, Heard
  <2> HIDE DEF n, m, a
  <2> QED BY <1>2, <1>3, <1>6, <1>8, <2>1, <2>2, Zenon
<1>7. CASE e = "server" /\ n = 1
  <2>1. (m = 2 \/ m = 3) /\ a = <<"finish">> /\ Sends(e) = <<>>
    BY <1>7 DEF Awaits, Sends
  <2>2. /\ Greeting(e, 1) = <<"reply">> /\ Greeting(e, 2) = <<"reply">> /\ Greeting(e, 3) = <<"reply">>
        /\ Heard(e, 1) = <<"hello">> /\ Heard(e, 2) = <<"hello", "finish">>
        /\ Heard(e, 3) = <<"hello", "finish">>
    BY <1>7 DEF Greeting, Heard
  <2> HIDE DEF n, m, a
  <2> QED BY <1>2, <1>3, <1>7, <1>8, <2>1, <2>2, Zenon
<1> QED BY <1>1, <1>4, <1>5, <1>6, <1>7

LEMMA SessionTaken ==
  ASSUME SslConstants, ConnectionInv, NEW e \in Ends, NEW next \in {"ssl", "want_read"},
         GetSession(e, next)
  PROVE  /\ con' \in [Ends -> Con] /\ con'[Peer(e)] = con[Peer(e)]
         /\ con'[e].err = (IF next = "ssl" THEN "ssl" ELSE con[e].err)
         /\ con'[e].sent = con[e].sent /\ con'[e].received = con[e].received
         /\ con'[e].request = con[e].request /\ con'[e].reject = con[e].reject
         /\ con'[e].cert = con[e].cert
         /\ session' \in [Sessions -> {"free", "loaded", "given", "freed"}] /\ SessionsInv'
<1> DEFINE x == HandleSslError(e, next)
           taken == e = "server" /\ ssl[e].step = 0 /\ CanStep(e)
           n == IF taken THEN "none" ELSE con[e].next
<1>1. con \in [Ends -> Con] /\ session \in [Sessions -> {"free", "loaded", "given", "freed"}]
  BY DEF ConnectionInv, SslTypes
<1>2. con[e] \in Con /\ con[e].err \in {"none", "ssl"} /\ con[e].next \in Sessions \cup {"none"}
  <2>1. con[e] \in Con
    BY <1>1
  <2> QED BY <2>1 DEF Con
<1>3. x = (IF next = "ssl" THEN "ssl" ELSE con[e].err) /\ x \in {"none", "ssl"}
  BY <1>2 DEF HandleSslError
<1>4. n \in Sessions \cup {"none"}
  BY <1>2
<1>5. con' = [con EXCEPT ![e].err = x, ![e].next = IF taken THEN "none" ELSE @]
  BY DEF GetSession
<1>6. session' = (IF taken /\ con[e].next # "none" THEN [session EXCEPT ![con[e].next] = "given"] ELSE session)
  BY DEF GetSession
<1>7. con' = [con EXCEPT ![e] = [con[e] EXCEPT !.err = x, !.next = n]]
  <2> HIDE DEF x
  <2>1. CASE taken
    <3> HIDE DEF taken
    <3>1. con' = [con EXCEPT ![e].err = x, ![e].next = "none"] /\ n = "none"
      BY <1>5, <2>1
    <3> HIDE DEF n
    <3> QED BY <1>1, <3>1
  <2>2. CASE ~ taken
    <3> HIDE DEF taken
    <3>1. con' = [con EXCEPT ![e].err = x, ![e].next = @] /\ n = con[e].next
      BY <1>5, <2>2
    <3>2. con[e].next = [con[e] EXCEPT !.err = x].next
      BY <1>2 DEF Con
    <3> HIDE DEF n
    <3> QED BY <1>1, <1>2, <3>1, <3>2 DEF Con
  <2> QED BY <2>1, <2>2
<1> DEFINE d == [con[e] EXCEPT !.err = x, !.next = n]
<1>15. ErrSet(d, con[e], x, n)
  <2> HIDE DEF x, n
  <2> QED BY <1>2, <1>3, <1>4, ErrFields
<1>8. /\ d \in Con /\ d.err = x /\ d.next = n /\ d.cert = con[e].cert
      /\ d.sent = con[e].sent /\ d.received = con[e].received
      /\ d.request = con[e].request /\ d.reject = con[e].reject
  <2> HIDE DEF x, n, d
  <2> QED BY <1>15 DEF ErrSet
<1>9. con' = [con EXCEPT ![e] = d]
  BY <1>7
<1> HIDE DEF d
<1>10. con' \in [Ends -> Con] /\ con'[e] = d /\ con'[Peer(e)] = con[Peer(e)] /\ Peer(e) \in Ends
  BY <1>1, <1>8, <1>9, Peers
<1>11. session' \in [Sessions -> {"free", "loaded", "given", "freed"}]
  BY <1>1, <1>2, <1>6
<1>12. /\ con["server"].next # "none" => session[con["server"].next] = "loaded"
       /\ \A s \in Sessions : session[s] = "loaded" => s = con["server"].next
       /\ "none" \notin Sessions
  BY DEF ConnectionInv, ServerInv, SessionsInv, SslConstants
<1>13. con'["server"].next = IF taken THEN "none" ELSE con["server"].next
  <2>1. CASE e = "server"
    BY <1>8, <1>10, <2>1
  <2>2. CASE e # "server"
    <3>1. Peer(e) = "server" /\ ~ taken
      BY <2>2 DEF Peer, Ends
    <3> QED BY <1>10, <3>1
  <2> QED BY <2>1, <2>2
<1>14. SessionsInv'
  <2>1. CASE taken
    <3>1. e = "server" /\ con'["server"].next = "none"
      BY <1>13, <2>1
    <3>2. \A s \in Sessions : session'[s] # "loaded"
      BY <1>1, <1>2, <1>6, <1>12, <2>1, <3>1
    <3> QED BY <3>1, <3>2 DEF SessionsInv
  <2>2. CASE ~ taken
    <3>1. session' = session /\ con'["server"].next = con["server"].next
      BY <1>6, <1>13, <2>2
    <3> QED BY <1>12, <3>1 DEF SessionsInv
  <2> QED BY <2>1, <2>2
<1> QED BY <1>3, <1>8, <1>10, <1>11, <1>14

(* What an end that has not finished has sent and taken.                   *)
LEMMA EarlyStreams ==
  ASSUME SslTypes, EndInv, NEW e \in Ends, ssl[e].step # 2
  PROVE  Given(e) = Greeting(e, ssl[e].step) /\ Taken(e) = Heard(e, ssl[e].step)
<1>1. text[e].in = <<>> /\ text[e].out = <<>> /\ ~ ssl[e].sent /\ ~ ssl[e].received
  BY DEF EndInv, EndOf
<1>2. Notice(ssl[e].sent) = <<>> /\ Notice(ssl[e].received) = <<>>
  BY <1>1 DEF Notice
<1>3. <<>> \o <<>> = <<>>
  BY Empty
<1>4. Greeting(e, ssl[e].step) \in Stream /\ Heard(e, ssl[e].step) \in Stream
  BY Pieces, Greetings
<1>5. /\ Greeting(e, ssl[e].step) \o <<>> = Greeting(e, ssl[e].step)
      /\ Heard(e, ssl[e].step) \o <<>> = Heard(e, ssl[e].step)
  BY <1>4, Empty
<1> QED BY <1>1, <1>2, <1>3, <1>5 DEF Given, Taken

StepSet(d, s, m, b) ==
  /\ d \in SslObject /\ d.step = m /\ d.failed = b
  /\ d.sent = s.sent /\ d.received = s.received /\ d.live = s.live

LEMMA StepFields ==
  ASSUME NEW s \in SslObject, NEW m \in 0 .. 3, NEW b \in BOOLEAN
  PROVE  StepSet([s EXCEPT !.step = m, !.failed = b], s, m, b)
<1> DEFINE d == [s EXCEPT !.step = m, !.failed = b]
<1>1. d \in SslObject
  BY DEF SslObject
<1>2. d.step = m
  BY DEF SslObject
<1>3. d.failed = b
  BY DEF SslObject
<1>4. d.sent = s.sent /\ d.received = s.received /\ d.live = s.live
  BY DEF SslObject
<1> QED BY <1>1, <1>2, <1>3, <1>4 DEF StepSet

(* A step that leaves the certificate and the session alone.               *)
LEMMA ServerStays ==
  ASSUME ConnectionInv, NEW e \in Ends,
         ssl'[Peer(e)] = ssl[Peer(e)], con'[Peer(e)] = con[Peer(e)], session' = session,
         ssl'[e].step = ssl[e].step, con'[e].request = con[e].request, con'[e].reject = con[e].reject,
         con'[e].cert = con[e].cert, con'[e].next = con[e].next
  PROVE  ServerInv'
<1>1. /\ ssl'["server"].step = ssl["server"].step
      /\ con'["server"].cert = con["server"].cert /\ con'["server"].next = con["server"].next
      /\ con'["server"].request = con["server"].request /\ con'["server"].reject = con["server"].reject
  <2>1. e = "server" \/ Peer(e) = "server"
    BY DEF Ends, Peer
  <2> QED BY <2>1
<1>2. CertInv' /\ SessionsInv'
  BY <1>1 DEF ConnectionInv, ServerInv, CertInv, SessionsInv
<1> QED BY <1>2 DEF ServerInv

LEMMA HandshakeKeeps ==
  ASSUME SslConstants, ConnectionInv, NEW e \in Ends, HandshakeStep(e)
  PROVE  ConnectionInv'
<1> DEFINE p == Peer(e)
           n == ssl[e].step
<1>1. /\ p \in Ends /\ Peer(p) = e /\ p # e /\ SslTypes /\ EndInv /\ EndOf(e) /\ ServerInv
      /\ Given(p) = Taken(e) \o Pending(e) /\ Given(e) = Taken(p) \o Pending(p)
  BY Peers DEF ConnectionInv, StreamInv, EndInv
<1>2. n \in 0 .. 1 /\ n # 2 /\ UNCHANGED <<net, text>>
  BY DEF HandshakeStep
<1>3. CASE ~ CanStep(e)
  <2>1. GetSession(e, "want_read") /\ UNCHANGED <<bioread, biowrite, ssl>>
    BY <1>3 DEF HandshakeStep
  <2>2. /\ con' \in [Ends -> Con] /\ con'[p] = con[p] /\ con'[e].err = con[e].err
        /\ con'[e].sent = con[e].sent /\ con'[e].received = con[e].received
        /\ con'[e].request = con[e].request /\ con'[e].reject = con[e].reject
        /\ con'[e].cert = con[e].cert
        /\ session' \in [Sessions -> {"free", "loaded", "given", "freed"}] /\ SessionsInv'
    BY <2>1, SessionTaken
  <2>3. SslTypes'
    BY <1>1, <1>2, <2>1, <2>2 DEF SslTypes
  <2>4. EndOf(e)'
    BY <1>1, <1>2, <2>1, <2>2 DEF EndOf
  <2>5. CertInv'
    <3>1. e = "server" \/ p = "server"
      BY DEF Ends, Peer
    <3> QED BY <1>1, <2>1, <2>2, <3>1 DEF ServerInv, CertInv
  <2>6. /\ Given(e)' = Given(e) /\ Taken(e)' = Taken(e) /\ Pending(e)' = Pending(e)
        /\ Pending(p)' = Pending(p)
    BY <1>2, <2>1 DEF Given, Taken, Pending
  <2>7. ssl'[p] = ssl[p] /\ text'[p] = text[p] /\ ServerInv'
    BY <1>2, <2>1, <2>2, <2>5 DEF ServerInv
  <2> HIDE DEF n
  <2> QED BY <1>1, <2>2, <2>3, <2>4, <2>6, <2>7, EndStep
<1>4. CASE CanStep(e)
  <2> DEFINE rejected == Rejected(e)
             m == IF rejected THEN 3 ELSE n + 1
             b == ssl[e].failed \/ rejected
             a == IF Awaits(e) = "nothing" THEN <<>> ELSE <<Awaits(e)>>
             r == IF Awaits(e) = "nothing" THEN bioread[e] ELSE Tail(bioread[e])
             d == [ssl[e] EXCEPT !.step = m, !.failed = b]
  <2>1. /\ GetSession(e, IF rejected THEN "ssl" ELSE "want_read")
        /\ bioread' = [bioread EXCEPT ![e] = IF Awaits(e) = "nothing" THEN @ ELSE Tail(@)]
        /\ biowrite' = [biowrite EXCEPT ![e] = @ \o Sends(e)]
        /\ ssl' = [ssl EXCEPT ![e].step = IF rejected THEN 3 ELSE @ + 1, ![e].failed = @ \/ rejected]
    BY <1>4 DEF HandshakeStep
  <2>2. /\ Greeting(e, m) = Greeting(e, n) \o Sends(e) /\ Sends(e) \in Stream
        /\ Heard(e, m) = Heard(e, n) \o a /\ m \in 0 .. 3
    BY <1>2, HandshakeRecords
  <2>3. ssl \in [Ends -> SslObject] /\ ssl[e] \in SslObject /\ ssl[e].failed \in BOOLEAN
    BY <1>1 DEF SslTypes, SslObject
  <2>4. rejected \in BOOLEAN /\ b \in BOOLEAN /\ (b <=> ssl[e].failed \/ rejected)
    BY <2>3 DEF Rejected
  <2>5. ssl' = [ssl EXCEPT ![e] = d]
    <3> HIDE DEF rejected
    <3>1. [ssl[e] EXCEPT !.step = m].failed = ssl[e].failed
      BY <2>3 DEF SslObject
    <3> QED BY <2>1, <2>3, <3>1
  <2>6. StepSet(d, ssl[e], m, b)
    <3> HIDE DEF m, b
    <3> QED BY <2>2, <2>3, <2>4, StepFields
  <2>7. (rejected => m = 3) /\ (~ rejected => m = n + 1)
    OBVIOUS
  <2>8. (rejected => (IF rejected THEN "ssl" ELSE "want_read") = "ssl")
        /\ (~ rejected => (IF rejected THEN "ssl" ELSE "want_read") = "want_read")
    OBVIOUS
  <2>9. e = "server" /\ m = 2 /\ con[e].request /\ con[e].reject => con[e].cert # "none"
    BY <1>2, <2>7 DEF Rejected
  <2>10. /\ bioread' = [bioread EXCEPT ![e] = r]
         /\ biowrite' = [biowrite EXCEPT ![e] = biowrite[e] \o Sends(e)]
    BY <2>1
  <2>11. a # <<>> => bioread[e] # <<>> /\ a = <<Head(bioread[e])>> /\ r = Tail(bioread[e])
    BY <1>4 DEF CanStep
  <2>12. a = <<>> => r = bioread[e]
    OBVIOUS
  <2>13. rejected \/ ~ rejected
    OBVIOUS
  <2> HIDE DEF rejected, m, b, a, r, d
  <2>14. /\ con' \in [Ends -> Con] /\ con'[p] = con[p]
         /\ con'[e].err = (IF rejected THEN "ssl" ELSE con[e].err)
         /\ con'[e].sent = con[e].sent /\ con'[e].received = con[e].received
         /\ con'[e].request = con[e].request /\ con'[e].reject = con[e].reject
         /\ con'[e].cert = con[e].cert
         /\ session' \in [Sessions -> {"free", "loaded", "given", "freed"}] /\ SessionsInv'
    <3>1. CASE rejected
      BY <2>1, <2>8, <3>1, SessionTaken
    <3>2. CASE ~ rejected
      BY <2>1, <2>8, <3>2, SessionTaken
    <3> QED BY <2>13, <3>1, <3>2
  <2>15. /\ ssl' \in [Ends -> SslObject] /\ ssl'[e] = d /\ ssl'[p] = ssl[p]
         /\ d.step = m /\ d.failed = b /\ d.sent = ssl[e].sent /\ d.received = ssl[e].received
    BY <1>1, <2>3, <2>5, <2>6 DEF StepSet
  <2>16. /\ bioread[e] \in Stream /\ biowrite[e] \in Stream /\ net[e] \in Stream /\ biowrite[p] \in Stream
         /\ bioread[p] \in Stream /\ net[p] \in Stream
    BY <1>1, Pieces
  <2>17. r \in Stream
    BY <2>11, <2>12, <2>16, FirstOf
  <2>18. biowrite[e] \o Sends(e) \in Stream
    BY <2>2, <2>16, Joined
  <2>19. /\ bioread \in [Ends -> Stream] /\ biowrite \in [Ends -> Stream]
    BY <1>1 DEF SslTypes, Stream
  <2>20. /\ bioread' \in [Ends -> Stream] /\ biowrite' \in [Ends -> Stream]
         /\ bioread'[e] = r /\ bioread'[p] = bioread[p]
         /\ biowrite'[e] = biowrite[e] \o Sends(e) /\ biowrite'[p] = biowrite[p]
    BY <1>1, <2>10, <2>17, <2>18, <2>19
  <2>21. SslTypes'
    BY <1>1, <1>2, <2>14, <2>15, <2>20 DEF SslTypes, Stream
  <2>22. EndOf(e)'
    <3>1. text[e].in = <<>> /\ text[e].out = <<>> /\ ~ ssl[e].sent /\ ~ ssl[e].received
      BY <1>1, <1>2 DEF EndOf
    <3>2. con'[e].err # "none" <=> ssl'[e].failed
      BY <1>1, <2>4, <2>14, <2>15 DEF EndOf
    <3> QED BY <1>1, <1>2, <2>14, <2>15, <3>1, <3>2 DEF EndOf
  <2>23. CertInv'
    <3>1. e = "server" \/ p = "server"
      BY DEF Ends, Peer
    <3> QED BY <1>1, <2>9, <2>14, <2>15, <3>1 DEF ServerInv, CertInv
  <2>24. Given(e) = Greeting(e, n) /\ Taken(e) = Heard(e, n)
    BY <1>1, <1>2, EarlyStreams
  <2>25. Given(e)' = Greeting(e, m) /\ Taken(e)' = Heard(e, m)
    <3>1. text'[e].in = <<>> /\ text'[e].out = <<>> /\ ~ ssl'[e].sent /\ ~ ssl'[e].received
      BY <1>1, <1>2, <2>15 DEF EndOf
    <3>2. Notice(ssl'[e].sent) = <<>> /\ Notice(ssl'[e].received) = <<>>
      BY <3>1 DEF Notice
    <3>3. Greeting(e, m) \in Stream /\ Heard(e, m) \in Stream
      BY <2>2, Greetings
    <3>4. /\ <<>> \o <<>> = <<>> /\ Greeting(e, m) \o <<>> = Greeting(e, m)
          /\ Heard(e, m) \o <<>> = Heard(e, m)
      BY <3>3, Empty
    <3> QED BY <2>15, <3>1, <3>2, <3>4 DEF Given, Taken
  <2>26. Given(p) = Taken(e)' \o Pending(e)'
    <3> DEFINE q == net[e] \o biowrite[p]
               c == Heard(e, n)
    <3>1. q \in Stream /\ c \in Stream
      BY <1>2, <2>16, Joined, Greetings
    <3>2. Pending(e) = bioread[e] \o q /\ Pending(e)' = r \o q
      BY <1>2, <2>20 DEF Pending
    <3> HIDE DEF q
    <3>3. c \o (bioread[e] \o q) = (c \o a) \o (r \o q)
      <4>1. CASE a = <<>>
        BY <2>12, <3>1, <4>1, Empty
      <4>2. CASE a # <<>>
        <5> DEFINE u == bioread[e]
        <5>1. u \in Stream /\ u # <<>> /\ a = <<Head(u)>> /\ r = Tail(u)
          BY <2>11, <2>16, <4>2
        <5> HIDE DEF u, c
        <5>2. c \o (u \o q) = (c \o <<Head(u)>>) \o (Tail(u) \o q)
          BY <3>1, <5>1, TakeOne
        <5> QED BY <5>1, <5>2 DEF u
      <4> QED BY <4>1, <4>2
    <3> QED BY <1>1, <2>2, <2>24, <2>25, <3>2, <3>3
  <2>27. Given(e)' = Taken(p) \o Pending(p)'
    <3> DEFINE c == Taken(p)
               x == Sends(e)
    <3>1. c \in Stream /\ x \in Stream
      BY <1>1, <2>2, GivenStreams
    <3>2. /\ Pending(p) = bioread[p] \o (net[p] \o biowrite[e])
          /\ Pending(p)' = bioread[p] \o (net[p] \o (biowrite[e] \o x))
      BY <1>1, <1>2, <2>20 DEF Pending
    <3> HIDE DEF c, x
    <3>3. (c \o (bioread[p] \o (net[p] \o biowrite[e]))) \o x
            = c \o (bioread[p] \o (net[p] \o (biowrite[e] \o x)))
      <4> DEFINE u == bioread[p]
                 v == net[p]
                 w == biowrite[e]
      <4>1. u \in Stream /\ v \in Stream /\ w \in Stream
        BY <2>16
      <4> HIDE DEF u, v, w
      <4>2. Appended(c, u, v, w, x)
        BY <3>1, <4>1, GiveMore
      <4> QED BY <4>2 DEF u, v, w, Appended
    <3>4. Given(e)' = Given(e) \o x
      BY <2>2, <2>24, <2>25 DEF x
    <3> QED BY <1>1, <3>2, <3>3, <3>4 DEF c
  <2>28. text'[p] = text[p] /\ ServerInv'
    BY <1>2, <2>14, <2>23 DEF ServerInv
  <2> HIDE DEF n
  <2> QED BY <1>1, <2>14, <2>15, <2>21, <2>22, <2>26, <2>27, <2>28, EndStep
<1> QED BY <1>3, <1>4

(* The fields of a connection after set_shutdown_flags.                    *)
ConSet(e, x, s) ==
  /\ con' \in [Ends -> Con] /\ con'[Peer(e)] = con[Peer(e)]
  /\ con'[e].err = x /\ con'[e].next = con[e].next /\ con'[e].cert = con[e].cert
  /\ (con'[e].sent <=> con[e].sent \/ s.sent) /\ (con'[e].received <=> con[e].received \/ s.received)
  /\ con'[e].request = con[e].request /\ con'[e].reject = con[e].reject

LEMMA ConFields ==
  ASSUME ConnectionInv, NEW e \in Ends, NEW x \in {"none", "ssl"}, NEW s \in SslObject,
         con' = [con EXCEPT ![e] = SetShutdownFlags([@ EXCEPT !.err = x], s)]
  PROVE  ConSet(e, x, s)
<1> DEFINE c == con[e]
           n == c.next
           h == [c EXCEPT !.err = x]
           d == SetShutdownFlags(h, s)
<1>1. con \in [Ends -> Con] /\ c \in Con
  BY DEF ConnectionInv, SslTypes
<1>2. n \in Sessions \cup {"none"}
  BY <1>1 DEF Con
<1>3. h = [c EXCEPT !.err = x, !.next = n]
  <2> HIDE DEF c
  <2>1. [c EXCEPT !.err = x].next = c.next
    BY <1>1 DEF Con
  <2> QED BY <1>1, <2>1 DEF Con
<1>4. con' = [con EXCEPT ![e] = d]
  OBVIOUS
<1> HIDE DEF c, n
<1>5. ErrSet(h, c, x, n)
  BY <1>1, <1>2, <1>3, ErrFields
<1> HIDE DEF h
<1>6. FlagsSet(d, h, s)
  BY <1>5, FlagFields DEF ErrSet
<1> HIDE DEF d
<1>7. d \in Con
  BY <1>6 DEF FlagsSet
<1>8. con' \in [Ends -> Con] /\ con'[e] = d /\ con'[Peer(e)] = con[Peer(e)]
  BY <1>1, <1>4, <1>7, Peers
<1>9. d.err = x /\ d.next = n /\ d.cert = c.cert /\ d.request = c.request /\ d.reject = c.reject
  BY <1>5, <1>6 DEF ErrSet, FlagsSet
<1>10. (d.sent <=> c.sent \/ s.sent) /\ (d.received <=> c.received \/ s.received)
  BY <1>5, <1>6 DEF ErrSet, FlagsSet
<1> QED BY <1>8, <1>9, <1>10 DEF ConSet, c, n

LEMMA FlagsStay ==
  ASSUME ConnectionInv, NEW e \in Ends, con' = [con EXCEPT ![e] = SetShutdownFlags(@, ssl[e])]
  PROVE  ConSet(e, con[e].err, ssl[e])
<1> DEFINE x == con[e].err
<1>1. con \in [Ends -> Con] /\ con[e] \in Con /\ ssl[e] \in SslObject
  BY DEF ConnectionInv, SslTypes
<1>2. x \in {"none", "ssl"} /\ con[e] = [con[e] EXCEPT !.err = x]
  BY <1>1 DEF Con
<1>3. con' = [con EXCEPT ![e] = SetShutdownFlags([@ EXCEPT !.err = x], ssl[e])]
  BY <1>2
<1> HIDE DEF x
<1>4. ConSet(e, x, ssl[e])
  BY <1>1, <1>2, <1>3, ConFields
<1> QED BY <1>4 DEF x

(* A step that only carries records keeps all streams.                     *)
LEMMA CarryKeeps ==
  ASSUME ConnectionInv, NEW e \in Ends, ConSet(e, con[e].err, ssl[e]),
         UNCHANGED <<ssl, text, session>>,
         bioread' \in [Ends -> Stream], biowrite' \in [Ends -> Stream], net' \in [Ends -> Stream],
         Pending(e)' = Pending(e), Pending(Peer(e))' = Pending(Peer(e))
  PROVE  ConnectionInv'
<1> DEFINE p == Peer(e)
<1>1. /\ p \in Ends /\ Peer(p) = e /\ SslTypes /\ EndOf(e)
      /\ Given(p) = Taken(e) \o Pending(e) /\ Given(e) = Taken(p) \o Pending(p)
  BY Peers DEF ConnectionInv, StreamInv, EndInv
<1>2. SslTypes'
  BY <1>1 DEF SslTypes, ConSet, Stream
<1>3. EndOf(e)'
  BY <1>1 DEF EndOf, ConSet
<1>4. ssl'[p] = ssl[p] /\ con'[p] = con[p] /\ text'[p] = text[p] /\ ssl'[e].step = ssl[e].step
  BY DEF ConSet
<1>5. ServerInv'
  BY <1>4, ServerStays DEF ConSet
<1>6. Given(e)' = Given(e) /\ Taken(e)' = Taken(e)
  BY DEF Given, Taken
<1> QED BY <1>1, <1>2, <1>3, <1>4, <1>5, <1>6, EndStep

LEMMA ReadKeeps ==
  ASSUME ConnectionInv, NEW e \in Ends, ConnectionRead(e)
  PROVE  ConnectionInv'
<1> DEFINE p == Peer(e)
           b == net[p]
           w == biowrite[e]
<1>1. /\ p \in Ends /\ Peer(p) = e /\ p # e /\ bioread \in [Ends -> Stream]
      /\ biowrite \in [Ends -> Stream] /\ net \in [Ends -> Stream]
  BY Peers DEF ConnectionInv, SslTypes, Stream
<1>2. b \in Stream /\ w \in Stream /\ <<>> \in Stream
  BY <1>1, Empty
<1>3. PICK k \in 1 .. Len(w) :
        /\ net' = [net EXCEPT ![p] = @ \o SubSeq(w, 1, k)]
        /\ biowrite' = [biowrite EXCEPT ![e] = SubSeq(@, k + 1, Len(@))]
  BY DEF ConnectionRead
<1>4. UNCHANGED <<bioread, ssl, text, session>> /\ ConSet(e, con[e].err, ssl[e])
  BY FlagsStay DEF ConnectionRead
<1> DEFINE u == SubSeq(w, 1, k)
           v == SubSeq(w, k + 1, Len(w))
<1>5. u \in Stream /\ v \in Stream /\ (b \o u) \o v = b \o w
  <2> HIDE DEF b, w
  <2>1. Moved(b, w, <<>>, k)
    BY <1>2, MoveOn
  <2> QED BY <2>1 DEF Moved
<1>6. net' = [net EXCEPT ![p] = b \o u] /\ biowrite' = [biowrite EXCEPT ![e] = v]
  BY <1>3
<1>7. b \o u \in Stream
  BY <1>2, <1>5, Joined
<1> HIDE DEF b, w, u, v
<1>8. /\ net' \in [Ends -> Stream] /\ biowrite' \in [Ends -> Stream]
      /\ net'[p] = b \o u /\ net'[e] = net[e] /\ biowrite'[e] = v /\ biowrite'[p] = biowrite[p]
  BY <1>1, <1>5, <1>6, <1>7
<1>9. Pending(e)' = Pending(e)
  BY <1>4, <1>8 DEF Pending
<1>10. Pending(p)' = Pending(p)
  <2>1. Pending(p)' = bioread[p] \o ((b \o u) \o v)
    BY <1>1, <1>4, <1>8 DEF Pending
  <2>2. Pending(p) = bioread[p] \o (b \o w)
    BY <1>1 DEF Pending, b, w
  <2> QED BY <1>5, <2>1, <2>2
<1> QED BY <1>1, <1>4, <1>8, <1>9, <1>10, CarryKeeps

LEMMA WriteKeeps ==
  ASSUME ConnectionInv, NEW e \in Ends, ConnectionWrite(e)
  PROVE  ConnectionInv'
<1> DEFINE p == Peer(e)
           b == bioread[e]
           n == net[e]
           w == biowrite[p]
<1>1. /\ p \in Ends /\ Peer(p) = e /\ p # e /\ bioread \in [Ends -> Stream]
      /\ biowrite \in [Ends -> Stream] /\ net \in [Ends -> Stream]
  BY Peers DEF ConnectionInv, SslTypes, Stream
<1>2. b \in Stream /\ n \in Stream /\ w \in Stream
  BY <1>1
<1>3. PICK k \in 1 .. Len(n) :
        /\ bioread' = [bioread EXCEPT ![e] = @ \o SubSeq(n, 1, k)]
        /\ net' = [net EXCEPT ![e] = SubSeq(@, k + 1, Len(@))]
  BY DEF ConnectionWrite
<1>4. UNCHANGED <<biowrite, ssl, text, session>> /\ ConSet(e, con[e].err, ssl[e])
  BY FlagsStay DEF ConnectionWrite
<1> DEFINE u == SubSeq(n, 1, k)
           v == SubSeq(n, k + 1, Len(n))
<1>5. u \in Stream /\ v \in Stream /\ (b \o u) \o (v \o w) = b \o (n \o w)
  <2> HIDE DEF b, n, w
  <2>1. Moved(b, n, w, k)
    BY <1>2, MoveOn
  <2> QED BY <2>1 DEF Moved
<1>6. bioread' = [bioread EXCEPT ![e] = b \o u] /\ net' = [net EXCEPT ![e] = v]
  BY <1>3
<1>7. b \o u \in Stream
  BY <1>2, <1>5, Joined
<1> HIDE DEF b, n, w, u, v
<1>8. /\ net' \in [Ends -> Stream] /\ bioread' \in [Ends -> Stream]
      /\ net'[e] = v /\ net'[p] = net[p] /\ bioread'[e] = b \o u /\ bioread'[p] = bioread[p]
  BY <1>1, <1>5, <1>6, <1>7
<1>9. Pending(p)' = Pending(p)
  BY <1>1, <1>4, <1>8 DEF Pending
<1>10. Pending(e)' = Pending(e)
  <2>1. Pending(e)' = (b \o u) \o (v \o w)
    BY <1>1, <1>4, <1>8 DEF Pending, w
  <2>2. Pending(e) = b \o (n \o w)
    BY <1>1 DEF Pending, b, n, w
  <2> QED BY <1>5, <2>1, <2>2
<1> QED BY <1>1, <1>4, <1>8, <1>9, <1>10, CarryKeeps

(* The SSL object after a step that does not move the handshake on.        *)
SslSet(e, a, r, f) ==
  /\ ssl' \in [Ends -> SslObject] /\ ssl'[Peer(e)] = ssl[Peer(e)] /\ ssl'[e].step = ssl[e].step
  /\ (ssl'[e].sent <=> a) /\ (ssl'[e].received <=> r) /\ (ssl'[e].failed <=> f)

LEMMA SslFields ==
  ASSUME SslTypes, NEW e \in Ends, NEW d \in SslObject, d.step = ssl[e].step,
         ssl' = [ssl EXCEPT ![e] = d]
  PROVE  SslSet(e, d.sent, d.received, d.failed) /\ ssl'[e] = d
<1>1. ssl' \in [Ends -> SslObject] /\ ssl'[e] = d /\ ssl'[Peer(e)] = ssl[Peer(e)]
  BY Peers DEF SslTypes
<1> QED BY <1>1 DEF SslSet

(* The flags of an end and those of its SSL object go together.            *)
Flagged(e) ==
  /\ con' \in [Ends -> Con] /\ con'[Peer(e)] = con[Peer(e)]
  /\ ssl' \in [Ends -> SslObject] /\ ssl'[Peer(e)] = ssl[Peer(e)] /\ ssl'[e].step = ssl[e].step
  /\ con'[e].next = con[e].next /\ con'[e].cert = con[e].cert
  /\ con'[e].request = con[e].request /\ con'[e].reject = con[e].reject
  /\ (con'[e].sent <=> ssl'[e].sent) /\ (con'[e].received <=> ssl'[e].received)
  /\ con'[e].err # "none" <=> ssl'[e].failed

LEMMA FlagsAgree ==
  ASSUME ConnectionInv, NEW e \in Ends, NEW x, NEW s, NEW a, NEW r, NEW f,
         ConSet(e, x, s), SslSet(e, a, r, f), (s.sent <=> a), (s.received <=> r), (x # "none" <=> f),
         ssl[e].sent => a, ssl[e].received => r
  PROVE  Flagged(e)
<1>1. EndOf(e)
  BY DEF ConnectionInv, EndInv
<1>2. (con'[e].sent <=> ssl'[e].sent) /\ (con'[e].received <=> ssl'[e].received)
  BY <1>1 DEF EndOf, ConSet, SslSet
<1>3. con'[e].err # "none" <=> ssl'[e].failed
  BY DEF ConSet, SslSet
<1> QED BY <1>2, <1>3 DEF ConSet, SslSet, Flagged

(* What a step leaves to show.                                             *)
LEMMA TalkKeeps ==
  ASSUME ConnectionInv, NEW e \in Ends, Flagged(e),
         ssl[e].step # 2 => text'[e] = text[e] /\ ~ ssl'[e].sent /\ ~ ssl'[e].received,
         text' \in [Ends -> [in : Seq(Plain), out : Seq(Plain)]], text'[Peer(e)] = text[Peer(e)],
         bioread' \in [Ends -> Stream], biowrite' \in [Ends -> Stream], UNCHANGED <<net, session>>,
         Given(Peer(e)) = Taken(e)' \o Pending(e)', Given(e)' = Taken(Peer(e)) \o Pending(Peer(e))'
  PROVE  ConnectionInv'
<1>1. SslTypes /\ EndOf(e)
  BY DEF ConnectionInv, EndInv
<1>2. SslTypes'
  BY <1>1 DEF SslTypes, Flagged, Stream
<1>3. EndOf(e)'
  BY <1>1 DEF EndOf, Flagged
<1>4. ssl'[Peer(e)] = ssl[Peer(e)] /\ con'[Peer(e)] = con[Peer(e)] /\ ssl'[e].step = ssl[e].step
  BY DEF Flagged
<1>5. ServerInv'
  BY <1>4, ServerStays DEF Flagged
<1> QED BY <1>2, <1>3, <1>4, <1>5, EndStep

(* Before the notification, one more text or the notification itself.      *)
Extended(c, o, x) ==
  /\ (c \o (o \o <<>>)) \o x = c \o (o \o x)
  /\ c \o ((o \o x) \o <<>>) = c \o (o \o x)

LEMMA Extending ==
  ASSUME NEW c \in Stream, NEW o \in Stream, NEW x \in Stream
  PROVE  Extended(c, o, x)
<1>1. o \o <<>> = o /\ o \o x \in Stream
  BY Empty, Joined
<1>2. (o \o x) \o <<>> = o \o x
  BY <1>1, Empty
<1>3. Associates(c, o, x)
  BY Assoc
<1> QED BY <1>1, <1>2, <1>3 DEF Extended, Associates

LEMMA Added ==
  ASSUME NEW S, NEW t \in Seq(S), NEW d \in S
  PROVE  Append(t, d) = t \o <<d>> /\ Append(t, d) \in Seq(S)
OBVIOUS

(* Streams of an end before its notification, and when it is given one.    *)
LEMMA OpenStreams ==
  ASSUME SslTypes, NEW e \in Ends, NEW x \in Stream
  PROVE  /\ ~ ssl[e].sent =>
              Given(e) \o x = Greeting(e, ssl[e].step) \o (text[e].in \o x)
         /\ ~ ssl[e].received =>
              Taken(e) \o x = Heard(e, ssl[e].step) \o (text[e].out \o x)
<1> DEFINE g == Greeting(e, ssl[e].step)
           h == Heard(e, ssl[e].step)
           i == text[e].in
           o == text[e].out
<1>1. g \in Stream /\ h \in Stream /\ i \in Stream /\ o \in Stream
  BY Pieces, Greetings
<1>2. ~ ssl[e].sent => Given(e) = g \o (i \o <<>>)
  BY DEF Given, Notice
<1>3. ~ ssl[e].received => Taken(e) = h \o (o \o <<>>)
  BY DEF Taken, Notice
<1> HIDE DEF g, h, i, o
<1>4. Extended(g, i, x) /\ Extended(h, o, x)
  BY <1>1, Extending
<1>5. ~ ssl[e].sent => Given(e) \o x = g \o (i \o x)
  BY <1>2, <1>4 DEF Extended
<1>6. ~ ssl[e].received => Taken(e) \o x = h \o (o \o x)
  BY <1>3, <1>4 DEF Extended
<1> QED BY <1>5, <1>6 DEF g, h, i, o

(* The record that an end takes, and the one that it adds.                 *)
LEMMA Receives ==
  ASSUME ConnectionInv, NEW e \in Ends, bioread[e] # <<>>,
         bioread' = [bioread EXCEPT ![e] = Tail(@)], UNCHANGED <<biowrite, net>>,
         Taken(e)' = Taken(e) \o <<Head(bioread[e])>>
  PROVE  Given(Peer(e)) = Taken(e)' \o Pending(e)'
<1> DEFINE b == bioread[e]
           q == net[e] \o biowrite[Peer(e)]
           c == Taken(e)
<1>1. SslTypes /\ Peer(e) \in Ends
  BY Peers DEF ConnectionInv
<1>2. /\ b \in Stream /\ net[e] \in Stream /\ biowrite[Peer(e)] \in Stream /\ c \in Stream
  BY <1>1, Pieces, GivenStreams
<1>3. q \in Stream
  BY <1>2, Joined
<1>4. Pending(e) = b \o q /\ Pending(e)' = Tail(b) \o q
  BY <1>1 DEF Pending, SslTypes
<1>5. Given(Peer(e)) = c \o Pending(e)
  BY DEF ConnectionInv, StreamInv
<1> HIDE DEF b, q, c
<1>6. c \o (b \o q) = (c \o <<Head(b)>>) \o (Tail(b) \o q)
  <2>1. b # <<>>
    BY DEF b
  <2> QED BY <1>2, <1>3, <2>1, TakeOne
<1> QED BY <1>4, <1>5, <1>6 DEF b, c

LEMMA Emits ==
  ASSUME ConnectionInv, NEW e \in Ends, NEW x \in Record,
         biowrite' = [biowrite EXCEPT ![e] = Append(@, x)], UNCHANGED <<bioread, net>>,
         Given(e)' = Given(e) \o <<x>>
  PROVE  /\ Given(e)' = Taken(Peer(e)) \o Pending(Peer(e))' /\ biowrite' \in [Ends -> Stream]
         /\ Pending(e)' = Pending(e)
<1> DEFINE p == Peer(e)
           c == Taken(p)
           u == bioread[p]
           v == net[p]
           w == biowrite[e]
           y == <<x>>
<1>1. SslTypes /\ p \in Ends /\ Peer(p) = e /\ p # e
  BY Peers DEF ConnectionInv
<1>2. u \in Stream /\ v \in Stream /\ w \in Stream /\ c \in Stream
  BY <1>1, Pieces, GivenStreams
<1>3. y \in Stream
  BY DEF Stream
<1>4. Append(w, x) = w \o y /\ w \o y \in Stream
  BY <1>2, Added DEF Stream
<1>5. biowrite' = [biowrite EXCEPT ![e] = w \o y]
  BY <1>4
<1>6. biowrite \in [Ends -> Stream]
  BY <1>1 DEF SslTypes, Stream
<1>7. Given(e) = c \o (u \o (v \o w))
  BY <1>1 DEF ConnectionInv, StreamInv, Pending
<1> HIDE DEF w, y, c
<1>8. biowrite' \in [Ends -> Stream] /\ biowrite'[e] = w \o y /\ biowrite'[p] = biowrite[p]
  BY <1>1, <1>4, <1>5, <1>6
<1>9. Pending(e)' = Pending(e) /\ Pending(p)' = u \o (v \o (w \o y))
  BY <1>1, <1>8 DEF Pending
<1> HIDE DEF u, v
<1>10. Appended(c, u, v, w, y)
  BY <1>2, <1>3, GiveMore
<1>11. Given(e)' = c \o (u \o (v \o (w \o y)))
  BY <1>7, <1>10 DEF Appended, y
<1> QED BY <1>8, <1>9, <1>11 DEF c

LEMMA ErrKept ==
  ASSUME ConnectionInv, NEW e \in Ends
  PROVE  /\ con[e].err \in {"none", "ssl"} /\ HandleSslError(e, "ssl") = "ssl"
         /\ HandleSslError(e, "none") = con[e].err /\ HandleSslError(e, "want_read") = con[e].err
         /\ con[e].err # "none" <=> ssl[e].failed
<1>1. con[e] \in Con
  BY DEF ConnectionInv, SslTypes
<1>2. con[e].err \in {"none", "ssl"}
  BY <1>1 DEF Con
<1>3. con[e].err # "none" <=> ssl[e].failed
  BY DEF ConnectionInv, EndInv, EndOf
<1> QED BY <1>2, <1>3 DEF HandleSslError

(* What every step of an end starts from.                                  *)
LEMMA Settled ==
  ASSUME ConnectionInv, NEW e \in Ends
  PROVE  /\ Peer(e) \in Ends /\ Peer(Peer(e)) = e /\ Peer(e) # e /\ SslTypes
         /\ bioread \in [Ends -> Stream] /\ biowrite \in [Ends -> Stream] /\ net \in [Ends -> Stream]
         /\ text \in [Ends -> [in : Seq(Plain), out : Seq(Plain)]]
         /\ ssl \in [Ends -> SslObject] /\ ssl[e] \in SslObject
         /\ Given(Peer(e)) = Taken(e) \o Pending(e) /\ Given(e) = Taken(Peer(e)) \o Pending(Peer(e))
         /\ ssl[e].step # 2 => ~ ssl[e].sent /\ ~ ssl[e].received
<1>1. Peer(e) \in Ends /\ Peer(Peer(e)) = e /\ Peer(e) # e
  BY Peers
<1>2. SslTypes /\ StreamInv /\ EndOf(e)
  BY DEF ConnectionInv, EndInv
<1>3. /\ Given(Peer(e)) = Taken(e) \o Pending(e) /\ Given(e) = Taken(Peer(e)) \o Pending(Peer(e))
  BY <1>1, <1>2 DEF StreamInv
<1> QED BY <1>1, <1>2, <1>3 DEF SslTypes, Stream, EndOf

(* Nothing but flags that say nothing about the streams.                   *)
LEMMA SilentKeeps ==
  ASSUME ConnectionInv, NEW e \in Ends, NEW x, NEW s, NEW f,
         ConSet(e, x, s), SslSet(e, ssl[e].sent, ssl[e].received, f),
         (s.sent <=> ssl[e].sent), (s.received <=> ssl[e].received), (x # "none" <=> f),
         UNCHANGED <<bioread, biowrite, net, text, session>>
  PROVE  ConnectionInv'
<1>6. Flagged(e)
  BY FlagsAgree
<1>1. /\ Peer(e) \in Ends /\ Peer(Peer(e)) = e
      /\ bioread \in [Ends -> Stream] /\ biowrite \in [Ends -> Stream]
      /\ text \in [Ends -> [in : Seq(Plain), out : Seq(Plain)]]
      /\ Given(Peer(e)) = Taken(e) \o Pending(e) /\ Given(e) = Taken(Peer(e)) \o Pending(Peer(e))
      /\ ssl[e].step # 2 => ~ ssl[e].sent /\ ~ ssl[e].received
  BY Settled
<1>2. /\ Notice(ssl'[e].sent) = Notice(ssl[e].sent) /\ Notice(ssl'[e].received) = Notice(ssl[e].received)
      /\ ssl'[e].step = ssl[e].step
  BY DEF SslSet, Notice
<1>3. Given(e)' = Given(e) /\ Taken(e)' = Taken(e)
  BY <1>2 DEF Given, Taken
<1>4. Pending(e)' = Pending(e) /\ Pending(Peer(e))' = Pending(Peer(e))
  BY DEF Pending
<1>5. /\ bioread' \in [Ends -> Stream] /\ biowrite' \in [Ends -> Stream]
      /\ text' \in [Ends -> [in : Seq(Plain), out : Seq(Plain)]] /\ text'[Peer(e)] = text[Peer(e)]
      /\ text'[e] = text[e]
  BY <1>1
<1>7. ssl[e].step # 2 => ~ ssl'[e].sent /\ ~ ssl'[e].received
  BY <1>1 DEF SslSet
<1> QED BY <1>1, <1>3, <1>4, <1>5, <1>6, <1>7, TalkKeeps

LEMMA FailedFields ==
  ASSUME NEW s \in SslObject
  PROVE  LET d == [s EXCEPT !.failed = TRUE]
         IN d \in SslObject /\ d.step = s.step /\ d.sent = s.sent /\ d.received = s.received /\ d.failed = TRUE
<1> DEFINE d == [s EXCEPT !.failed = TRUE]
<1>1. d \in SslObject
  BY DEF SslObject
<1>2. d.step = s.step
  BY DEF SslObject
<1>3. d.sent = s.sent /\ d.received = s.received
  BY DEF SslObject
<1>4. d.failed = TRUE
  BY DEF SslObject
<1> QED BY <1>1, <1>2, <1>3, <1>4

LEMMA ClearInKeeps ==
  ASSUME SslConstants, ConnectionInv, NEW e \in Ends, ClearIn(e)
  PROVE  ConnectionInv'
<1> DEFINE p == Peer(e)
           k == Len(text[e].in) + 1
           d == Texts[k]
<1>1. /\ p \in Ends /\ Peer(p) = e /\ p # e /\ SslTypes
      /\ bioread \in [Ends -> Stream] /\ biowrite \in [Ends -> Stream] /\ net \in [Ends -> Stream]
      /\ text \in [Ends -> [in : Seq(Plain), out : Seq(Plain)]]
      /\ ssl \in [Ends -> SslObject] /\ ssl[e] \in SslObject
      /\ Given(p) = Taken(e) \o Pending(e) /\ Given(e) = Taken(p) \o Pending(p)
  BY Settled
<1>2. ssl[e].step = 2 /\ UNCHANGED <<bioread, net, session>> /\ Len(text[e].in) < Len(Texts)
  BY DEF ClearIn
<1>3. CASE ssl[e].sent
  <2>1. /\ con' = [con EXCEPT ![e] = SetShutdownFlags([@ EXCEPT !.err = HandleSslError(e, "ssl")], ssl[e])]
        /\ ssl' = [ssl EXCEPT ![e].failed = TRUE] /\ UNCHANGED <<biowrite, text>>
    BY <1>3 DEF ClearIn
  <2>2. ConSet(e, "ssl", ssl[e])
    <3>1. con' = [con EXCEPT ![e] = SetShutdownFlags([@ EXCEPT !.err = "ssl"], ssl[e])]
      BY <2>1, ErrKept
    <3> QED BY <1>1, <3>1, ConFields
  <2> DEFINE t == [ssl[e] EXCEPT !.failed = TRUE]
  <2>3. /\ t \in SslObject /\ t.step = ssl[e].step /\ t.sent = ssl[e].sent /\ t.received = ssl[e].received
        /\ t.failed = TRUE /\ ssl' = [ssl EXCEPT ![e] = t]
    BY <1>1, <2>1, FailedFields
  <2> HIDE DEF t
  <2>4. SslSet(e, t.sent, t.received, t.failed)
    BY <1>1, <2>3, SslFields
  <2>5. SslSet(e, ssl[e].sent, ssl[e].received, TRUE)
    BY <2>3, <2>4
  <2> QED BY <1>2, <2>1, <2>2, <2>5, SilentKeeps
<1>4. CASE ~ ssl[e].sent
  <2>1. /\ biowrite' = [biowrite EXCEPT ![e] = Append(@, d)]
        /\ text' = [text EXCEPT ![e].in = Append(@, d)]
        /\ con' = [con EXCEPT ![e] = SetShutdownFlags(@, ssl[e])] /\ UNCHANGED ssl
    BY <1>4 DEF ClearIn
  <2>2. d \in Plain /\ d \in Record
    <3>1. text[e].in \in Seq(Plain) /\ Texts \in Seq(STRING \ Notices)
      BY <1>1, Pieces DEF SslConstants
    <3>2. k \in 1 .. Len(Texts)
      BY <1>2, <3>1
    <3> HIDE DEF k
    <3> QED BY <3>2, PlainTexts
  <2> HIDE DEF d
  <2> DEFINE i == text[e].in
             x == <<d>>
  <2>3. i \in Seq(Plain) /\ Append(i, d) = i \o x /\ Append(i, d) \in Seq(Plain)
    <3>1. i \in Seq(Plain)
      BY <1>1
    <3> QED BY <2>2, <3>1, Added
  <2>4. /\ text' \in [Ends -> [in : Seq(Plain), out : Seq(Plain)]] /\ text'[p] = text[p]
        /\ text'[e].in = i \o x /\ text'[e].out = text[e].out
    BY <1>1, <2>1, <2>3
  <2>5. x \in Stream
    BY <2>2 DEF Stream
  <2> HIDE DEF x
  <2>6. Given(e)' = Given(e) \o x
    <3> DEFINE g == Greeting(e, ssl[e].step)
    <3>1. Given(e)' = g \o ((i \o x) \o <<>>)
      BY <1>4, <2>1, <2>4 DEF Given, Notice
    <3>2. g \in Stream /\ i \in Stream
      BY <1>1, Pieces, Greetings
    <3>3. Given(e) \o x = g \o (i \o x)
      BY <1>1, <1>4, <2>5, OpenStreams
    <3> HIDE DEF g, i
    <3>4. Extended(g, i, x)
      BY <2>5, <3>2, Extending
    <3> QED BY <3>1, <3>3, <3>4 DEF Extended
  <2>7. /\ Given(e)' = Taken(p) \o Pending(p)' /\ biowrite' \in [Ends -> Stream]
        /\ Pending(e)' = Pending(e)
    BY <1>2, <2>1, <2>2, <2>6, Emits DEF x
  <2>8. Taken(e)' = Taken(e)
    BY <2>1, <2>4 DEF Taken
  <2>9. ConSet(e, con[e].err, ssl[e])
    BY <2>1, FlagsStay
  <2>10. SslSet(e, ssl[e].sent, ssl[e].received, ssl[e].failed)
    BY <1>1, <2>1 DEF SslSet
  <2>11. con[e].err # "none" <=> ssl[e].failed
    BY ErrKept
  <2>12. Given(p) = Taken(e)' \o Pending(e)'
    BY <1>1, <2>7, <2>8
  <2>13. bioread' \in [Ends -> Stream]
    BY <1>1, <1>2
  <2>14. Flagged(e)
    BY <2>9, <2>10, <2>11, FlagsAgree
  <2> QED BY <1>2, <2>4, <2>7, <2>12, <2>13, <2>14, TalkKeeps
<1> QED BY <1>3, <1>4

(* The first record that waits for an end that has finished.               *)
LEMMA FirstWaiting ==
  ASSUME SslConstants, ConnectionInv, NEW e \in Ends, ssl[e].step = 2, bioread[e] # <<>>
  PROVE  /\ ~ ssl[e].received /\ Head(bioread[e]) \in Record
         /\ Head(bioread[e]) # "close" => Head(bioread[e]) \in Plain
<1> DEFINE b == bioread[e]
           q == net[e] \o biowrite[Peer(e)]
<1>1. SslTypes /\ Peer(e) \in Ends
  BY Peers DEF ConnectionInv
<1>2. b \in Stream /\ net[e] \in Stream /\ biowrite[Peer(e)] \in Stream
  BY <1>1, Pieces
<1>3. q \in Stream /\ Pending(e) = b \o q
  BY <1>2, Joined DEF Pending
<1>4. b # <<>>
  OBVIOUS
<1>7. /\ ssl[e].received => Pending(e) = <<>>
      /\ ~ ssl[e].received /\ Pending(e) # <<>> /\ Head(Pending(e)) # "close" => Head(Pending(e)) \in Plain
  BY EndSound
<1> HIDE DEF b, q
<1>5. Len(b) >= 1 /\ Head(b) = b[1] /\ Head(b) \in Record
  BY <1>2, <1>4, FirstOf
<1>6. b \o q \in Stream /\ Len(b \o q) = Len(b) + Len(q) /\ (b \o q)[1] = b[1] /\ Len(q) \in Nat
  <2>1. 1 \in 1 .. Len(b) /\ Len(q) \in Nat
    BY <1>2, <1>3, <1>5, Empty
  <2> QED BY <1>2, <1>3, <2>1, Joined
<1>8. b \o q # <<>> /\ Head(b \o q) = Head(b)
  <2>1. b \o q # <<>>
    BY <1>2, <1>5, <1>6, Empty
  <2> QED BY <1>5, <1>6, <2>1, FirstOf
<1> QED BY <1>3, <1>5, <1>7, <1>8 DEF b

LEMMA ReceivedFields ==
  ASSUME NEW s \in SslObject, NEW b \in BOOLEAN
  PROVE  LET d == [s EXCEPT !.received = b]
         IN d \in SslObject /\ d.step = s.step /\ d.sent = s.sent /\ d.received = b /\ d.failed = s.failed
<1> DEFINE d == [s EXCEPT !.received = b]
<1>1. d \in SslObject
  BY DEF SslObject
<1>2. d.step = s.step
  BY DEF SslObject
<1>3. d.sent = s.sent /\ d.failed = s.failed
  BY DEF SslObject
<1>4. d.received = b
  BY DEF SslObject
<1> QED BY <1>1, <1>2, <1>3, <1>4

LEMMA TailTaken ==
  ASSUME ConnectionInv, NEW e \in Ends, bioread[e] # <<>>, bioread' = [bioread EXCEPT ![e] = Tail(@)],
         UNCHANGED <<biowrite, net>>
  PROVE  bioread' \in [Ends -> Stream] /\ Pending(Peer(e))' = Pending(Peer(e))
<1> DEFINE t == Tail(bioread[e])
<1>1. /\ bioread \in [Ends -> Stream] /\ Peer(e) \in Ends /\ Peer(e) # e
  BY Settled
<1>2. t \in Stream
  BY <1>1, FirstOf
<1>3. bioread' = [bioread EXCEPT ![e] = t]
  OBVIOUS
<1> HIDE DEF t
<1>4. bioread' \in [Ends -> Stream] /\ bioread'[Peer(e)] = bioread[Peer(e)]
  BY <1>1, <1>2, <1>3
<1> QED BY <1>4 DEF Pending

(* The peer's notification is taken.                                       *)
LEMMA CloseTaken ==
  ASSUME SslConstants, ConnectionInv, NEW e \in Ends, ssl[e].step = 2, bioread[e] # <<>>,
         Head(bioread[e]) = "close", bioread' = [bioread EXCEPT ![e] = Tail(@)],
         UNCHANGED <<biowrite, net, text, session>>,
         Flagged(e), ssl'[e].received, (ssl'[e].sent <=> ssl[e].sent)
  PROVE  ConnectionInv'
<1> DEFINE x == <<"close">>
           p == Peer(e)
<1>1. /\ p \in Ends /\ Peer(p) = e /\ SslTypes /\ biowrite \in [Ends -> Stream]
      /\ text \in [Ends -> [in : Seq(Plain), out : Seq(Plain)]]
      /\ Given(e) = Taken(p) \o Pending(p)
  BY Settled
<1>2. ~ ssl[e].received
  BY FirstWaiting
<1>3. x \in Stream
  BY DEF Stream, Record, Notices
<1>4. ssl'[e].step = ssl[e].step /\ Notice(ssl'[e].received) = x
      /\ Notice(ssl'[e].sent) = Notice(ssl[e].sent)
  BY DEF Flagged, Notice
<1>5. Given(e)' = Given(e)
  BY <1>4 DEF Given
<1>6. Taken(e)' = Taken(e) \o x
  <2>1. Taken(e)' = Heard(e, ssl[e].step) \o (text[e].out \o x)
    BY <1>4 DEF Taken
  <2> HIDE DEF x
  <2>2. Taken(e) \o x = Heard(e, ssl[e].step) \o (text[e].out \o x)
    BY <1>1, <1>2, <1>3, OpenStreams
  <2> QED BY <2>1, <2>2
<1>7. Given(p) = Taken(e)' \o Pending(e)'
  BY <1>6, Receives
<1>8. bioread' \in [Ends -> Stream] /\ Pending(p)' = Pending(p)
  BY TailTaken
<1>9. Given(e)' = Taken(p) \o Pending(p)'
  BY <1>1, <1>5, <1>8
<1> QED BY <1>1, <1>7, <1>8, <1>9, TalkKeeps

LEMMA ClearOutKeeps ==
  ASSUME SslConstants, ConnectionInv, NEW e \in Ends, ClearOut(e)
  PROVE  ConnectionInv'
<1> DEFINE p == Peer(e)
           close == bioread[e] # <<>> /\ Head(bioread[e]) = "close"
           data == bioread[e] # <<>> /\ ~ close /\ ~ ssl[e].received
           b == ssl[e].received \/ close
           d == [ssl[e] EXCEPT !.received = b]
<1>1. /\ p \in Ends /\ Peer(p) = e /\ p # e /\ SslTypes
      /\ bioread \in [Ends -> Stream] /\ biowrite \in [Ends -> Stream]
      /\ text \in [Ends -> [in : Seq(Plain), out : Seq(Plain)]]
      /\ ssl \in [Ends -> SslObject] /\ ssl[e] \in SslObject
      /\ Given(p) = Taken(e) \o Pending(e) /\ Given(e) = Taken(p) \o Pending(p)
  BY Settled
<1>2. /\ ssl[e].step = 2 /\ UNCHANGED <<biowrite, net, session>>
      /\ ssl' = [ssl EXCEPT ![e].received = @ \/ close]
      /\ text' = IF data THEN [text EXCEPT ![e].out = Append(@, Head(bioread[e]))] ELSE text
      /\ bioread' = IF data \/ close THEN [bioread EXCEPT ![e] = Tail(@)] ELSE bioread
      /\ con' = [con EXCEPT ![e] = SetShutdownFlags(
                   [@ EXCEPT !.err = HandleSslError(e, IF data THEN "none" ELSE "want_read")], ssl'[e])]
  BY DEF ClearOut
<1>3. close \in BOOLEAN /\ data \in BOOLEAN /\ b \in BOOLEAN /\ (b <=> ssl[e].received \/ close)
  BY <1>1, Pieces
<1>4. ~ ssl[e].received => (data <=> bioread[e] # <<>> /\ ~ close)
  OBVIOUS
<1>5. close => bioread[e] # <<>> /\ Head(bioread[e]) = "close"
  OBVIOUS
<1>6. data => bioread[e] # <<>> /\ Head(bioread[e]) # "close" /\ ~ ssl[e].received /\ ~ close
  OBVIOUS
<1>7. ssl' = [ssl EXCEPT ![e] = d]
  <2> HIDE DEF close
  <2> QED BY <1>2
<1>8. d \in SslObject /\ d.step = ssl[e].step /\ d.sent = ssl[e].sent /\ d.received = b /\ d.failed = ssl[e].failed
  <2> HIDE DEF b
  <2> QED BY <1>1, <1>3, ReceivedFields
<1> HIDE DEF close, data, b, d
<1>9. SslSet(e, d.sent, d.received, d.failed) /\ ssl'[e] = d
  BY <1>1, <1>7, <1>8, SslFields
<1>10. SslSet(e, ssl[e].sent, b, ssl[e].failed)
  BY <1>8, <1>9
<1>11. ConSet(e, con[e].err, d)
  <2>1. HandleSslError(e, IF data THEN "none" ELSE "want_read") = con[e].err /\ con[e].err \in {"none", "ssl"}
    BY <1>3, ErrKept
  <2> DEFINE x == con[e].err
  <2>2. con' = [con EXCEPT ![e] = SetShutdownFlags([@ EXCEPT !.err = x], d)]
    BY <1>2, <1>9, <2>1
  <2> HIDE DEF x
  <2>3. ConSet(e, x, d)
    BY <1>8, <2>1, <2>2, ConFields DEF x
  <2> QED BY <2>3 DEF x
<1>12. con[e].err # "none" <=> ssl[e].failed
  BY ErrKept
<1>13. Flagged(e)
  BY <1>3, <1>8, <1>10, <1>11, <1>12, FlagsAgree
<1>14. CASE close
  <2>1. ~ data
    BY <1>6, <1>14
  <2>2. text' = text /\ bioread' = [bioread EXCEPT ![e] = Tail(@)]
    BY <1>2, <1>14, <2>1
  <2>3. ssl'[e].received /\ (ssl'[e].sent <=> ssl[e].sent)
    BY <1>3, <1>10, <1>14 DEF SslSet
  <2> QED BY <1>2, <1>5, <1>13, <1>14, <2>2, <2>3, CloseTaken
<1>15. CASE data
  <2> DEFINE h == Head(bioread[e])
             o == text[e].out
             x == <<h>>
  <2>1. /\ text' = [text EXCEPT ![e].out = Append(@, h)] /\ bioread' = [bioread EXCEPT ![e] = Tail(@)]
        /\ bioread[e] # <<>> /\ ~ ssl[e].received /\ ~ ssl'[e].received
        /\ (ssl'[e].sent <=> ssl[e].sent) /\ ssl'[e].step = ssl[e].step
    BY <1>2, <1>3, <1>6, <1>10, <1>15 DEF SslSet
  <2>2. h \in Plain /\ h \in Record
    BY <1>2, <1>6, <1>15, FirstWaiting
  <2> HIDE DEF h
  <2>3. o \in Seq(Plain) /\ Append(o, h) = o \o x /\ Append(o, h) \in Seq(Plain)
    <3>1. o \in Seq(Plain)
      BY <1>1
    <3> QED BY <2>2, <3>1, Added
  <2>4. /\ text' \in [Ends -> [in : Seq(Plain), out : Seq(Plain)]] /\ text'[p] = text[p]
        /\ text'[e].out = o \o x /\ text'[e].in = text[e].in
    BY <1>1, <2>1, <2>3
  <2>5. x \in Stream
    BY <2>2 DEF Stream
  <2> HIDE DEF x
  <2>6. Taken(e)' = Taken(e) \o x
    <3> DEFINE g == Heard(e, ssl[e].step)
    <3>1. Taken(e)' = g \o ((o \o x) \o <<>>)
      BY <2>1, <2>4 DEF Taken, Notice
    <3>2. g \in Stream /\ o \in Stream
      BY <1>1, Pieces, Greetings
    <3>3. Taken(e) \o x = g \o (o \o x)
      BY <1>1, <2>1, <2>5, OpenStreams
    <3> HIDE DEF g, o
    <3>4. Extended(g, o, x)
      BY <2>5, <3>2, Extending
    <3> QED BY <3>1, <3>3, <3>4 DEF Extended
  <2>7. Given(p) = Taken(e)' \o Pending(e)'
    BY <1>2, <2>1, <2>6, Receives DEF x, h
  <2>8. bioread' \in [Ends -> Stream] /\ Pending(p)' = Pending(p)
    BY <1>2, <2>1, TailTaken
  <2>9. Given(e)' = Given(e)
    <3>1. Notice(ssl'[e].sent) = Notice(ssl[e].sent)
      BY <2>1 DEF Notice
    <3> QED BY <2>1, <2>4, <3>1 DEF Given
  <2>10. Given(e)' = Taken(p) \o Pending(p)'
    BY <1>1, <2>8, <2>9
  <2>11. biowrite' \in [Ends -> Stream]
    BY <1>1, <1>2
  <2> QED BY <1>2, <1>13, <2>4, <2>7, <2>8, <2>10, <2>11, TalkKeeps
<1>16. CASE ~ close /\ ~ data
  <2>1. UNCHANGED <<bioread, biowrite, net, text, session>>
    BY <1>2, <1>16
  <2>2. SslSet(e, ssl[e].sent, ssl[e].received, ssl[e].failed)
    BY <1>3, <1>10, <1>16 DEF SslSet
  <2>3. (d.sent <=> ssl[e].sent) /\ (d.received <=> ssl[e].received)
    BY <1>3, <1>8, <1>16
  <2> QED BY <1>11, <1>12, <2>1, <2>2, <2>3, SilentKeeps
<1> QED BY <1>3, <1>14, <1>15, <1>16

ShutSet(d, s, a, r, f) ==
  d \in SslObject /\ d.step = s.step /\ d.sent = a /\ d.received = r /\ d.failed = f

LEMMA ShutFields ==
  ASSUME NEW s \in SslObject, NEW a \in BOOLEAN, NEW r \in BOOLEAN, NEW f \in BOOLEAN
  PROVE  ShutSet([s EXCEPT !.sent = a, !.received = r, !.failed = f], s, a, r, f)
<1> DEFINE d == [s EXCEPT !.sent = a, !.received = r, !.failed = f]
<1>1. d \in SslObject
  BY DEF SslObject
<1>2. d.step = s.step
  BY DEF SslObject
<1>3. d.sent = a
  BY DEF SslObject
<1>4. d.received = r
  BY DEF SslObject
<1>5. d.failed = f
  BY DEF SslObject
<1> QED BY <1>1, <1>2, <1>3, <1>4, <1>5 DEF ShutSet

LEMMA ShutdownKeeps ==
  ASSUME SslConstants, ConnectionInv, NEW e \in Ends, ConnectionShutdown(e)
  PROVE  ConnectionInv'
<1> DEFINE p == Peer(e)
           early == ssl[e].step # 2
           again == ~ early /\ ssl[e].sent
           close == again /\ bioread[e] # <<>> /\ Head(bioread[e]) = "close"
           fails == early \/ (again /\ ~ close /\ bioread[e] # <<>>)
           a == ssl[e].sent \/ ~ early
           r == ssl[e].received \/ close
           f == ssl[e].failed \/ fails
           x == IF fails THEN "ssl" ELSE con[e].err
           d == [ssl[e] EXCEPT !.sent = a, !.received = r, !.failed = f]
<1>1. /\ p \in Ends /\ Peer(p) = e /\ p # e /\ SslTypes
      /\ bioread \in [Ends -> Stream] /\ biowrite \in [Ends -> Stream]
      /\ text \in [Ends -> [in : Seq(Plain), out : Seq(Plain)]]
      /\ ssl \in [Ends -> SslObject] /\ ssl[e] \in SslObject
      /\ Given(p) = Taken(e) \o Pending(e) /\ Given(e) = Taken(p) \o Pending(p)
      /\ ssl[e].step # 2 => ~ ssl[e].sent /\ ~ ssl[e].received
  BY Settled
<1>2. /\ ssl' = [ssl EXCEPT ![e].sent = @ \/ ~ early, ![e].received = @ \/ close, ![e].failed = @ \/ fails]
      /\ biowrite' = (IF early \/ again THEN biowrite ELSE [biowrite EXCEPT ![e] = Append(@, "close")])
      /\ bioread' = (IF close THEN [bioread EXCEPT ![e] = Tail(@)] ELSE bioread)
      /\ con' = [con EXCEPT ![e] = SetShutdownFlags([@ EXCEPT !.err =
                  HandleSslError(e, IF fails THEN "ssl" ELSE "want_read")], ssl'[e])]
      /\ UNCHANGED <<net, text, session>>
  BY DEF ConnectionShutdown
<1>3. ssl[e].sent \in BOOLEAN /\ ssl[e].received \in BOOLEAN /\ ssl[e].failed \in BOOLEAN
  BY <1>1 DEF SslObject
<1>4. early \in BOOLEAN /\ again \in BOOLEAN /\ close \in BOOLEAN /\ fails \in BOOLEAN
  BY <1>3
<1>5. a \in BOOLEAN /\ r \in BOOLEAN /\ f \in BOOLEAN
  BY <1>3, <1>4
<1>6. /\ (early <=> ssl[e].step # 2) /\ (again <=> ssl[e].step = 2 /\ ssl[e].sent)
      /\ (close => again /\ bioread[e] # <<>> /\ Head(bioread[e]) = "close")
      /\ (fails => ~ close)
      /\ (a <=> ssl[e].sent \/ ~ early) /\ (r <=> ssl[e].received \/ close) /\ (f <=> ssl[e].failed \/ fails)
  OBVIOUS
<1>7. ssl' = [ssl EXCEPT ![e] = d]
  <2> DEFINE s == ssl[e]
             u == [s EXCEPT !.sent = a]
             v == [u EXCEPT !.received = r]
  <2>1. s \in SslObject
    BY <1>1
  <2> HIDE DEF early, again, close, fails
  <2> DEFINE S == [ssl EXCEPT ![e].sent = @ \/ ~ early]
             R == [S EXCEPT ![e].received = @ \/ close]
  <2>2. ssl' = [R EXCEPT ![e].failed = @ \/ fails]
    BY <1>2
  <2>3. u.received = s.received
    BY <2>1 DEF SslObject
  <2>4. v.failed = s.failed
    BY <2>1 DEF SslObject
  <2>5. S = [ssl EXCEPT ![e] = u]
    OBVIOUS
  <2> HIDE DEF S
  <2>6. R = [ssl EXCEPT ![e] = v]
    <3>1. S[e] = u
      BY <1>1, <2>5
    <3>2. R = [S EXCEPT ![e] = v]
      BY <2>3, <3>1
    <3> HIDE DEF R, u, v
    <3> QED BY <1>1, <2>5, <3>2
  <2> HIDE DEF R
  <2>7. R[e] = v
    BY <1>1, <2>6
  <2>8. ssl' = [R EXCEPT ![e] = [v EXCEPT !.failed = f]]
    BY <2>2, <2>4, <2>7
  <2>9. d = [v EXCEPT !.failed = f]
    OBVIOUS
  <2> HIDE DEF v, d
  <2> QED BY <1>1, <2>6, <2>8, <2>9
<1>8. d \in SslObject /\ d.step = ssl[e].step /\ d.sent = a /\ d.received = r /\ d.failed = f
  <2> HIDE DEF a, r, f
  <2>1. ShutSet(d, ssl[e], a, r, f)
    BY <1>1, <1>5, ShutFields
  <2> QED BY <2>1 DEF ShutSet
<1>9. /\ HandleSslError(e, IF fails THEN "ssl" ELSE "want_read") = x /\ x \in {"none", "ssl"}
      /\ (x # "none" <=> f)
  <2> HIDE DEF fails
  <2> QED BY <1>4, ErrKept
<1> HIDE DEF early, again, close, fails, a, r, f, x, d
<1>10. SslSet(e, d.sent, d.received, d.failed) /\ ssl'[e] = d
  BY <1>1, <1>7, <1>8, SslFields
<1>11. SslSet(e, a, r, f)
  BY <1>8, <1>10
<1>12. ConSet(e, x, d)
  <2>1. con' = [con EXCEPT ![e] = SetShutdownFlags([@ EXCEPT !.err = x], d)]
    BY <1>2, <1>9, <1>10
  <2> QED BY <1>8, <1>9, <2>1, ConFields
<1>13. Flagged(e)
  BY <1>6, <1>8, <1>9, <1>11, <1>12, FlagsAgree
<1>14. CASE close
  <2>1. ssl[e].step = 2 /\ bioread' = [bioread EXCEPT ![e] = Tail(@)] /\ biowrite' = biowrite
    BY <1>2, <1>4, <1>6, <1>14
  <2>2. ssl'[e].received /\ (ssl'[e].sent <=> ssl[e].sent)
    BY <1>6, <1>11, <1>14 DEF SslSet
  <2> QED BY <1>2, <1>6, <1>13, <1>14, <2>1, <2>2, CloseTaken
<1>15. CASE ~ close /\ (early \/ again)
  <2>1. UNCHANGED <<bioread, biowrite, net, text, session>>
    BY <1>2, <1>15
  <2>2. (a <=> ssl[e].sent) /\ (r <=> ssl[e].received)
    BY <1>3, <1>4, <1>6, <1>15
  <2>3. SslSet(e, ssl[e].sent, ssl[e].received, f)
    BY <1>11, <2>2 DEF SslSet
  <2>4. (d.sent <=> ssl[e].sent) /\ (d.received <=> ssl[e].received)
    BY <1>8, <2>2
  <2> QED BY <1>9, <1>12, <2>1, <2>3, <2>4, SilentKeeps
<1>16. CASE ~ close /\ ~ early /\ ~ again
  <2> DEFINE y == <<"close">>
  <2>1. /\ bioread' = bioread /\ biowrite' = [biowrite EXCEPT ![e] = Append(@, "close")]
        /\ ssl[e].step = 2 /\ ~ ssl[e].sent
    BY <1>2, <1>6, <1>16
  <2>2. ssl'[e].sent /\ (ssl'[e].received <=> ssl[e].received) /\ ssl'[e].step = ssl[e].step
    BY <1>6, <1>11, <1>16 DEF SslSet
  <2>3. "close" \in Record /\ y \in Stream
    BY DEF Record, Notices, Stream
  <2>4. Given(e)' = Given(e) \o y
    <3>1. Given(e)' = Greeting(e, ssl[e].step) \o (text[e].in \o y)
      BY <1>2, <2>2 DEF Given, Notice
    <3> HIDE DEF y
    <3>2. Given(e) \o y = Greeting(e, ssl[e].step) \o (text[e].in \o y)
      BY <1>1, <2>1, <2>3, OpenStreams
    <3> QED BY <3>1, <3>2
  <2>5. /\ Given(e)' = Taken(p) \o Pending(p)' /\ biowrite' \in [Ends -> Stream]
        /\ Pending(e)' = Pending(e)
    BY <1>2, <2>1, <2>3, <2>4, Emits
  <2>6. Taken(e)' = Taken(e)
    <3>1. Notice(ssl'[e].received) = Notice(ssl[e].received)
      BY <2>2 DEF Notice
    <3> QED BY <1>2, <2>2, <3>1 DEF Taken
  <2>7. Given(p) = Taken(e)' \o Pending(e)' /\ bioread' \in [Ends -> Stream]
    BY <1>1, <2>1, <2>5, <2>6
  <2>8. text' \in [Ends -> [in : Seq(Plain), out : Seq(Plain)]] /\ text'[p] = text[p]
    BY <1>1, <1>2
  <2> QED BY <1>2, <1>13, <2>1, <2>5, <2>7, <2>8, TalkKeeps
<1> QED BY <1>4, <1>14, <1>15, <1>16

LEMMA CloseKeepsStreams ==
  ASSUME ConnectionInv, NEW e \in Ends, ConnectionClose(e)
  PROVE  ConnectionInv'
<1> DEFINE d == [ssl[e] EXCEPT !.live = FALSE]
<1>1. /\ Peer(e) \in Ends /\ Peer(Peer(e)) = e /\ SslTypes /\ ssl[e] \in SslObject
      /\ bioread \in [Ends -> Stream] /\ biowrite \in [Ends -> Stream]
      /\ Given(Peer(e)) = Taken(e) \o Pending(e) /\ Given(e) = Taken(Peer(e)) \o Pending(Peer(e))
  BY Settled
<1>2. ssl' = [ssl EXCEPT ![e] = d] /\ UNCHANGED <<bioread, biowrite, net, con, text, session>>
  BY DEF ConnectionClose
<1>3. d \in SslObject
  BY <1>1 DEF SslObject
<1>4. d.step = ssl[e].step
  BY <1>1 DEF SslObject
<1>5. d.sent = ssl[e].sent /\ d.received = ssl[e].received
  BY <1>1 DEF SslObject
<1>6. d.failed = ssl[e].failed
  BY <1>1 DEF SslObject
<1> HIDE DEF d
<1>7. SslSet(e, d.sent, d.received, d.failed) /\ ssl'[e] = d
  BY <1>1, <1>2, <1>3, <1>4, SslFields
<1>8. SslTypes'
  BY <1>1, <1>2, <1>7 DEF SslTypes, SslSet
<1>9. EndOf(e) /\ EndOf(e)'
  BY <1>2, <1>4, <1>5, <1>6, <1>7 DEF ConnectionInv, EndInv, EndOf
<1>10. ssl'[Peer(e)] = ssl[Peer(e)] /\ con'[Peer(e)] = con[Peer(e)] /\ text'[Peer(e)] = text[Peer(e)]
  BY <1>2, <1>7 DEF SslSet
<1>11. ServerInv'
  BY <1>2, <1>4, <1>7, <1>10, ServerStays
<1>12. /\ Given(e)' = Given(e) /\ Taken(e)' = Taken(e) /\ Pending(e)' = Pending(e)
       /\ Pending(Peer(e))' = Pending(Peer(e))
  BY <1>2, <1>4, <1>5, <1>7 DEF Given, Taken, Pending
<1> QED BY <1>1, <1>8, <1>9, <1>10, <1>11, <1>12, EndStep

LEMMA NextFields ==
  ASSUME NEW c \in Con, NEW s \in Sessions
  PROVE  LET d == [c EXCEPT !.next = s]
         IN /\ d \in Con /\ d.err = c.err /\ d.next = s /\ d.cert = c.cert
            /\ d.sent = c.sent /\ d.received = c.received /\ d.request = c.request /\ d.reject = c.reject
<1> DEFINE d == [c EXCEPT !.next = s]
<1>1. d \in Con
  BY DEF Con
<1>2. d.err = c.err /\ d.next = s /\ d.cert = c.cert
  BY DEF Con
<1>3. d.sent = c.sent /\ d.received = c.received
  BY DEF Con
<1>4. d.request = c.request /\ d.reject = c.reject
  BY DEF Con
<1> QED BY <1>1, <1>2, <1>3, <1>4

(* A session that is loaded replaces the one that was waiting.             *)
LEMMA LoadKeeps ==
  ASSUME SslConstants, ConnectionInv, NEW s \in Sessions, LoadSession(s)
  PROVE  ConnectionInv'
<1> DEFINE e == "server"
           d == [con[e] EXCEPT !.next = s]
<1>0. e \in Ends
  BY DEF Ends
<1>1. /\ Peer(e) \in Ends /\ Peer(Peer(e)) = e /\ Peer(e) # e /\ SslTypes
      /\ Given(Peer(e)) = Taken(e) \o Pending(e) /\ Given(e) = Taken(Peer(e)) \o Pending(Peer(e))
  BY <1>0, Settled
<1>2. /\ session[s] = "free" /\ con' = [con EXCEPT ![e] = d]
      /\ session' = [t \in Sessions |-> IF t = s THEN "loaded" ELSE IF t = con[e].next THEN "freed"
                                        ELSE session[t]]
      /\ UNCHANGED <<bioread, biowrite, net, ssl, text>>
  BY DEF LoadSession
<1>3. con \in [Ends -> Con] /\ con[e] \in Con
  BY <1>0, <1>1 DEF SslTypes
<1>4. /\ d \in Con /\ d.err = con[e].err /\ d.next = s /\ d.cert = con[e].cert
      /\ d.sent = con[e].sent /\ d.received = con[e].received
      /\ d.request = con[e].request /\ d.reject = con[e].reject
  BY <1>3, NextFields
<1> HIDE DEF d
<1>5. con' \in [Ends -> Con] /\ con'[e] = d /\ con'[Peer(e)] = con[Peer(e)]
  BY <1>0, <1>1, <1>2, <1>3, <1>4
<1>6. session' \in [Sessions -> {"free", "loaded", "given", "freed"}]
  BY <1>1, <1>2 DEF SslTypes
<1>7. SslTypes'
  BY <1>1, <1>2, <1>5, <1>6 DEF SslTypes
<1>8. EndOf(e)'
  BY <1>0, <1>2, <1>4, <1>5 DEF ConnectionInv, EndInv, EndOf
<1>9. SessionsInv'
  <2>1. \A t \in Sessions : session[t] = "loaded" => t = con[e].next
    BY DEF ConnectionInv, ServerInv, SessionsInv
  <2>2. con'["server"].next = s /\ session'[s] = "loaded"
    BY <1>2, <1>4, <1>5
  <2>3. \A t \in Sessions : session'[t] = "loaded" => t = s
    BY <1>2, <2>1
  <2> QED BY <2>2, <2>3 DEF SessionsInv
<1>10. CertInv'
  BY <1>2, <1>4, <1>5 DEF ConnectionInv, ServerInv, CertInv
<1>11. /\ Given(e)' = Given(e) /\ Taken(e)' = Taken(e) /\ Pending(e)' = Pending(e)
       /\ Pending(Peer(e))' = Pending(Peer(e))
  BY <1>2 DEF Given, Taken, Pending
<1>12. ssl'[Peer(e)] = ssl[Peer(e)] /\ text'[Peer(e)] = text[Peer(e)] /\ ServerInv'
  BY <1>2, <1>9, <1>10 DEF ServerInv
<1> HIDE DEF e
<1> QED BY <1>0, <1>1, <1>5, <1>7, <1>8, <1>11, <1>12, EndStep

LEMMA ConnectionStarts ==
  ASSUME SslConstants, InitConnection
  PROVE  ConnectionInv
<1> DEFINE o == [step |-> 0, sent |-> FALSE, received |-> FALSE, live |-> TRUE, failed |-> FALSE]
<1>1. /\ bioread = [e \in Ends |-> <<>>] /\ biowrite = bioread /\ net = bioread
      /\ ssl = [e \in Ends |-> o] /\ text = [e \in Ends |-> [in |-> <<>>, out |-> <<>>]]
      /\ session = [s \in Sessions |-> "free"]
  BY DEF InitConnection
<1>2. PICK request \in BOOLEAN, reject \in BOOLEAN, cert \in {"none", "bad", "good"} :
        con = [e \in Ends |-> [err |-> "none", sent |-> FALSE, received |-> FALSE, next |-> "none",
                               request |-> request, reject |-> reject, cert |-> cert]]
  BY DEF InitConnection
<1> DEFINE c == [err |-> "none", sent |-> FALSE, received |-> FALSE, next |-> "none",
                 request |-> request, reject |-> reject, cert |-> cert]
<1>3. c \in Con /\ o \in SslObject
  <2>1. c \in Con
    BY DEF Con
  <2>2. o \in SslObject
    BY DEF SslObject
  <2> QED BY <2>1, <2>2
<1>4. c.err = "none" /\ c.next = "none" /\ c.sent = FALSE /\ c.received = FALSE
  OBVIOUS
<1>5. o.step = 0 /\ o.sent = FALSE /\ o.received = FALSE /\ o.failed = FALSE
  OBVIOUS
<1> HIDE DEF c, o
<1>6. \A e \in Ends : /\ con[e] = c /\ ssl[e] = o /\ text[e].in = <<>> /\ text[e].out = <<>>
                      /\ bioread[e] = <<>> /\ biowrite[e] = <<>> /\ net[e] = <<>>
  BY <1>1, <1>2 DEF c
<1>7. SslTypes
  <2>1. con \in [Ends -> Con] /\ ssl \in [Ends -> SslObject]
    BY <1>1, <1>2, <1>3 DEF c
  <2>2. /\ bioread \in [Ends -> Seq(Record)] /\ biowrite \in [Ends -> Seq(Record)]
        /\ net \in [Ends -> Seq(Record)] /\ text \in [Ends -> [in : Seq(Plain), out : Seq(Plain)]]
    BY <1>1
  <2>3. session \in [Sessions -> {"free", "loaded", "given", "freed"}]
    BY <1>1
  <2> QED BY <2>1, <2>2, <2>3 DEF SslTypes
<1>8. EndInv
  BY <1>4, <1>5, <1>6 DEF EndInv, EndOf
<1>9. ServerInv
  <2>1. "server" \in Ends
    BY DEF Ends
  <2>2. con["server"].next = "none" /\ ssl["server"].step = 0
    BY <1>4, <1>5, <1>6, <2>1
  <2>3. CertInv
    BY <2>2 DEF CertInv
  <2>4. SessionsInv
    BY <1>1, <2>2 DEF SessionsInv
  <2> QED BY <2>3, <2>4 DEF ServerInv
<1>10. StreamInv
  <2>1. <<>> \o <<>> = <<>>
    BY Empty
  <2>2. \A e \in Ends : Given(e) = <<>> /\ Taken(e) = <<>>
    BY <1>5, <1>6, <2>1 DEF Given, Taken, Greeting, Heard, Notice
  <2>3. \A e \in Ends : Pending(e) = <<>> /\ Peer(e) \in Ends
    BY <1>6, <2>1, Peers DEF Pending
  <2> QED BY <2>1, <2>2, <2>3 DEF StreamInv
<1> QED BY <1>7, <1>8, <1>9, <1>10 DEF ConnectionInv

LEMMA ConnectionSteps ==
  ASSUME SslConstants, ConnectionInv, ConnectionNext
  PROVE  ConnectionInv'
<1>1. ASSUME NEW e \in Ends,
             \/ HandshakeStep(e) \/ ConnectionRead(e) \/ ConnectionWrite(e)
             \/ ClearIn(e) \/ ClearOut(e) \/ ConnectionShutdown(e) \/ ConnectionClose(e)
      PROVE  ConnectionInv'
  BY <1>1, HandshakeKeeps, ReadKeeps, WriteKeeps, ClearInKeeps, ClearOutKeeps, ShutdownKeeps,
     CloseKeepsStreams
<1>2. ASSUME NEW free, free = {s \in Sessions : session[s] = "free"}, free # {},
             LoadSession(CHOOSE s \in free : TRUE)
      PROVE  ConnectionInv'
  <2>1. (CHOOSE s \in free : TRUE) \in Sessions
    BY <1>2
  <2> QED BY <1>2, <2>1, LoadKeeps
<1> QED BY <1>1, <1>2 DEF ConnectionNext

LEMMA ConnectionStays ==
  ASSUME ConnectionInv, UNCHANGED connectionVars
  PROVE  ConnectionInv'
<1>1. SslTypes' /\ EndInv' /\ ServerInv'
  BY DEF ConnectionInv, connectionVars, SslTypes, EndInv, EndOf, ServerInv, CertInv, SessionsInv
<1>2. StreamInv'
  BY DEF ConnectionInv, connectionVars, StreamInv, Given, Taken, Pending
<1> QED BY <1>1, <1>2 DEF ConnectionInv

LEMMA SslSocketStays ==
  ASSUME SslSocketInv, UNCHANGED sslSocketVars
  PROVE  SslSocketInv'
BY DEF SslSocketInv, sslSocketVars, ConnTypes, ConnInv, ReaderInv

(* For any texts and any sessions: an end gets what its peer gave, in      *)
(* order, after both handshakes; the notifications, err and the waiting    *)
(* session mean what they say; and the SSL object of a socket is freed     *)
(* once and used afterwards only where SslKept admits it.                  *)
THEOREM SecureIsExact ==
  ASSUME SslConstants
  PROVE  SecureSpec => []SecureChannels
<1> DEFINE Inv == SslSocketInv /\ ConnectionInv
<1>1. InitConnection /\ InitSslSocket => Inv
  BY ConnectionStarts, SslSocketStarts
<1>2. ASSUME Inv, [SecureNext]_secureVars
      PROVE  Inv'
  <2>1. CASE ConnectionNext /\ UNCHANGED sslSocketVars
    BY <1>2, <2>1, ConnectionSteps, SslSocketStays
  <2>2. CASE SslSocketNext /\ UNCHANGED connectionVars
    BY <1>2, <2>2, SslSocketSteps, ConnectionStays
  <2>3. CASE UNCHANGED secureVars
    <3>1. UNCHANGED connectionVars /\ UNCHANGED sslSocketVars
      BY <2>3 DEF secureVars
    <3> QED BY <1>2, <3>1, ConnectionStays, SslSocketStays
  <2> QED BY <1>2, <2>1, <2>2, <2>3 DEF SecureNext
<1>3. Inv => SecureChannels
  BY SslSocketKept, ConnectionIsExact DEF SecureChannels
<1> QED BY <1>1, <1>2, <1>3, PTL DEF SecureSpec
=============================================================================
