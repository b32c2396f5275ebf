---------------------------- MODULE SslConnection ----------------------------
(***************************************************************************)
(* Two ssl-connections of bglssl.c, a client and a server, that talk to    *)
(* each other.  The SSL object of a connection reads from one memory BIO   *)
(* and writes to another; the program carries the bytes between the BIOs   *)
(* and its transport (connection-read takes from bio-write, connection-    *)
(* write puts into bio-read), and the clear text through clear-in and      *)
(* clear-out.  The SSL library is external: handshake in three records,    *)
(* data records and the close notification.                                *)
(***************************************************************************)
EXTENDS Integers, Sequences, FiniteSets

CONSTANTS Texts,     \* the clear texts that each side sends, in order (a bound)
          Sessions   \* serialised sessions that the server may load

Ends == {"client", "server"}
Peer(e) == IF e = "client" THEN "server" ELSE "client"

VARIABLES
  bioread,     \* per end: records in its $bio-read
  biowrite,    \* per end: records in its $bio-write
  net,         \* per end: records on their way to it
  ssl,         \* per end: the state of the SSL object (external)
  con,         \* per end: the fields of the ssl-connection object
  text,        \* per end: clear text given to clear-in, and got from clear-out
  session      \* per session: loaded, given to the library, or freed

connectionVars == <<bioread, biowrite, net, ssl, con, text, session>>

InitConnection ==
  /\ bioread = [e \in Ends |-> <<>>] /\ biowrite = bioread /\ net = bioread
  /\ ssl = [e \in Ends |-> [step |-> 0, sent |-> FALSE, received |-> FALSE, live |-> TRUE,
                         failed |-> FALSE]]
  /\ \E request, reject \in BOOLEAN, cert \in {"none", "bad", "good"} :
       con = [e \in Ends |-> [err |-> "none", sent |-> FALSE, received |-> FALSE, next |-> "none",
                              request |-> request, reject |-> reject, cert |-> cert]]
  /\ text = [e \in Ends |-> [in |-> <<>>, out |-> <<>>]]
  /\ session = [s \in Sessions |-> "free"]

(* SSL_connect and SSL_accept: the record an end waits for at each step,   *)
(* and the one it sends.  1: finished, -1: wants to read or failed.        *)
Awaits(e) == CASE e = "client" /\ ssl[e].step = 0 -> "nothing"
               [] e = "client" /\ ssl[e].step = 1 -> "reply"
               [] e = "server" /\ ssl[e].step = 0 -> "hello"
               [] OTHER -> "finish"
Sends(e)  == CASE e = "client" /\ ssl[e].step = 0 -> <<"hello">>
               [] e = "client" /\ ssl[e].step = 1 -> <<"finish">>
               [] e = "server" /\ ssl[e].step = 0 -> <<"reply">>
               [] OTHER -> <<>>
CanStep(e) == Awaits(e) = "nothing" \/ (bioread[e] # <<>> /\ Head(bioread[e]) = Awaits(e))

(* The verify mode of connection_init: a server that requests a certificate*)
(* and rejects the unauthorized fails the handshake when there is none.    *)
(* bgl_verify_callback lets every certificate through.                     *)
Rejected(e) == e = "server" /\ ssl[e].step = 1 /\ con[e].request /\ con[e].reject
                 /\ con[e].cert = "none"

(* Mutant: an unfinished handshake counts as an error.                     *)
ErrorAlways(e, err) == IF err = "none" THEN con[e].err ELSE err

(* handle_ssl_error: wanting to read or write leaves err alone.            *)
HandleSslError(e, err) == IF err \in {"none", "want_read", "want_write"} THEN con[e].err ELSE err

(* bgl_get_session_callback: the library takes the loaded session.         *)
GetSession(e, next) ==
  /\ con' = [con EXCEPT ![e].err = HandleSslError(e, next), ![e].next =
               IF e = "server" /\ ssl[e].step = 0 /\ CanStep(e) THEN "none" ELSE @]
  /\ session' = IF e = "server" /\ ssl[e].step = 0 /\ CanStep(e) /\ con[e].next # "none"
                THEN [session EXCEPT ![con[e].next] = "given"] ELSE session

(* One call of SSL_connect or SSL_accept, by start or before clear-in and  *)
(* clear-out.                                                              *)
HandshakeStep(e) ==
  /\ ssl[e].live /\ ssl[e].step \in 0 .. 1
  /\ IF ~CanStep(e)
     THEN GetSession(e, "want_read") /\ UNCHANGED <<bioread, biowrite, ssl>>
     ELSE /\ GetSession(e, IF Rejected(e) THEN "ssl" ELSE "want_read")
          /\ bioread' = [bioread EXCEPT ![e] = IF Awaits(e) = "nothing" THEN @ ELSE Tail(@)]
          /\ biowrite' = [biowrite EXCEPT ![e] = @ \o Sends(e)]
          /\ ssl' = [ssl EXCEPT ![e].step = IF Rejected(e) THEN 3 ELSE @ + 1,
                                  ![e].failed = @ \/ Rejected(e)]
  /\ UNCHANGED <<net, text>>

(* Mutant: the flags are taken one for the other.                          *)
FlagsSwapped(c, s) == [c EXCEPT !.sent = @ \/ s.received, !.received = @ \/ s.sent]

(* set_shutdown_flags.                                                     *)
SetShutdownFlags(c, s) == [c EXCEPT !.sent = @ \/ s.sent, !.received = @ \/ s.received]

(* connection-read: records leave bio-write for the transport, some or all.*)
ConnectionRead(e) ==
  /\ ssl[e].live /\ biowrite[e] # <<>>
  /\ \E n \in 1 .. Len(biowrite[e]) :
       /\ net' = [net EXCEPT ![Peer(e)] = @ \o SubSeq(biowrite[e], 1, n)]
       /\ biowrite' = [biowrite EXCEPT ![e] = SubSeq(@, n + 1, Len(@))]
  /\ con' = [con EXCEPT ![e] = SetShutdownFlags(@, ssl[e])]
  /\ UNCHANGED <<bioread, ssl, text, session>>

(* connection-write: what the transport brought goes into bio-read.        *)
ConnectionWrite(e) ==
  /\ ssl[e].live /\ net[e] # <<>>
  /\ \E n \in 1 .. Len(net[e]) :
       /\ bioread' = [bioread EXCEPT ![e] = @ \o SubSeq(net[e], 1, n)]
       /\ net' = [net EXCEPT ![e] = SubSeq(@, n + 1, Len(@))]
  /\ con' = [con EXCEPT ![e] = SetShutdownFlags(@, ssl[e])]
  /\ UNCHANGED <<biowrite, ssl, text, session>>

(* clear-in: SSL_write, refused after this end has sent its notification.  *)
ClearIn(e) ==
  /\ ssl[e].live /\ ssl[e].step = 2 /\ Len(text[e].in) < Len(Texts)
  /\ LET d == Texts[Len(text[e].in) + 1] IN
     IF ssl[e].sent
     THEN /\ con' = [con EXCEPT ![e] = SetShutdownFlags([@ EXCEPT !.err = HandleSslError(e, "ssl")], ssl[e])]
          /\ ssl' = [ssl EXCEPT ![e].failed = TRUE]
          /\ UNCHANGED <<biowrite, text>>
     ELSE /\ biowrite' = [biowrite EXCEPT ![e] = Append(@, d)]
          /\ text' = [text EXCEPT ![e].in = Append(@, d)]
          /\ con' = [con EXCEPT ![e] = SetShutdownFlags(@, ssl[e])]
          /\ UNCHANGED ssl
  /\ UNCHANGED <<bioread, net, session>>

(* clear-out: SSL_read.  The notification of the peer makes it return 0,   *)
(* which is not an error here.                                             *)
ClearOut(e) ==
  LET close == bioread[e] # <<>> /\ Head(bioread[e]) = "close"
      data  == bioread[e] # <<>> /\ ~close /\ ~ssl[e].received
  IN /\ ssl[e].live /\ ssl[e].step = 2
     /\ ssl' = [ssl EXCEPT ![e].received = @ \/ close]
     /\ text' = IF data THEN [text EXCEPT ![e].out = Append(@, Head(bioread[e]))] ELSE text
     /\ bioread' = IF data \/ close THEN [bioread EXCEPT ![e] = Tail(@)] ELSE bioread
     /\ con' = [con EXCEPT ![e] = SetShutdownFlags(
                  [@ EXCEPT !.err = HandleSslError(e, IF data THEN "none" ELSE "want_read")], ssl'[e])]
     /\ UNCHANGED <<biowrite, net, session>>

(* connection-shutdown: SSL_shutdown fails before the handshake is over,   *)
(* sends the notification the first time, and then looks for the other's.  *)
ConnectionShutdown(e) ==
  LET early == ssl[e].step # 2
      again == ~early /\ ssl[e].sent
      close == again /\ bioread[e] # <<>> /\ Head(bioread[e]) = "close"
      fails == early \/ (again /\ ~close /\ bioread[e] # <<>>)
  IN /\ ssl[e].live
     /\ ssl' = [ssl EXCEPT ![e].sent = @ \/ ~early, ![e].received = @ \/ close, ![e].failed = @ \/ fails]
     /\ biowrite' = IF early \/ again THEN biowrite ELSE [biowrite EXCEPT ![e] = Append(@, "close")]
     /\ bioread' = IF close THEN [bioread EXCEPT ![e] = Tail(@)] ELSE bioread
     /\ con' = [con EXCEPT ![e] = SetShutdownFlags([@ EXCEPT !.err = 
                  HandleSslError(e, IF fails THEN "ssl" ELSE "want_read")], ssl'[e])]
     /\ UNCHANGED <<net, text, session>>

(* connection-close frees the SSL object and, with it, both BIOs.          *)
ConnectionClose(e) ==
  /\ ssl[e].live
  /\ ssl' = [ssl EXCEPT ![e].live = FALSE]
  /\ UNCHANGED <<bioread, biowrite, net, con, text, session>>

(* Mutant: the library's session is freed, not the one still waiting.      *)
LoadFreesGiven(s) ==
  /\ session[s] = "free" /\ ssl["server"].live
  /\ session' = [t \in Sessions |-> IF t = s THEN "loaded" ELSE IF session[t] = "given" THEN "freed"
                                    ELSE session[t]]
  /\ con' = [con EXCEPT !["server"].next = s]
  /\ UNCHANGED <<bioread, biowrite, net, ssl, text>>

(* load-session: a session that was not taken yet is freed and replaced.   *)
LoadSession(s) ==
  /\ session[s] = "free" /\ ssl["server"].live
  /\ session' = [t \in Sessions |-> IF t = s THEN "loaded" ELSE IF t = con["server"].next THEN "freed"
                                    ELSE session[t]]
  /\ con' = [con EXCEPT !["server"].next = s]
  /\ UNCHANGED <<bioread, biowrite, net, ssl, text>>

ConnectionNext ==
  \/ \E e \in Ends : \/ HandshakeStep(e) \/ ConnectionRead(e) \/ ConnectionWrite(e)
                     \/ ClearIn(e) \/ ClearOut(e) \/ ConnectionShutdown(e) \/ ConnectionClose(e)
  \/ LET free == {s \in Sessions : session[s] = "free"}   \* one is as good as another
     IN free # {} /\ LoadSession(CHOOSE s \in free : TRUE)

(* What one end gets is what the other gave, in order, and only after both *)
(* finished.  received-shutdown means that the peer really sent its        *)
(* notification after all its text was taken; sent-shutdown that this end  *)
(* did.  err is set by every failure, and never by a handshake or a read   *)
(* that must wait for the peer.  A server that insists on a certificate    *)
(* has one when it finishes, and a session is given to the library or      *)
(* freed, never both.                                                      *)
ConnectionExact ==
  \A e \in Ends :
    /\ \E n \in 0 .. Len(text[Peer(e)].in) : text[e].out = SubSeq(text[Peer(e)].in, 1, n)
    /\ text[e].out # <<>> => ssl[e].step = 2 /\ ssl[Peer(e)].step = 2
    /\ con[e].received => con[Peer(e)].sent /\ text[e].out = text[Peer(e)].in
    /\ con[e].sent => ssl[e].sent
    /\ con[e].err # "none" <=> ssl[e].failed
    /\ ssl["server"].step = 2 /\ con["server"].request /\ con["server"].reject
         => con["server"].cert # "none"
    /\ con["server"].next # "none" => session[con["server"].next] = "loaded"
    /\ Cardinality({s \in Sessions : session[s] = "loaded"}) <= 1

(***************************************************************************)
(* An SSL socket of api/ssl/src/C/bglssl.c.  A connected socket is given an*)
(* SSL object: its input port reads through sslread, its output port writes*)
(* through sslwrite, and the close hook of the socket frees the object.    *)
(* One thread reads, another writes and closes.  sslread marks itself in   *)
(* the socket's drag list under ssl_mutex, reads without the mutex, and    *)
(* takes the mark off: the hook must not free the object under its feet.   *)
(***************************************************************************)
VARIABLES
  sslmutex,    \* "free", or "lost" once an error was raised with ssl_mutex held
  conn,        \* the socket, its ports and its SSL object
  sslreader,   \* where the reading thread is
  sslcloser,   \* where the closing thread is
  badUses      \* uses of the SSL object after SSL_free

sslSocketVars == <<sslmutex, conn, sslreader, sslcloser, badUses>>

(* phase: plain, handshake, secure, refused (peer certificate) or failed;  *)
(* ssl: the SSL object; reading: the mark of the drag list; out: bytes wait*)
(* in the output buffer; closes: how often each descriptor was closed.     *)
InitSslSocket ==
  /\ sslmutex = "free" /\ sslcloser = "idle" /\ badUses = {}
  /\ sslreader = [at |-> "idle", late |-> FALSE]
  /\ conn = [phase |-> "plain", ssl |-> "none", reading |-> FALSE, fd |-> TRUE,
             in |-> "open", out |-> "open", pending |-> FALSE, eof |-> FALSE,
             frees |-> 0, inCloses |-> 0, outCloses |-> 0]

(* socket_enable_ssl up to the handshake.  An error on this way is raised  *)
(* with the mutex held, which is never released again.                     *)
SocketEnableSsl ==
  /\ conn.phase = "plain" /\ conn.fd /\ sslmutex = "free" /\ sslcloser = "idle"
  /\ \/ /\ conn' = [conn EXCEPT !.phase = "handshake", !.ssl = "live"] /\ UNCHANGED sslmutex
     \/ sslmutex' = "lost" /\ conn' = [conn EXCEPT !.phase = "failed"]
  /\ UNCHANGED <<sslreader, sslcloser, badUses>>

(* A handshake that fails frees the BIO that belongs to the SSL object and *)
(* closes the socket, which has no hook yet.  A peer that is not accepted  *)
(* leaves the socket open, with the ports it had.  Otherwise the ports and *)
(* the socket get the SSL functions and hooks.                             *)
Handshake ==
  /\ conn.phase = "handshake"
  /\ \/ conn' = [conn EXCEPT !.phase = "failed", !.ssl = "leaked", !.fd = FALSE,
                   !.in = "closed", !.out = "closed", !.eof = TRUE,
                   !.inCloses = @ + 1, !.outCloses = @ + 1]
     \/ conn' = [conn EXCEPT !.phase = "refused", !.ssl = "leaked"]
     \/ conn' = [conn EXCEPT !.phase = "secure"]
  /\ UNCHANGED <<sslmutex, sslreader, sslcloser, badUses>>

Use(what) == badUses' = IF conn.ssl = "freed" THEN badUses \cup {what} ELSE badUses

(* Mutant: the mark is left to the second half.                            *)
ReadUnmarked ==
  /\ conn.phase = "secure" /\ conn.in = "open" /\ sslreader.at = "idle" /\ sslmutex = "free"
  /\ sslreader' = [at |-> "reading", late |-> conn.ssl = "freed"]
  /\ UNCHANGED <<conn, sslmutex, sslcloser, badUses>>

(* sslread: the mark, under the mutex.  userdata of the port is the drag   *)
(* list for ever, also after the socket is closed.                         *)
SslReadMark ==
  /\ conn.phase = "secure" /\ conn.in = "open" /\ sslreader.at = "idle" /\ sslmutex = "free"
  /\ conn' = [conn EXCEPT !.reading = TRUE]
  /\ sslreader' = [at |-> "reading", late |-> conn.ssl = "freed"]
  /\ UNCHANGED <<sslmutex, sslcloser, badUses>>

(* SSL_read returns: bytes or an error, or 0, the end of the stream.       *)
SslRead ==
  /\ sslreader.at = "reading"
  /\ Use("read")
  /\ \E end \in BOOLEAN : conn' = [conn EXCEPT !.eof = @ \/ end]
  /\ sslreader' = [sslreader EXCEPT !.at = "returned"]
  /\ UNCHANGED <<sslmutex, sslcloser>>

(* The mark goes.  The test for a closed socket looks at the first element *)
(* of the drag list, which the hook does not change: a free that the hook  *)
(* delayed never happens.                                                  *)
SslReadUnmark ==
  /\ sslreader.at = "returned" /\ sslmutex = "free"
  /\ conn' = [conn EXCEPT !.reading = FALSE]
  /\ sslreader' = [at |-> "idle", late |-> FALSE]
  /\ UNCHANGED <<sslmutex, sslcloser, badUses>>

(* Output into the buffer, and a flush of it through sslwrite.             *)
SslPut ==
  /\ conn.phase = "secure" /\ conn.out = "open" /\ sslcloser = "idle"
  /\ conn' = [conn EXCEPT !.pending = TRUE]
  /\ UNCHANGED <<sslmutex, sslreader, sslcloser, badUses>>

SslWrite ==
  /\ conn.pending /\ conn.out = "open" /\ sslcloser = "idle"
  /\ Use("write")
  /\ conn' = [conn EXCEPT !.pending = FALSE]
  /\ UNCHANGED <<sslmutex, sslreader, sslcloser>>

(* socket_close forgets the descriptor, then runs the hook, if there is    *)
(* one, and closes both ports.                                             *)
SocketCloseStart ==
  /\ sslcloser = "idle" /\ conn.fd /\ conn.phase \in {"plain", "secure", "refused"}
  /\ conn' = [conn EXCEPT !.fd = FALSE]
  /\ sslcloser' = IF conn.phase = "secure" THEN "hook" ELSE "input"
  /\ UNCHANGED <<sslmutex, sslreader, badUses>>

(* Mutant: the object is freed whoever reads.                              *)
HookFrees ==
  /\ sslcloser = "hook" /\ sslmutex = "free"
  /\ conn' = [conn EXCEPT !.ssl = "freed", !.frees = @ + 1]
  /\ sslcloser' = "input"
  /\ UNCHANGED <<sslmutex, sslreader, badUses>>

SocketCloseHook ==
  /\ sslcloser = "hook" /\ sslmutex = "free"
  /\ conn' = IF conn.reading THEN [conn EXCEPT !.ssl = "leaked"]
             ELSE [conn EXCEPT !.ssl = "freed", !.frees = @ + 1]
  /\ sslcloser' = "input"
  /\ UNCHANGED <<sslmutex, sslreader, badUses>>

(* close-input-port, by socket_close or by the reader itself: the port's   *)
(* hook closes the stream.                                                 *)
InputClosedBy(c) ==
  IF c.in = "closed" THEN c
  ELSE [c EXCEPT !.in = "closed", !.eof = TRUE, !.inCloses = @ + 1]

SslInputClose ==
  /\ conn' = InputClosedBy(conn)
  /\ \/ sslcloser = "input" /\ sslcloser' = "output"
     \/ sslreader.at = "idle" /\ conn.in = "open" /\ conn.phase = "secure" /\ UNCHANGED sslcloser
  /\ UNCHANGED <<sslmutex, sslreader, badUses>>

(* The output port flushes what it holds before its hook closes its        *)
(* descriptor: after the socket's own hook, this is a write to the freed   *)
(* object.                                                                 *)
SslOutputClose ==
  /\ sslcloser = "output"
  /\ IF conn.pending THEN Use("flush") ELSE UNCHANGED badUses
  /\ conn' = [conn EXCEPT !.out = "closed", !.pending = FALSE, !.outCloses = @ + 1]
  /\ sslcloser' = "done"
  /\ UNCHANGED <<sslmutex, sslreader>>

SslSocketNext ==
  \/ SocketEnableSsl \/ Handshake
  \/ SslReadMark \/ SslRead \/ SslReadUnmark \/ SslPut \/ SslWrite
  \/ SocketCloseStart \/ SocketCloseHook \/ SslInputClose \/ SslOutputClose

(* A thread inside SSL_read keeps its SSL object, whenever the socket is   *)
(* closed, if it began before the hook ran.  The object is used after it is*)
(* freed in two cases only: a read that begins between the hook and the    *)
(* close of the input port, and the flush of an output port that still     *)
(* held bytes.  No descriptor is closed twice, the SSL object is not freed *)
(* twice, and a closed socket keeps no descriptor.                         *)
SslKept ==
  /\ sslreader.at = "reading" /\ ~sslreader.late => conn.ssl # "freed"
  /\ badUses \subseteq {"read", "flush"} /\ (badUses # {} => ~conn.fd)
  /\ conn.frees <= 1 /\ conn.inCloses <= 1 /\ conn.outCloses <= 1
  /\ sslcloser = "done" => conn.inCloses = 1 /\ conn.outCloses = 1
-----------------------------------------------------------------------------
(* A clear text is not a record of the handshake or a close notification:  *)
(* the records of TLS carry their type.                                    *)
Notices == {"hello", "reply", "finish", "close"}
SslConstants == Texts \in Seq(STRING \ Notices) /\ "none" \notin Sessions

secureVars == <<connectionVars, sslSocketVars>>

SecureNext ==
  \/ ConnectionNext /\ UNCHANGED sslSocketVars
  \/ SslSocketNext /\ UNCHANGED connectionVars

SecureSpec == InitConnection /\ InitSslSocket /\ [][SecureNext]_secureVars

(* The SSL object of a socket is freed once and not used afterwards, and a *)
(* connection delivers the clear text in order.                            *)
SecureChannels == SslKept /\ ConnectionExact
=============================================================================
