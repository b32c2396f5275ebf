------------------------------ MODULE SslContext ------------------------------
(***************************************************************************)
(* The certificate stores of the secure contexts of bglssl.c, and the      *)
(* objects that compute digests, signatures and ciphers.  A context keeps  *)
(* a pointer to the store that it adds certificates to, and its native     *)
(* context consults the store it was given: the two must be one.  The root *)
(* certificates have a store of their own, made by the first context that  *)
(* asks and shared by all the others.                                      *)
(***************************************************************************)
EXTENDS Integers, Sequences, FiniteSets, SequencesExt

CONSTANTS
  Contexts,    \* secure contexts, each used by a thread of its own
  Certs,       \* certificates that users add
  MaxData      \* bound: updates of a digest

VARIABLES
  ctx,         \* per context: castore and native (stores), at, and ghosts
  store,       \* per store: the certificates in it
  rootptr,     \* root_cert_store
  rootlock,    \* bigloo_mutex
  evp,         \* an object with a digest or cipher context
  answers      \* what the last final call gave, and what the object had been given

storeVars  == <<ctx, store, rootptr, rootlock>>
cryptoVars == <<evp, answers>>

NoStore == "none"
Free    == "free"
Roots   == {"root1", "root2"}
RootOf(c) == <<"root", c>>   \* the store of roots that c makes
OwnOf(c)  == <<"own", c>>    \* X509_STORE_new for c alone
Default(c) == <<"default", c>>
Stores  == {RootOf(c) : c \in Contexts} \cup {OwnOf(c) : c \in Contexts}
             \cup {Default(c) : c \in Contexts}

InitStores ==
  /\ ctx = [c \in Contexts |-> [castore |-> NoStore, native |-> Default(c), at |-> "idle",
                                added |-> {}, dropped |-> {}, rooted |-> FALSE,
                                spoilt |-> FALSE, failed |-> FALSE]]
  /\ store = [s \in Stores |-> {}]
  /\ rootptr = NoStore /\ rootlock = Free

(* bgl_ssl_ctx_add_root_certs.  The pointer is tested without the lock: a  *)
(* context may find a store that another one is still filling, or make a   *)
(* second one after it waited for the lock.                                *)
AddRootCerts(c) ==
  /\ ctx[c].at = "idle"
  /\ ctx' = [ctx EXCEPT ![c].at = IF rootptr = NoStore THEN "lock" ELSE "set"]
  /\ UNCHANGED <<store, rootptr, rootlock>>

RootStoreNew(c) ==
  /\ ctx[c].at = "lock" /\ rootlock = Free
  /\ rootlock' = c /\ rootptr' = RootOf(c)
  /\ store' = [store EXCEPT ![RootOf(c)] = {}]
  /\ ctx' = [ctx EXCEPT ![c].at = "fill"]

RootStoreAdd(c, r) ==
  /\ ctx[c].at = "fill" /\ r \notin store[RootOf(c)]
  /\ store' = [store EXCEPT ![RootOf(c)] = @ \cup {r}]
  /\ UNCHANGED <<ctx, rootptr, rootlock>>

(* All are in, or one cannot be read: the partial store stays where others *)
(* will find it, and this call answers #f.                                 *)
RootStoreEnd(c) ==
  /\ ctx[c].at = "fill"
  /\ rootlock' = Free
  /\ \/ Roots \subseteq store[RootOf(c)] /\ ctx' = [ctx EXCEPT ![c].at = "set"]
     \/ /\ ~(Roots \subseteq store[RootOf(c)])
        /\ ctx' = [ctx EXCEPT ![c].at = "idle", ![c].failed = TRUE]
  /\ UNCHANGED <<store, rootptr>>

(* The pointer is read twice.  The store that the context had is dropped,  *)
(* and with it every certificate that the context had accepted before.     *)
SetCaStore(c) ==
  /\ ctx[c].at = "set"
  /\ ctx' = [ctx EXCEPT ![c].castore = rootptr, ![c].at = "native", ![c].dropped = ctx[c].added]
  /\ UNCHANGED <<store, rootptr, rootlock>>

SetNativeStore(c) ==
  /\ ctx[c].at = "native"
  /\ ctx' = [ctx EXCEPT ![c].native = rootptr, ![c].at = "idle", ![c].rooted = TRUE,
                        ![c].spoilt = ctx[c].castore # rootptr]
  /\ UNCHANGED <<store, rootptr, rootlock>>

(* Mutant: a store made for the certificate is never given to the native.  *)
AddWithoutSet(c, x) ==
  LET s == IF ctx[c].castore = NoStore THEN OwnOf(c) ELSE ctx[c].castore
  IN /\ ctx[c].at = "idle"
     /\ store' = [store EXCEPT ![s] = @ \cup {x}]
     /\ ctx' = [ctx EXCEPT ![c].castore = s, ![c].added = @ \cup {x}, ![c].dropped = @ \ {x}]
     /\ UNCHANGED <<rootptr, rootlock>>

(* bgl_ssl_ctx_add_ca_cert.  A new store is given to the native context    *)
(* only when the certificate could be read: after a failure the next call  *)
(* finds a store and adds to one that nobody consults.                     *)
AddCaCert(c, x) ==
  LET new == ctx[c].castore = NoStore
      s   == IF new THEN OwnOf(c) ELSE ctx[c].castore
  IN /\ ctx[c].at = "idle"
     /\ \/ /\ store' = [store EXCEPT ![s] = @ \cup {x}]
           /\ ctx' = [ctx EXCEPT ![c].castore = s,
                                 ![c].added = @ \cup {x}, ![c].dropped = @ \ {x},
                                 ![c].native = IF new THEN s ELSE @]
        \/ /\ ctx' = [ctx EXCEPT ![c].castore = s, ![c].spoilt = @ \/ new]
           /\ UNCHANGED store
     /\ UNCHANGED <<rootptr, rootlock>>

(* bgl_load_pkcs12 makes and gives the store at once.  It raises an error  *)
(* even after success, when everything is already done.                    *)
LoadPkcs12(c, xs) ==
  LET s == IF ctx[c].castore = NoStore THEN OwnOf(c) ELSE ctx[c].castore
  IN /\ ctx[c].at = "idle" /\ xs # {}
     /\ store' = [store EXCEPT ![s] = @ \cup xs]
     /\ ctx' = [ctx EXCEPT ![c].castore = s,
                           ![c].added = @ \cup xs, ![c].dropped = @ \ xs,
                           ![c].native = IF ctx[c].castore = NoStore THEN s ELSE @]
     /\ UNCHANGED <<rootptr, rootlock>>

StoreNext ==
  \E c \in Contexts :
    \/ AddRootCerts(c) \/ RootStoreNew(c) \/ RootStoreEnd(c)
    \/ \E r \in Roots : RootStoreAdd(c, r)
    \/ SetCaStore(c) \/ SetNativeStore(c)
    \/ \E x \in Certs : AddCaCert(c, x)
    \/ \E xs \in SUBSET Certs : LoadPkcs12(c, xs)

(* A certificate that a context accepted is one its connections trust,     *)
(* unless the roots were added after it, a call that failed made the       *)
(* store, or the shared store changed between two reads of its pointer.  A *)
(* store that only this context uses holds nothing that others added; and  *)
(* the contexts that share the roots have them all once nobody is filling  *)
(* the store, unless filling failed.                                       *)
CertsTrusted ==
  /\ \A c \in Contexts : ctx[c].at # "native" /\ ~ctx[c].spoilt
       => ctx[c].added \ ctx[c].dropped \subseteq store[ctx[c].native]
  /\ \A c \in Contexts : ~ctx[c].rooted /\ ctx[c].at # "native" => store[OwnOf(c)] \subseteq ctx[c].added
  /\ \A c, d \in Contexts :
       ctx[c].native = RootOf(d) /\ ctx[d].at # "fill" /\ ~ctx[d].failed
         => Roots \subseteq store[RootOf(d)]

(***************************************************************************)
(* ssl-hash, ssl-hmac, ssl-sign, ssl-verify and ssl-cipher: the pointer to *)
(* the context of OpenSSL, what that context has absorbed (a cipher keeps  *)
(* the bytes of an unfinished block), and what the program was told.       *)
(***************************************************************************)
Kinds == {"hash", "hmac", "sign", "verify", "cipher"}
Block == 2
Pad   == 9

InitCrypto ==
  /\ \E k \in Kinds : evp = [kind |-> k, ptr |-> "null", native |-> <<>>, padding |-> TRUE,
                             given |-> <<>>, out |-> <<>>, refused |-> FALSE]
  /\ answers = <<>>

(* A new context replaces the one the object may have, which is lost.      *)
NewContext == [evp EXCEPT !.ptr = "live", !.native = <<>>, !.padding = TRUE, !.given = <<>>,
                          !.out = <<>>, !.refused = FALSE]

(* An unknown algorithm is refused before anything but the name is kept:   *)
(* the object goes on with the context it had.                             *)
DigestInit(k, known) ==
  /\ evp.kind = k /\ evp.ptr # "freed"
  /\ evp' = IF known THEN NewContext ELSE evp
  /\ answers' = <<>>

HashInit(known)   == DigestInit("hash", known)
HmacInit(known)   == DigestInit("hmac", known)
SignInit(known)   == DigestInit("sign", known)
VerifyInit(known) == DigestInit("verify", known)

(* A key length that is refused frees the context and keeps the pointer.   *)
CipherInit(outcome) ==
  /\ evp.kind = "cipher" /\ evp.ptr # "freed"
  /\ evp' = CASE outcome = "ok" -> NewContext
              [] outcome = "unknown" -> evp
              [] outcome = "keylength" -> [NewContext EXCEPT !.ptr = "freed", !.refused = TRUE]
  /\ answers' = <<>>

(* With an initial vector: its length is refused before the context is     *)
(* made; a context that cannot be initialised stays.                       *)
CipherInitIv(outcome) ==
  \/ CipherInit(outcome)
  \/ /\ evp.kind = "cipher" /\ evp.ptr # "freed" /\ answers' = <<>>
     /\ evp' = [NewContext EXCEPT !.refused = TRUE]

Update(k, d) ==
  /\ evp.kind = k /\ evp.ptr = "live" /\ Len(evp.given) < MaxData
  /\ evp' = [evp EXCEPT !.native = Append(@, d), !.given = Append(@, d)]
  /\ answers' = <<>>

HashUpdate(d)   == Update("hash", d)
HmacUpdate(d)   == Update("hmac", d)
SignUpdate(d)   == Update("sign", d)
VerifyUpdate(d) == Update("verify", d)

(* Mutant: the string that has room for one more block is not shrunk.      *)
ShrunkNever(written, room) == written \o [i \in 1 .. room - Len(written) |-> Pad]

(* bgl_string_shrink of a string of that room to what was written.         *)
Shrunk(written, room) == SubSeq(written, 1, Len(written))

(* The cipher gives the blocks that are complete.                          *)
CipherUpdate(ds) ==
  LET all  == evp.native \o ds
      done == Len(all) - (Len(all) % Block)
  IN /\ evp.kind = "cipher" /\ evp.ptr = "live" /\ Len(evp.given) + Len(ds) <= MaxData
     /\ evp' = [evp EXCEPT !.native = SubSeq(all, done + 1, Len(all)), !.given = @ \o ds,
                           !.out = @ \o Shrunk(SubSeq(all, 1, done), Len(ds) + Block)]
     /\ answers' = <<>>

CipherSetAutoPadding(on) ==
  /\ evp.kind = "cipher" /\ evp.ptr = "live"
  /\ evp' = [evp EXCEPT !.padding = on] /\ answers' = <<>>

(* Mutant: the pointer survives the context.                               *)
FinalKeepsPointer == [evp EXCEPT !.ptr = "freed"]

(* The context is freed and forgotten.                                     *)
Finished == [evp EXCEPT !.ptr = "null"]

Digest(k) ==
  /\ evp.kind = k /\ evp.ptr = "live"
  /\ evp' = Finished /\ answers' = <<evp.native, evp.given>>

(* Without a context there is an error, or #f to say that a signature does *)
(* not verify; but the digest of a hash is the null pointer, which the     *)
(* program gets for a string.                                              *)
NoContext(k) ==
  /\ evp.kind = k /\ evp.ptr = "null"
  /\ answers' = IF k = "hash" THEN << "null" >> ELSE <<>>
  /\ UNCHANGED evp

HashDigest == Digest("hash") \/ NoContext("hash")
HmacDigest == Digest("hmac") \/ NoContext("hmac")

(* A key that cannot be read, or cannot sign, leaves the context for       *)
(* another try.                                                            *)
KeyRefused(k) == evp.kind = k /\ evp.ptr = "live" /\ answers' = <<>> /\ UNCHANGED evp

SignSign    == Digest("sign") \/ KeyRefused("sign") \/ NoContext("sign")
VerifyFinal == Digest("verify") \/ KeyRefused("verify") \/ NoContext("verify")

(* The last block is padded; without padding it must be complete, and the  *)
(* context is freed before the error is raised.                            *)
CipherEnds ==
  LET last == evp.native \o [i \in 1 .. Block - Len(evp.native) |-> Pad]
  IN /\ evp.kind = "cipher" /\ evp.ptr = "live"
     /\ evp' = Finished
     /\ answers' = CASE evp.padding -> <<evp.out \o Shrunk(last, Block), evp.given>>
                     [] ~evp.padding /\ evp.native = <<>> -> <<evp.out, evp.given>>
                     [] OTHER -> <<>>

CipherFinal == CipherEnds \/ NoContext("cipher")

CryptoNext ==
  \/ \E known \in BOOLEAN : HashInit(known) \/ HmacInit(known) \/ SignInit(known) \/ VerifyInit(known)
  \/ \E o \in {"ok", "unknown", "keylength"} : CipherInit(o) \/ CipherInitIv(o)
  \/ \E d \in {0, 1} : HashUpdate(d) \/ HmacUpdate(d) \/ SignUpdate(d) \/ VerifyUpdate(d)
  \/ \E d \in {0, 1} : CipherUpdate(<<d>>) \/ CipherUpdate(<<d, d>>)
  \/ \E on \in BOOLEAN : CipherSetAutoPadding(on)
  \/ HashDigest \/ HmacDigest \/ SignSign \/ VerifyFinal \/ CipherFinal

(* An answer is of everything that was given since the last successful     *)
(* init, in order, through refused inits and refused keys; the strings of  *)
(* a cipher together are the text and at most one block of padding; a      *)
(* pointer to a freed context is left only by a refused key length; and    *)
(* only a hash that has no context gives the program a null pointer.       *)
DigestsExact ==
  /\ Len(answers) = 1 => evp.kind = "hash" /\ evp.ptr = "null"
  /\ Len(answers) = 2 =>
       LET told == answers[1]  given == answers[2]
       IN /\ Len(given) <= Len(told) /\ SubSeq(told, 1, Len(given)) = given
          /\ Len(told) > Len(given) => /\ evp.kind = "cipher" /\ evp.padding
                                       /\ Len(told) % Block = 0
                                       /\ Len(told) <= Len(given) + Block
                                       /\ \A i \in Len(given) + 1 .. Len(told) : told[i] = Pad
  /\ evp.ptr = "freed" => evp.refused

-----------------------------------------------------------------------------
(***************************************************************************)
(* What an end of a secure connection shows and learns (bglssl.c): the     *)
(* private key and the certificate chain of a context, the context that a  *)
(* server picks for the name that its client asks for, the protocol that   *)
(* both agree on, and what is told of the certificate of the peer.         *)
(***************************************************************************)
CONSTANTS
  Identities,  \* each one is a key and the certificate made for it
  Authorities, \* certificates that follow in a PEM file
  NoId

VARIABLES
  made,        \* how bgl_ssl_ctx_init went
  key, cert,   \* the private key and the certificate of the native context
  chain,       \* the extra certificates that it sends
  stale,       \* errors are left in the queue of OpenSSL for this thread
  accepted,    \* auxiliary: the last chain that set-cert! accepted
  refused      \* auxiliary: why set-cert! raised since

identityVars == <<made, key, cert, chain, stale, accepted, refused>>

(* The ends that a method of OpenSSL serves.                               *)
Roles(r) == CASE r = "_server_method" -> {"server"}
              [] r = "_client_method" -> {"client"}
              [] OTHER -> {"client", "server"}

(* TLSv1 is replaced by whatever TLS there is; other methods that the      *)
(* build lacks, and unknown names, are refused.                            *)
BglSslCtxInit(version, role, have) ==
  IF version = "default" THEN [ok |-> TRUE, roles |-> {"client", "server"}]
  ELSE IF version \in have \cup {"TLSv1"} THEN [ok |-> TRUE, roles |-> Roles(role)]
  ELSE [ok |-> FALSE, roles |-> {}]

InitIdentity ==
  /\ made \in {BglSslCtxInit(v, r, have) :
                 v \in {"default", "SSLv2", "SSLv3", "SSLv23", "TLSv1", "other"},
                 r \in {"_method", "_server_method", "_client_method"},
                 have \in {{}, {"SSLv23"}, {"SSLv3", "SSLv23"}}}
  /\ key = NoId /\ cert = NoId /\ chain = <<>> /\ stale = FALSE
  /\ accepted = <<>> /\ refused = "nothing"

-----------------------------------------------------------------------------
(* PEM files: blocks of certificates, keys and revocation lists, of which  *)
(* some cannot be decoded.  The readers of OpenSSL skip the blocks of      *)
(* another kind, the one of load-pem decodes them all.                     *)

VARIABLE pem
pemVars == <<pem>>

Blocks == [what : {"cert", "key"}, id : Identities, sound : {TRUE}]
            \cup [what : {"cert", "crl"}, id : {NoId}, sound : {FALSE}]
InitPem == pem \in SeqOf(Blocks, 3)

Of(what, file) == SelectSeq(file, LAMBDA b : b.what = what)
Failure == [ok |-> FALSE, value |-> <<>>]
Loaded(v) == [ok |-> TRUE, value |-> v]

(* bgl_load_bio has nothing to write of an empty string.                   *)
BglLoadBio(file) == file # <<>>

(* The first block of the kind, if it can be decoded.                      *)
PemRead(what, file) ==
  LET bs == Of(what, file) IN
  IF bs = <<>> \/ ~ bs[1].sound THEN Failure ELSE Loaded(<< bs[1].id >>)

BglSslLoadPrivateKey(file) == PemRead("key", file)
BglSslLoadCertificate(file) == PemRead("cert", file)

(* Mutant: the list is in the order of the file.                           *)
LoadPemInOrder(file) ==
  IF \E i \in DOMAIN file : ~ file[i].sound THEN Failure
  ELSE Loaded([i \in DOMAIN Of("cert", file) |-> Of("cert", file)[i].id])

(* read-pem-file conses the certificates, the last of the file first.      *)
BglSslLoadPem(file) ==
  IF \E i \in DOMAIN file : ~ file[i].sound THEN Failure
  ELSE Loaded(Reverse([i \in DOMAIN Of("cert", file) |-> Of("cert", file)[i].id]))

(* What set-cert! reads of the same text: #f when there is nothing, the    *)
(* certificate and its chain, or an error.                                 *)
BglSslCtxSetCertReads(file) ==
  LET cs == Of("cert", file) IN
  IF ~ BglLoadBio(file) THEN Loaded(<<>>)
  ELSE IF cs = <<>> \/ \E i \in DOMAIN cs : ~ cs[i].sound THEN Failure
  ELSE Loaded([i \in DOMAIN cs |-> cs[i].id])

(* The readers agree on a file: what read-pem-file lists is what set-cert! *)
(* installs, in the opposite order, and the first of them is what          *)
(* read-certificate answers; a file that set-cert! refuses for a reason    *)
(* other than the lack of certificates is refused by read-pem-file too;    *)
(* and read-private-key finds the key of a good file wherever it is.       *)
PemsAgree ==
  LET all == BglSslLoadPem(pem)
      set == BglSslCtxSetCertReads(pem)
      one == BglSslLoadCertificate(pem)
      key1 == BglSslLoadPrivateKey(pem)
  IN /\ all.ok /\ set.ok => all.value = Reverse(set.value)
     /\ ~ set.ok => ~ all.ok \/ all.value = <<>>
     /\ set.ok /\ set.value # <<>> => one.ok /\ one.value[1] = Head(set.value)
     /\ all.ok => key1.ok = (Of("key", pem) # <<>>)
-----------------------------------------------------------------------------
(* An error of another call of this thread that nobody took away.          *)
OtherError ==
  /\ stale' = TRUE
  /\ UNCHANGED <<made, key, cert, chain, accepted, refused>>

(* set-key!.  A key that cannot be read is an error, of which the message  *)
(* takes one from the queue.  A key for another certificate is refused by  *)
(* SSL_CTX_use_PrivateKey, whose result is ignored: it may drop the        *)
(* certificate, it leaves an error, and set-key! answers #t.               *)
BglSslCtxSetKey(k) ==
  /\ made.ok
  /\ \/ /\ stale' \in {stale, TRUE} /\ UNCHANGED <<key, cert, accepted>>
     \/ /\ cert \in {NoId, k}
        /\ key' = k /\ stale' = (stale /\ cert = NoId)
        /\ UNCHANGED <<cert, accepted>>
     \/ /\ cert \notin {NoId, k}
        /\ stale' = TRUE
        /\ \/ cert' = NoId /\ accepted' = <<>>
           \/ UNCHANGED <<cert, accepted>>
        /\ UNCHANGED key
  /\ UNCHANGED <<made, chain, refused>>

(* SSL_CTX_use_certificate: a key that does not match is dropped, and the  *)
(* queue is cleared when there was a key to compare with.                  *)
UseCertificate(c) ==
  /\ cert' = c
  /\ key' = IF key = c THEN c ELSE NoId

(* Mutant: the certificates of an earlier chain stay.                      *)
ChainKept(c, cas) == chain \o cas

(* BGL_SSL_CTX_clear_extra_chain_certs, and the loop that adds.            *)
NewChain(c, cas) == cas

(* set-cert! of a PEM string: the certificate, then the authorities, then  *)
(* the end or something that is no certificate.  What is in the queue      *)
(* counts as an error of this call.                                        *)
BglSslCtxSetCert(c, cas, tail) ==
  LET spoilt == stale /\ key = NoId IN
  /\ made.ok
  /\ \/ /\ refused' = "unreadable" /\ stale' \in {stale, TRUE}
        /\ UNCHANGED <<key, cert, chain, accepted>>
     \/ /\ spoilt
        /\ UseCertificate(c)
        /\ refused' = "stale" /\ stale' \in BOOLEAN
        /\ UNCHANGED <<chain, accepted>>
     \/ /\ ~ spoilt
        /\ UseCertificate(c)
        /\ chain' = NewChain(c, cas)
        /\ IF tail = "end"
           THEN /\ stale' = FALSE
                /\ accepted' = << c >> \o cas /\ refused' = "nothing"
           ELSE refused' = "tail" /\ stale' \in BOOLEAN /\ UNCHANGED accepted
  /\ UNCHANGED made

IdentityNext ==
  \/ OtherError
  \/ \E i \in Identities :
       \/ BglSslCtxSetKey(i)
       \/ \E cas \in SeqOf(Authorities, 2), tail \in {"end", "garbage"} :
            BglSslCtxSetCert(i, cas, tail)

(* A context never pairs a certificate with the key of another one; what   *)
(* set-cert! accepted is what it shows, certificate and chain in order,    *)
(* until another call gets in the way; and a chain is the whole of one PEM *)
(* file, whatever chains and failures came before.                         *)
IdentityExact ==
  /\ key # NoId /\ cert # NoId => key = cert
  /\ refused = "nothing" /\ accepted # <<>> => << cert >> \o chain = accepted
  /\ Len(chain) <= 2
  /\ ~ made.ok => cert = NoId /\ key = NoId
-----------------------------------------------------------------------------
(* Handshakes.  A client asks for a name and proposes protocols, a server  *)
(* advertises its own.                                                     *)

CONSTANT Protocols

VARIABLE shake
shakeVars == <<shake>>

NoList == <<"none">>
Lists == {NoList} \cup {s \in SeqOf(Protocols, 2) : IsInjective(s)}
InitHandshake ==
  shake \in [asked : BOOLEAN, callback : {"none", "arity", "false", "context"},
             client : Lists, server : Lists,
             native : BOOLEAN, peer : {"none", "good", "bad"}]

(* The context that serves: that of the connection, unless the callback    *)
(* returns another one.  An error raised here leaves through OpenSSL.      *)
BglSelectSniContextCallback(h) ==
  IF ~ h.asked \/ h.callback = "none" THEN [ack |-> TRUE, context |-> "own"]
  ELSE CASE h.callback = "arity" -> [ack |-> FALSE, context |-> "raised"]
         [] h.callback = "false" -> [ack |-> FALSE, context |-> "own"]
         [] h.callback = "context" -> [ack |-> TRUE, context |-> "chosen"]

(* The name is kept in the connection even when the context is refused.    *)
BglTlsextServernameCallback(h) == IF h.asked THEN "name" ELSE "none"

BglAdvertiseNextProtoCallback(h) == IF h.server = NoList THEN <<>> ELSE h.server

(* Mutant: the client's order decides.                                     *)
SelectClientFirst(ours, theirs) ==
  LET common == SelectSeq(ours, LAMBDA p : p \in ToSet(theirs)) IN
  IF ours = <<>> THEN [status |-> "unsupported", out |-> "none"]
  ELSE IF common # <<>> THEN [status |-> "negotiated", out |-> common[1]]
  ELSE [status |-> "no overlap", out |-> ours[1]]

(* SSL_select_next_proto: the first of the server's that the client has,   *)
(* or else the client's first.                                             *)
SslSelectNextProto(ours, theirs) ==
  LET common == SelectSeq(theirs, LAMBDA p : p \in ToSet(ours)) IN
  IF ours = <<>> THEN [status |-> "unsupported", out |-> "none"]
  ELSE IF common # <<>> THEN [status |-> "negotiated", out |-> common[1]]
  ELSE [status |-> "no overlap", out |-> ours[1]]

(* What the client keeps, and what it sends to the server.                 *)
BglSelectNextProtoCallback(h) ==
  IF h.client = NoList THEN [selected |-> "#f", out |-> "http/1.1"]
  ELSE LET s == SslSelectNextProto(h.client, BglAdvertiseNextProtoCallback(h)) IN
       [selected |-> CASE s.status = "unsupported" -> "unspecified"
                       [] s.status = "negotiated" -> s.out
                       [] s.status = "no overlap" -> "#f",
        out |-> s.out]

BglSslConnectionGetNegotiatedProtocol(h, isserver) ==
  IF isserver THEN BglSelectNextProtoCallback(h).out ELSE BglSelectNextProtoCallback(h).selected

(* connection-verify-error: the reason, or nothing.                        *)
BglSslConnectionVerifyError(h) ==
  IF ~ h.native THEN "unspecified"
  ELSE CASE h.peer = "none" -> "UNABLE_TO_GET_ISSUER_CERT"
         [] h.peer = "good" -> "unspecified"
         [] h.peer = "bad" -> "reason"

(* The description of a certificate is for one that was shown, good or     *)
(* bad.                                                                    *)
BglSslConnectionGetPeerCertificate(h) == IF h.peer = "none" THEN "unspecified" ELSE h.peer

(* A server serves the context that its callback chose for the name, and   *)
(* only then one that is not its own; both ends agree on the protocol that *)
(* the client says it selected, the server's first that the client has;    *)
(* where the client says there is none, the server has none of those that  *)
(* it was sent, except that a client without a list says there is none and *)
(* tells the server http/1.1, which may be on the list of the server.  No  *)
(* verification error on a connection that exists means that a certificate *)
(* was shown and is good.                                                  *)
HandshakeAgrees ==
  LET sni    == BglSelectSniContextCallback(shake)
      mine   == BglSslConnectionGetNegotiatedProtocol(shake, FALSE)
      theirs == BglSslConnectionGetNegotiatedProtocol(shake, TRUE)
      offered == ToSet(BglAdvertiseNextProtoCallback(shake))
      common == IF shake.client = NoList THEN {} ELSE ToSet(shake.client) \cap offered
  IN /\ sni.context = "chosen" => shake.asked /\ sni.ack
     /\ shake.asked /\ shake.callback = "context" => sni.context = "chosen"
     /\ (mine \in Protocols) = (common # {})
     /\ mine \in Protocols =>
          /\ theirs = mine
          /\ \A i \in DOMAIN shake.server :
               shake.server[i] = mine => \A j \in 1 .. i - 1 : shake.server[j] \notin common
     /\ mine = "#f" /\ shake.client # NoList => theirs \notin offered
     /\ shake.client = NoList => mine = "#f" /\ theirs = "http/1.1"
     /\ shake.native /\ BglSslConnectionVerifyError(shake) = "unspecified" =>
          BglSslConnectionGetPeerCertificate(shake) = "good"
=============================================================================
