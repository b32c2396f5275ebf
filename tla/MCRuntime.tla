----------------------------- MODULE MCRuntime -----------------------------
(***************************************************************************)
(* The parts of the C runtime and of the libraries that share no state     *)
(* with another one: a behaviour is one of one part.  The parts that       *)
(* ProcessesProofs, ThreadRuntimeProofs and RuntimeProofs are about are    *)
(* extended: what is checked here of them is what those modules prove, and *)
(* they stay in their initial state while another part runs.  The others   *)
(* share the variables v1 to v7: an INSTANCE below says what they stand    *)
(* for, and the ones that a part does not need are 0.  Sockets and secure  *)
(* connections have a run of their own, MCNetwork.                         *)
(***************************************************************************)
EXTENDS Processes, ThreadRuntime, Callcc, Tables

CONSTANTS mA, mB, mC, none   \* model values

VARIABLES part, v1, v2, v3, v4, v5, v6, v7

slots == <<v1, v2, v3, v4, v5, v6, v7>>
extended == <<processVars, threadVars, callccVars, tablesVars>>
vars == <<part, slots, extended>>

(* What the proofs assume of the constants: three processes in a table of  *)
(* two, three threads and one mutex; for callcc.c two threads that wind,   *)
(* capture and jump twice; two callers that make three symbols.            *)
ASSUME ProcessAssumption == ProcessConstants
ASSUME TaskAssumption == TaskConstants
ASSUME TablesAssumption == TablesConstants

-----------------------------------------------------------------------------
(* cbignum.c: longs of 4 bits; every small number, and the neighbourhoods  *)
(* of the powers of the base.                                              *)
Bignum == INSTANCE Bignum WITH
  LongBits <- 4, FixBits <- 3,
  Bigs <- (-20 .. 20) \cup {-256, -255, -241, -240, -129, -128, -127, -64, -33, -32, -31,
                            31, 32, 33, 63, 64, 127, 128, 239, 240, 255, 256, 4095},
  numX <- v1, numY <- v2

(* cstring.c, cunicode.c, crgc.c.                                          *)
Text == INSTANCE Text WITH text <- v1

(* cwriter.c: a procedure port, a port that every object overflows, and    *)
(* one that few do; addresses of 12 and of 16 digits, a port with a flush  *)
(* hook.                                                                   *)
Display == INSTANCE Display WITH
  Printers <- {mA, mB}, Simple <- {mB}, Nobody <- none, PortSizes <- {0, 8, 64},
  NameLengths <- {0, 5}, HexDigits <- {12, 16}, DecDigits <- {4, 8}, HookSizes <- {8},
  size <- v1, buffer <- v2, out <- v3, portlock <- v4, printer <- v5, overrun <- v6, hook <- v7

(* bglssl.c.                                                               *)
SslContext == INSTANCE SslContext WITH
  Contexts <- {mA, mB}, Certs <- {mC}, MaxData <- 3,
  ctx <- v1, store <- v2, rootptr <- v3, rootlock <- v4, evp <- v1, answers <- v2,
  Identities <- {mA, mB}, Authorities <- {mC, "y"}, NoId <- none, Protocols <- {"h2", "http/1.0", "http/1.1"},
  made <- v1, key <- v2, cert <- v3, chain <- v4, stale <- v5, accepted <- v6, refused <- v7,
  pem <- v1, shake <- v1

(* ccontrol.c, capply.c: limits low enough to be passed.                   *)
Procedures == INSTANCE Procedures WITH
  GenericMax <- 2, VaMax <- 3, ApplyMax <- 5, RowMax <- 4, MaxArgs <- 6, procedureCall <- v1

(* bglflac.c, bglalsa.c, bglgst.c: bytes of 2 bits.                        *)
Media == INSTANCE Media WITH
  ByteBits <- 2, MaxBytes <- 4, MaxRefs <- 6,
  flac <- v1, music <- v2, pcm <- v1, card <- v2, gvalue <- v1, gobject <- v1

(* cdate.c, csignal.c, os.c.                                               *)
System == INSTANCE System WITH
  Users <- {mA, mB}, Signals <- {"segv", "int"}, SEGV <- "segv", Handlers <- {"p", "q"},
  MaxInstalls <- 3, Nobody <- none,
  date <- v1, table <- v1, disposition <- v2, signals <- v3, passwd <- v1, asker <- v2,
  static <- v1, teller <- v2, groups <- v1

(* cports.c, cmmap.c, cdlopen.c.                                           *)
Files == INSTANCE Files WITH
  FirstVlen <- 1, MaxEntries <- 5, Maps <- {mA, mB}, MapLength <- 2, Loaders <- {mA, mB},
  Libraries <- {"x", "y"}, MaxLoads <- 3, NoLoader <- none, OutSize <- 3, MaxFile <- 3,
  directory <- v1, mapped <- v1, maps <- v2, dloadList <- v1, handles <- v2, loader <- v3,
  outFile <- v1, outPos <- v2, outBuf <- v3, image <- v4, place <- v5

(* cpcre2.h, cresolv.c, cbinary.c, bglsqlite.c.                            *)
Formats == INSTANCE Formats WITH
  MaxSubject <- 3, MaxAnswers <- 2, MaxObjects <- 3, MaxDump <- 2,
  regexp <- v1, answer <- v1, file <- v1, writer <- v2, reader <- v3,
  Rows <- {mA, none}, Null <- none, MaxRows <- 2, MaxNesting <- 2, db <- v1, queries <- v2

-----------------------------------------------------------------------------
(* A part that has n variables.                                            *)
Starts(p, n) ==
  /\ part = p
  /\ n < 1 => v1 = 0
  /\ n < 2 => v2 = 0
  /\ n < 3 => v3 = 0
  /\ n < 4 => v4 = 0
  /\ n < 5 => v5 = 0
  /\ n < 6 => v6 = 0
  /\ n < 7 => v7 = 0

Goes(p, n) ==
  /\ part = p /\ UNCHANGED <<part, extended>>
  /\ n < 2 => UNCHANGED v2
  /\ n < 3 => UNCHANGED v3
  /\ n < 4 => UNCHANGED v4
  /\ n < 5 => UNCHANGED v5
  /\ n < 6 => UNCHANGED v6
  /\ n < 7 => UNCHANGED v7

(* One of the initial states of each, while another part runs.             *)
Resting ==
  /\ part = "locks" \/ ~ probes
  /\ part = "envs" \/ local[mA] = 1
  /\ part = "weak" \/ (weak.data = none /\ weak.ref = none)

(* The parts without a step are functions of their inputs: the invariants  *)
(* compare them with their definitions for each input.                     *)
Init ==
  /\ \/ Starts("numbers", 2) /\ Bignum!InitNumbers
     \/ Starts("text", 1) /\ Text!InitText
     \/ Starts("display", 7) /\ Display!InitDisplay
     \/ Starts("stores", 4) /\ SslContext!InitStores
     \/ Starts("crypto", 2) /\ SslContext!InitCrypto
     \/ Starts("identity", 7) /\ SslContext!InitIdentity
     \/ Starts("pem", 1) /\ SslContext!InitPem
     \/ Starts("handshake", 1) /\ SslContext!InitHandshake
     \/ Starts("calls", 1) /\ Procedures!InitProcedures
     \/ Starts("flac", 2) /\ Media!InitFlac
     \/ Starts("alsa", 2) /\ Media!InitAlsa
     \/ Starts("gvalue", 1) /\ Media!InitGvalue
     \/ Starts("gobject", 1) /\ Media!InitGobject
     \/ Starts("dates", 1) /\ System!InitDates
     \/ Starts("signals", 3) /\ System!InitSignals
     \/ Starts("passwd", 2) /\ System!InitPasswd
     \/ Starts("stamps", 2) /\ System!InitStamps
     \/ Starts("groups", 1) /\ System!InitGroups
     \/ Starts("directory", 1) /\ Files!InitDirectory
     \/ Starts("mmap", 2) /\ Files!InitMmap
     \/ Starts("dload", 3) /\ Files!InitDload
     \/ Starts("output", 5) /\ Files!InitOut
     \/ Starts("regexp", 1) /\ Formats!InitRegexp
     \/ Starts("resolv", 1) /\ Formats!InitAnswer
     \/ Starts("dump", 3) /\ Formats!InitBinary
     \/ Starts("sqlite", 2) /\ Formats!InitSqlite
     \/ \E p \in {"processes", "locks", "envs", "callcc", "symbols", "weak"} : Starts(p, 0)
  /\ InitProcesses /\ InitLocks /\ InitEnvs /\ InitCallcc /\ InitSymbols /\ InitWeak /\ Resting

Next ==
  \/ Goes("display", 7) /\ Display!DisplayNext
  \/ Goes("stores", 4) /\ SslContext!StoreNext
  \/ Goes("crypto", 2) /\ SslContext!CryptoNext
  \/ Goes("identity", 7) /\ SslContext!IdentityNext
  \/ Goes("flac", 2) /\ Media!FlacNext
  \/ Goes("alsa", 2) /\ Media!AlsaNext
  \/ Goes("gobject", 1) /\ Media!GobjectNext
  \/ Goes("signals", 3) /\ System!SignalNext
  \/ Goes("passwd", 2) /\ System!PasswdNext
  \/ Goes("stamps", 2) /\ System!StampNext
  \/ Goes("mmap", 2) /\ Files!MmapNext
  \/ Goes("dload", 3) /\ Files!DloadNext
  \/ Goes("output", 5) /\ Files!OutNext
  \/ Goes("dump", 3) /\ Formats!BinaryNext
  \/ Goes("sqlite", 2) /\ Formats!SqliteNext
  \/ /\ part = "processes" /\ ProcessNext
     /\ UNCHANGED <<part, slots, threadVars, callccVars, tablesVars>>
  \/ /\ part = "locks" /\ LockNext
     /\ UNCHANGED <<part, slots, envVars, processVars, callccVars, tablesVars>>
  \/ /\ part = "envs" /\ EnvNext
     /\ UNCHANGED <<part, slots, lockVars, processVars, callccVars, tablesVars>>
  \/ /\ part = "callcc" /\ CallccNext
     /\ UNCHANGED <<part, slots, processVars, threadVars, tablesVars>>
  \/ /\ part = "symbols" /\ SymbolNext
     /\ UNCHANGED <<part, slots, weakVars, processVars, threadVars, callccVars>>
  \/ /\ part = "weak" /\ WeakNext
     /\ UNCHANGED <<part, slots, symbolVars, processVars, threadVars, callccVars>>

Spec == Init /\ [][Next]_vars

-----------------------------------------------------------------------------
(* Numbers of every width compute what integers do.                        *)
NumbersExact ==
  part = "numbers" => Bignum!BignumExact /\ Bignum!NoWrap

(* Comparisons agree with an order, text survives its conversions and its  *)
(* tokens, and what threads write to a port is not mixed.                  *)
TextExact ==
  /\ part = "display" => Display!WritesWhole
  /\ part = "text" => Text!ComparisonsAgree /\ Text!TextSurvives /\ Text!TokensExact

(* Contexts trust the certificates they were given, present the key and    *)
(* the chain that they accepted, and digests answer for all of their data. *)
SecureMaterial ==
  /\ part = "stores" => SslContext!CertsTrusted
  /\ part = "crypto" => SslContext!DigestsExact
  /\ part = "identity" => SslContext!IdentityExact
  /\ part = "pem" => SslContext!PemsAgree
  /\ part = "handshake" => SslContext!HandshakeAgrees

(* The ways to call a procedure give it the same arguments.                *)
CallsAgree ==
  part = "calls" => Procedures!CallsAgree

(* Samples reach the card as they were decoded, once; properties keep      *)
(* their values; a GStreamer object in use is not freed.                   *)
MediaExact ==
  /\ part = "flac" => Media!MusicExact
  /\ part = "alsa" => Media!PlayedOnce
  /\ part = "gvalue" => Media!PropertyKept
  /\ part = "gobject" => Media!NeverFreedInUse

(* Dates denote their instant, signals reach the handler that was given    *)
(* last, and a caller is told of the user and of the instant asked for.    *)
SystemExact ==
  /\ part = "dates" => System!InstantKept
  /\ part = "signals" => System!SignalsAgree
  /\ part = "passwd" => System!OwnEntry
  /\ part = "stamps" => System!OwnStamp
  /\ part = "groups" => System!GroupsExact

(* Directories are read whole, maps keep their bytes, libraries are closed *)
(* when the last user unloads them, and a file gets what was written.      *)
FilesExact ==
  /\ part = "directory" => Files!DirectoryExact
  /\ part = "mmap" => Files!MapsExact
  /\ part = "dload" => Files!LibrariesCounted
  /\ part = "output" => Files!PositionsExact

=============================================================================
