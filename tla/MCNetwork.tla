----------------------------- MODULE MCNetwork -----------------------------
(***************************************************************************)
(* The sockets of the C runtime with the resolver's caches, and the secure *)
(* connections of the ssl library: what NetworkProofs is about, on small   *)
(* instances.  The parts share no state: a behaviour is one of one part,   *)
(* and the others stay in their initial state meanwhile.                   *)
(***************************************************************************)
EXTENDS Sockets, SslConnection, TLC

CONSTANTS mA, mB, mC, none   \* model values

VARIABLE part

vars == <<part, networkVars, secureVars>>

(* What the proofs assume of the constants: two clients that ask for two   *)
(* hosts; two sockets and three descriptors; one clear text on its way at  *)
(* a time.                                                                 *)
ASSUME NetworkAssumption == NetworkConstants
ASSUME SslAssumption == SslConstants
MCTexts == <<"first">>
MCSymmetry == Permutations({mA, mB})

(* One of the initial states of the connection, while another part runs.   *)
Resting ==
  part = "connection" \/
    (~ con["client"].request /\ ~ con["client"].reject /\ con["client"].cert = "none")

Init ==
  /\ part \in {"hosts", "addresses", "sockets", "sslsocket", "connection"}
  /\ InitResolver /\ InitSockets /\ InitSslSocket /\ InitConnection /\ Resting

Goes(p, others) == part = p /\ UNCHANGED <<part, others>>

Next ==
  \/ HostNext /\ Goes("hosts", <<socketVars, secureVars>>)
  \/ AddrNext /\ Goes("addresses", <<socketVars, secureVars>>)
  \/ SocketNext /\ Goes("sockets", <<resolverVars, secureVars>>)
  \/ SslSocketNext /\ Goes("sslsocket", <<connectionVars, networkVars>>)
  \/ ConnectionNext /\ Goes("connection", <<sslSocketVars, networkVars>>)

Spec == Init /\ [][Next]_vars
=============================================================================
