------------------------------ MODULE Procedures ------------------------------
(***************************************************************************)
(* How a procedure gets its arguments (runtime/Clib/ccontrol.c, capply.c,  *)
(* the BGL_PROCEDURE_CALL macros of bigloo.h, and the calls that sqlite    *)
(* makes for each row).  A call pushes words; the entry of the procedure   *)
(* finds its arguments among them.  What lies beyond the words of a call   *)
(* is Garbage.  One state is one procedure and one call.                   *)
(***************************************************************************)
EXTENDS Integers, Sequences, FiniteSets

CONSTANTS
  GenericMax,   \* generic entries with a fixed number of arguments: 5
  VaMax,        \* required arguments that va_generic_entry can hold: 16
  ApplyMax,     \* required arguments that apply can hold
  RowMax,       \* columns that sqlite_apply gives as arguments: 32
  MaxArgs       \* bound: arguments of a call

VARIABLE procedureCall   \* the procedure, the build, and the number of arguments

procedureVars == procedureCall

EOA     == 0                       \* BEOA, the end of the arguments
Garbage == [is |-> "garbage"]
Refused == [is |-> "error"]
Given(required, rest) == [is |-> "called", required |-> required, rest |-> rest]

First(s, n) == SubSeq(s, 1, n)
Rest(s, n)  == SubSeq(s, n + 1, Len(s))
-----------------------------------------------------------------------------
(* Closures.                                                               *)
MakeFxProcedure(entry, arity) == [entry |-> entry, vaentry |-> "null", arity |-> arity, opt |-> FALSE]
MakeVaProcedure(entry, arity) == [entry |-> entry, vaentry |-> "code", arity |-> arity, opt |-> FALSE]

BglMakeProcedure(arity) ==
  IF arity >= 0 THEN MakeFxProcedure("code", arity) ELSE MakeVaProcedure("va", arity)

(* A procedure whose list of arguments does not outlive the call, and one  *)
(* with optional arguments, as the compiler builds them.                   *)
StackProcedure(arity) == MakeVaProcedure("stack", arity)
OptProcedure(arity) == [MakeVaProcedure("opt", arity) EXCEPT !.opt = TRUE]

BglMakeGeneric(p) ==
  MakeFxProcedure(IF p.arity \in 1 .. GenericMax THEN "generic" ELSE "generic*", p.arity)

CorrectArity(p, n) == p.arity = n \/ (p.arity < 0 /\ -n - 1 <= p.arity)
-----------------------------------------------------------------------------
(* The words until BEOA, if they have one.                                 *)
HasEnd(words) == \E i \in 1 .. Len(words) : words[i] = EOA
UntilEnd(words) ==
  First(words, (CHOOSE i \in 1 .. Len(words) :
                  words[i] = EOA /\ \A j \in 1 .. i - 1 : words[j] # EOA) - 1)

(* Mutant: the word that ends the required arguments is not looked at.     *)
EntrySkipsOne(p, words) ==
  LET require == -p.arity - 1 IN
  IF require > VaMax \/ ~ HasEnd(words) \/ Len(UntilEnd(words)) < require THEN Garbage
  ELSE Given(First(words, require),
             IF Len(UntilEnd(words)) = require THEN <<>> ELSE Rest(UntilEnd(words), require + 1))

(* The required arguments go to an array of VaMax, the others up to BEOA   *)
(* to a list.                                                              *)
VaGenericEntry(p, words) ==
  LET require == -p.arity - 1 IN
  IF require > VaMax \/ ~ HasEnd(words) \/ Len(UntilEnd(words)) < require THEN Garbage
  ELSE Given(First(words, require), Rest(UntilEnd(words), require))

(* bgl_va_stack_entry: each pair of the list is a new one of the frame of  *)
(* the entry, which lives as long as the call it makes.                    *)
VaStackEntry(p, words) ==
  LET require == -p.arity - 1
      Pairs == {i \in require + 1 .. Len(words) : \A j \in require + 1 .. i : words[j] # EOA}
  IN IF require > VaMax \/ ~ HasEnd(words) \/ Len(UntilEnd(words)) < require THEN Garbage
     ELSE Given([i \in 1 .. require |-> words[i]],
                [k \in 1 .. Cardinality(Pairs) |-> words[require + k]])

(* opt_generic_entry counts the words up to BEOA and makes a vector.       *)
OptGenericEntry(p, words) ==
  IF HasEnd(words) THEN Given(<<>>, UntilEnd(words)) ELSE Garbage

(* The compiled function takes the words it has parameters for.            *)
Code(p, words) ==
  IF Len(words) < p.arity THEN Garbage ELSE Given(First(words, p.arity), <<>>)

(* An entry that is not that of a generic.                                 *)
Enter(p, words) ==
  CASE p.entry = "code" -> Code(p, words)
    [] p.entry = "va"   -> VaGenericEntry(p, words)
    [] p.entry = "stack" -> VaStackEntry(p, words)
    [] p.entry = "opt"  -> OptGenericEntry(p, words)

(* opt_apply.                                                              *)
OptApply(args) == Given(<<>>, args)

ApplyVa(p, args) ==
  LET require == -p.arity - 1 IN
  IF require > ApplyMax - 1 THEN Refused ELSE Given(First(args, require), Rest(args, require))

(* The call of a fixed procedure by apply has no BEOA.                     *)
ApplyFx(p, args) == IF p.arity > ApplyMax THEN Refused ELSE Enter(p, First(args, p.arity))

ApplyPlain(p, args) ==
  CASE p.opt                 -> OptApply(args)
    [] p.arity < 0 /\ ~ p.opt -> ApplyVa(p, args)
    [] p.arity >= 0          -> ApplyFx(p, args)

(* BGL_PROCEDURE_CALL: BEOA is always there, but in a strict build, where  *)
(* it is there for variable arities only.                                  *)
Words(strict, p, args) == IF strict /\ p.arity >= 0 THEN args ELSE Append(args, EOA)

(* generic_entry collects the arguments up to BEOA and applies the         *)
(* procedure; generic_entry1 to 5 call it.                                 *)
GenericEntry(p, words) ==
  IF HasEnd(words) THEN ApplyPlain(p, UntilEnd(words)) ELSE Garbage

GenericEntryN(strict, p, words) == Enter(p, Words(strict, p, First(words, p.arity)))

(* p, or the generic that is made of it, is called.                        *)
ProcedureCall(c, args) ==
  LET g == BglMakeGeneric(c.proc) IN
  CASE ~ c.generic                         -> Enter(c.proc, Words(c.strict, c.proc, args))
    [] c.generic /\ g.entry = "generic"  -> GenericEntryN(c.strict, c.proc, Words(c.strict, g, args))
    [] c.generic /\ g.entry = "generic*" -> GenericEntry(c.proc, Words(c.strict, g, args))

(* apply: a generic of a variable arity is left for its procedure.         *)
Apply(c, args) ==
  LET g == BglMakeGeneric(c.proc) IN
  CASE ~ c.generic                        -> ApplyPlain(c.proc, args)
    [] c.generic /\ g.arity < 0           -> ApplyPlain(c.proc, args)
    [] c.generic /\ g.arity >= 0          ->
         IF g.arity > ApplyMax THEN Refused
         ELSE IF g.entry = "generic" THEN GenericEntryN(c.strict, c.proc, First(args, g.arity))
              ELSE GenericEntry(c.proc, First(args, g.arity))

(* Mutant: a row is given only to a procedure of its very length.          *)
RowFitsExactly(p, argc) == p.arity = argc

(* The arity test of sqlite_apply.                                         *)
RowFits(p, argc) == (p.arity < 0 /\ -argc - 1 <= p.arity) \/ argc >= p.arity

SqliteApply(c, args) ==
  CASE ~ RowFits(c.proc, Len(args))                           -> Refused
    [] RowFits(c.proc, Len(args)) /\ Len(args) <= RowMax -> ProcedureCall(c, args)
    [] RowFits(c.proc, Len(args)) /\ Len(args) > RowMax  -> Apply(c, args)
-----------------------------------------------------------------------------
InitProcedures ==
  \E required \in 0 .. MaxArgs, kind \in {"fx", "va", "stack", "opt"}, generic, strict \in BOOLEAN,
     n \in 0 .. MaxArgs :
    procedureCall =
      [proc |-> CASE kind = "fx"  -> BglMakeProcedure(required)
                  [] kind = "va"  -> BglMakeProcedure(-required - 1)
                  [] kind = "stack" -> StackProcedure(-required - 1)
                  [] kind = "opt" -> OptProcedure(-required - 1),
       generic |-> generic, strict |-> strict, argc |-> n]

Arguments(n) == [i \in 1 .. n |-> i]
Required(p)  == IF p.arity >= 0 THEN p.arity ELSE -p.arity - 1

(* What the procedure should see of n arguments.                           *)
Asked(p, n) ==
  IF p.opt THEN Given(<<>>, Arguments(n))
  ELSE IF p.arity >= 0 THEN Given(First(Arguments(n), p.arity), <<>>)
       ELSE Given(First(Arguments(n), Required(p)), Rest(Arguments(n), Required(p)))

(* A generic entry that looks for BEOA is called without it.               *)
Unended(c, strict) == c.generic /\ c.proc.arity \in (0 .. MaxArgs) \ (1 .. GenericMax) /\ strict

(* With a right number of arguments a procedure gets the same arguments    *)
(* whether it is called or applied, itself or behind a generic, in a       *)
(* strict build or not; and a row of a query gives each procedure the      *)
(* columns it has parameters for.  Not so when the required arguments of   *)
(* a variable arity overflow the array of va_generic_entry, when apply     *)
(* says that they are too many, or when a generic entry that looks for     *)
(* BEOA is called without it; and not of a row that has fewer columns than *)
(* a procedure of a variable arity requires, which the arity test of       *)
(* sqlite_apply lets through (bglsqlite.c:129-130): the code then calls    *)
(* the procedure with too few arguments.                                   *)
CallsAgree ==
  LET c == procedureCall
      p == c.proc
      args == Arguments(c.argc)
      fitsCall == p.opt \/ p.arity >= 0 \/ Required(p) <= VaMax
      fitsApply == p.opt \/ Required(p) <= IF p.arity < 0 THEN ApplyMax - 1 ELSE ApplyMax
      behind == c.generic /\ p.arity \notin 1 .. GenericMax
  IN /\ CorrectArity(p, c.argc) =>
          /\ (IF behind THEN fitsApply ELSE fitsCall) /\ ~ Unended(c, c.strict)
               => ProcedureCall(c, args) = Asked(p, c.argc)
          /\ fitsApply /\ ~ Unended(c, TRUE) => Apply(c, args) = Asked(p, c.argc)
     /\ ~ c.generic /\ c.argc >= Required(p) /\ fitsCall /\ fitsApply
          => SqliteApply(c, args) = Asked(p, c.argc)
===============================================================================
