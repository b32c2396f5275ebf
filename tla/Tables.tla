-------------------------------- MODULE Tables --------------------------------
(***************************************************************************)
(* Two tables that the runtime shares with every thread.  The symbol table *)
(* of csymbol.c: one list of symbols per hash key under symbol_mutex, in   *)
(* which gensyms enter only when somebody asks for their name.  The weak   *)
(* pointers of cweakptr.c: a cell that the collector does not trace, and   *)
(* the disappearing links that clear it when its object is collected.      *)
(***************************************************************************)
EXTENDS Integers, Sequences, FiniteSets, FiniteSetsExt

CONSTANTS
  Callers,     \* the threads that use symbols
  Stems,       \* prefixes of names; a name is a prefix and a number, 0 for none
  MaxSymbols,  \* bound: symbols made
  Objects,     \* objects of the collected heap
  Unspec       \* BUNSPEC, and any other value that the collector does not move

VARIABLES
  symtab,      \* c_symtab: the symbols of each key, in order
  string,      \* the string field of each symbol, NoString while it is 0
  counter,     \* gensym_counter
  caller,      \* per thread, the symbol that it is about to name, or 0
  renamed,     \* symbols that two threads named
  symresult,   \* what the last call returned
  alive,       \* objects that the collector has not reclaimed
  roots,       \* objects that the program still holds
  weak         \* the weak pointer: data (Null when cleared), ref and links

symbolVars == <<symtab, string, counter, caller, renamed, symresult>>
weakVars   == <<alive, roots, weak>>

NoString == <<"", 0>>
Null     == "null"
Nothing  == [kind |-> "none"]
Shared   == CHOOSE p \in Stems : TRUE
Names    == Stems \X (0 .. MaxSymbols)

(* get_hash_power_number and get_hash_power_number_len agree on every name *)
(* without a zero byte.  Here the names of even and of odd numbers collide.*)
HashPower(name) == name[2] % 2

(* Mutant: the hash of a name with its length drops the number.            *)
HashOfPrefix(name) == 0
HashPowerLen(name) == name[2] % 2

Symbols == 1 .. Len(string)

InitSymbols ==
  /\ symtab = [h \in 0 .. 1 |-> <<>>] /\ string = <<>> /\ counter = 0
  /\ caller = [t \in Callers |-> 0] /\ renamed = {} /\ symresult = Nothing

(* The walk along a bucket ends at the first symbol with the name or with  *)
(* no name at all: its position, 0 when it meets neither.                  *)
Position(bucket, strings, name) ==
  LET at == {i \in 1 .. Len(bucket) : strings[bucket[i]] \in {name, NoString}}
  IN IF at = {} THEN 0 ELSE Min(at)

(* make_symbol with the given string, 0 for a gensym.                      *)
MakeSymbol(name) == Append(string, name)

(* bgl_bstring_to_symbol, in one step under the mutex: the symbol of the   *)
(* bucket, or a new one at its end.                                        *)
BstringToSymbol(t, name) ==
  LET bucket == symtab[HashPowerLen(name)]
      i      == Position(bucket, string, name)
  IN /\ caller[t] = 0
     /\ IF i # 0
        THEN /\ symresult' = [kind |-> "symbol", of |-> name, is |-> bucket[i]]
             /\ UNCHANGED <<symtab, string>>
        ELSE /\ Len(string) < MaxSymbols
             /\ string' = MakeSymbol(name)
             /\ symtab' = [symtab EXCEPT ![HashPowerLen(name)] = Append(@, Len(string'))]
             /\ symresult' = [kind |-> "symbol", of |-> name, is |-> Len(string')]
     /\ UNCHANGED <<counter, caller, renamed>>

SymbolExistsSansLock(name) == Position(symtab[HashPower(name)], string, name) # 0

(* symbol-exists?                                                          *)
SymbolExistsP(t, name) ==
  /\ caller[t] = 0
  /\ symresult' = [kind |-> "exists", of |-> name, is |-> SymbolExistsSansLock(name)]
  /\ UNCHANGED <<symtab, string, counter, caller, renamed>>

(* The numbers are tried in turn until the name is not one of the table.   *)
FreeNumbers(prefix) == {n \in counter + 1 .. MaxSymbols : ~SymbolExistsSansLock(<<prefix, n>>)}

(* bgl_symbol_genname, under the mutex.  It does not look whether somebody *)
(* else has named the symbol meanwhile: it then gets a second name and is  *)
(* a second time in the table.                                             *)
SymbolGenname(s, strings, prefix) ==
  LET n == Min(FreeNumbers(prefix))
      h == HashPower(<<prefix, n>>)
  IN /\ FreeNumbers(prefix) # {}
     /\ counter' = n
     /\ string' = [strings EXCEPT ![s] = <<prefix, n>>]
     /\ symtab' = [symtab EXCEPT ![h] = <<s>> \o @]
     /\ symresult' = [kind |-> "name", of |-> s, is |-> <<prefix, n>>]

(* bgl_gensym without a name makes a symbol that no table knows.           *)
Gensym(t, prefix) ==
  /\ caller[t] = 0 /\ Len(string) < MaxSymbols
  /\ \/ /\ string' = MakeSymbol(NoString)
        /\ symresult' = [kind |-> "gensym", is |-> Len(string')]
        /\ UNCHANGED <<symtab, counter>>
     \/ SymbolGenname(Len(string) + 1, MakeSymbol(NoString), prefix)
  /\ UNCHANGED <<caller, renamed>>

(* SYMBOL_TO_STRING tests the string without the mutex: a symbol that has  *)
(* one is answered at once, another is named in a second step.             *)
SymbolToString(t, s) ==
  /\ caller[t] = 0
  /\ IF string[s] = NoString
     THEN caller' = [caller EXCEPT ![t] = s] /\ UNCHANGED symresult
     ELSE /\ symresult' = [kind |-> "name", of |-> s, is |-> string[s]]
          /\ UNCHANGED caller
  /\ UNCHANGED <<symtab, string, counter, renamed>>

NameGensym(t) ==
  /\ caller[t] # 0
  /\ SymbolGenname(caller[t], string, Shared)
  /\ caller' = [caller EXCEPT ![t] = 0]
  /\ renamed' = IF string[caller[t]] = NoString THEN renamed ELSE renamed \cup {caller[t]}

SymbolNext ==
  \E t \in Callers :
    \/ \E p \in Stems, n \in 0 .. 2 :
         BstringToSymbol(t, <<p, n>>) \/ SymbolExistsP(t, <<p, n>>)
    \/ \E p \in Stems : Gensym(t, p)
    \/ \E s \in Symbols : SymbolToString(t, s)
    \/ NameGensym(t)

(* A name and its symbol stay together: string->symbol of the name that    *)
(* symbol->string would answer is the symbol itself, for a gensym too, so  *)
(* no two symbols have one name, in whatever order the threads intern and  *)
(* name; and no symbol without a name is ever in the table, where it would *)
(* end every search.  What a call returned agrees with the table.          *)
SymbolsExact ==
  /\ \A s \in Symbols : string[s] # NoString =>
       LET bucket == symtab[HashPowerLen(string[s])]
           i      == Position(bucket, string, string[s])
       IN i # 0 /\ bucket[i] = s
  /\ \A h \in DOMAIN symtab : \A i \in 1 .. Len(symtab[h]) :
       string[symtab[h][i]] # NoString /\ (symtab[h][i] \notin renamed =>
         HashPower(string[symtab[h][i]]) = h)
  /\ symresult.kind = "symbol" =>
       string[symresult.is] = symresult.of \/ symresult.is \in renamed

(***************************************************************************)
(* Weak pointers.                                                          *)
(***************************************************************************)
Values == Objects \cup {Unspec}

(* A link is the object at whose death the collector clears the field.     *)
Linked(data, old) == IF data \in Objects THEN data ELSE old

(* bgl_make_weakptr(data, ref), of what the program holds.                 *)
InitWeak ==
  /\ alive = Objects /\ roots = Objects
  /\ \E data, ref \in Values :
       weak = [data |-> data, ref |-> ref, crashed |-> FALSE,
               datalink |-> Linked(data, Unspec), reflink |-> Linked(data, Unspec)]

DataGetter == IF weak.data = Null THEN Unspec ELSE weak.data
RefGetter  == weak.ref

(* Mutant: the links of the old object stay when the new value needs none. *)
DataSetKeepsLinks(data) ==
  /\ data \in roots \cup {Unspec} /\ weak.data # Null
  /\ weak' = [weak EXCEPT !.data = data, !.datalink = Linked(data, @), !.reflink = Linked(data, @)]
  /\ UNCHANGED <<alive, roots>>

(* bgl_weakptr_data_set.  The old object is on the stack until its links   *)
(* are unregistered, and the new one while it is registered, so nothing    *)
(* disappears meanwhile.  The cell of a cleared pointer is gone: the code  *)
(* stores through a null pointer.                                          *)
WeakptrDataSet(data) ==
  LET drop(link) == IF DataGetter \in Objects THEN Unspec ELSE link
  IN /\ data \in roots \cup {Unspec}
     /\ weak' = IF weak.data = Null THEN [weak EXCEPT !.crashed = TRUE]
                ELSE [weak EXCEPT !.data = data, !.datalink = Linked(data, drop(@)),
                                  !.reflink = Linked(data, drop(@))]
     /\ UNCHANGED <<alive, roots>>

(* bgl_weakptr_ref_set: the new ref goes when the data does, as the old.   *)
WeakptrRefSet(ref) ==
  LET drop(link) == IF RefGetter \in Objects THEN Unspec ELSE link
  IN /\ ref \in roots \cup {Unspec}
     /\ weak' = [weak EXCEPT !.ref = ref, !.reflink = Linked(DataGetter, drop(@))]
     /\ UNCHANGED <<alive, roots>>

(* bgl_weakptr_data and bgl_weakptr_ref: what they answer the program may  *)
(* hold again.                                                             *)
WeakptrData ==
  /\ roots' = roots \cup ({DataGetter} \cap Objects)
  /\ UNCHANGED <<alive, weak>>
WeakptrRef ==
  /\ roots' = roots \cup ({IF RefGetter = Null THEN Unspec ELSE RefGetter} \cap Objects)
  /\ UNCHANGED <<alive, weak>>

Forget(o) ==
  /\ o \in roots
  /\ roots' = roots \ {o} /\ UNCHANGED <<alive, weak>>

(* The collector reclaims an object that neither the program nor the ref   *)
(* field holds, and clears the fields that are linked to it.               *)
Collect(o) ==
  LET clear(field, link) == IF link = o THEN Null ELSE field
      off(link) == IF link = o THEN Unspec ELSE link
  IN /\ o \in alive \ (roots \cup {weak.ref})
     /\ alive' = alive \ {o}
     /\ weak' = [weak EXCEPT !.data = clear(@, weak.datalink), !.ref = clear(@, weak.reflink),
                             !.datalink = off(@), !.reflink = off(@)]
     /\ UNCHANGED roots

WeakNext ==
  /\ ~weak.crashed
  /\ \/ \E v \in Values : WeakptrDataSet(v) \/ WeakptrRefSet(v)
     \/ WeakptrData \/ WeakptrRef
     \/ \E o \in Objects : Forget(o) \/ Collect(o)

(* A weak pointer never gives an object that was collected, in either      *)
(* field, never loses one that is alive, and its links are those of the    *)
(* value it holds, so that what comes next cannot clear it wrongly.        *)
WeakExact ==
  /\ {weak.data, weak.ref} \cap Objects \subseteq alive
  /\ weak.data # Null => /\ weak.datalink = Linked(weak.data, Unspec)
                         /\ weak.reflink = weak.datalink
  /\ weak.data = Null => weak.datalink = Unspec

(***************************************************************************)
(* Both tables, for theorems about them: a name starts with a prefix that  *)
(* is not empty, and BUNSPEC is neither an object nor the null pointer.    *)
(***************************************************************************)
TablesConstants ==
  /\ Stems # {} /\ "" \notin Stems /\ MaxSymbols \in Nat
  /\ Null \notin Objects /\ Unspec \notin Objects /\ Unspec # Null

tablesVars == <<symbolVars, weakVars>>

TablesNext == (SymbolNext /\ UNCHANGED weakVars) \/ (WeakNext /\ UNCHANGED symbolVars)

TablesSpec == InitSymbols /\ InitWeak /\ [][TablesNext]_tablesVars

TablesExact == SymbolsExact /\ WeakExact
===============================================================================
