------------------------------ MODULE Formats -------------------------------
(***************************************************************************)
(* Data that others define: regular expressions of PCRE                    *)
(* (runtime/Clib/cpcre2.h), answers of the name servers                    *)
(* (runtime/Clib/cresolv.c) and files of dumped objects                    *)
(* (runtime/Clib/cbinary.c).                                               *)
(***************************************************************************)
EXTENDS Integers, Sequences, FiniteSets, SequencesExt

CONSTANTS MaxSubject,   \* bound: length of a subject string
          MaxAnswers,   \* bound: records of an answer
          MaxObjects,   \* bound: objects dumped in a file
          MaxDump       \* bound: length of a dumped object

VARIABLES regexp,                 \* a pattern, a subject and the options
          answer,                 \* the answer of a name server
          file, writer, reader    \* a file of dumped objects

regexpVars == <<regexp>>
answerVars == <<answer>>
binaryVars == <<file, writer, reader>>

-----------------------------------------------------------------------------
(***************************************************************************)
(* Regular expressions.  A pattern is the sequence of its characters.      *)
(* Those of one ordinary character, or of one escaped operator, are        *)
(* matched by the runtime itself, the others by PCRE.                      *)
(***************************************************************************)
Chars    == {"a", "]"}
Patterns == {<<"a">>, <<"]">>, <<"\\", "$">>, <<"(", "a", ")", "|", "]">>,
             <<"^">>, <<"|">>, <<")">>, <<"\\">>}

\* What PCRE takes for operators and the runtime for ordinary characters.
Mistaken == {<<"^">>, <<"|">>, <<")">>, <<"\\">>}

NoMatch == [match |-> FALSE]
Match(pairs) == [match |-> TRUE, pairs |-> pairs]

CharRegexp(pat, caseless) ==
    Len(pat) = 1 /\ pat[1] \notin {"$", "[", "*", "+", "?", ".", "("} /\ ~ caseless
CharEscapeRegexp(pat, caseless) ==
    /\ Len(pat) = 2 /\ pat[1] = "\\" /\ ~ caseless
    /\ pat[2] \in {"\\", "-", "$", "[", "*", "+", "?", ".", "("}

\* PCRE: the first place from beg on, or beg itself when anchored, where an
\* alternative of the pattern is; the pairs are the match and its groups, a
\* group that took no part being <<-1, -1>>.  Subjects count from 0.  A bar
\* alone matches the empty string anywhere, a circumflex at 0; it has no
\* regexp for a backslash or a parenthesis alone.
Unset == <<-1, -1>>
Alternatives(pat) ==
    CASE Len(pat) = 1 -> {<<pat[1], FALSE>>}
      [] Len(pat) = 2 -> {<<pat[2], FALSE>>}
      [] OTHER        -> {<<pat[2], TRUE>>, <<pat[5], FALSE>>}
Captures(pat) == IF Len(pat) <= 2 THEN 0 ELSE 1

PcreEmpty(pat, beg, len) ==
    IF beg <= len /\ (pat = <<"|">> \/ beg = 0) THEN Match(<<<<beg, beg>>>>) ELSE NoMatch

PcreFound(pat, s, beg, len, anchored) ==
    LET Here(i) == {a \in Alternatives(pat) : a[1] = s[i]}
        places  == {i \in beg .. len - 1 : Here(i) # {} /\ (anchored => i = beg)}
    IN  IF places = {} THEN NoMatch
        ELSE LET i == CHOOSE i \in places : \A j \in places : i <= j
                 a == CHOOSE a \in Here(i) : TRUE
             IN  Match(<<<<i, i + 1>>>> \o
                       (IF Captures(pat) = 0 THEN <<>>
                        ELSE IF a[2] THEN <<<<i, i + 1>>>> ELSE <<Unset>>))

PcreMatch(pat, s, beg, len, anchored) ==
    IF pat \in {<<"|">>, <<"^">>} THEN PcreEmpty(pat, beg, len)
    ELSE PcreFound(pat, s, beg, len, anchored)

\* The subject begins offset characters into the string.
From(s, offset) == [i \in 0 .. MaxSubject |-> IF offset + i < Len(s) THEN s[offset + i + 1] ELSE "nul"]

\* The list of the pairs, or of the strings; a group without a match is #f.
BglRegmatch(r, stringp) ==
    LET s == From(r.subject, r.offset)
        m == PcreMatch(r.pat, s, r.beg, r.len, r.anchored)
        Item(p) == CASE p = Unset -> [unset |-> TRUE]
                     [] p # Unset /\ stringp -> [string |-> IF p[1] < p[2] THEN s[p[1]] ELSE ""]
                     [] p # Unset /\ ~ stringp -> [pair |-> p]
    IN  IF m.match THEN Match([i \in DOMAIN m.pairs |-> Item(m.pairs[i])]) ELSE NoMatch

\* The places are written to a vector as far as they fit by pairs; the
\* result is their number, or -1.
Even(n) == n - (n % 2)
FirstOf(s, n) == SubSeq(s, 1, IF n < Len(s) THEN n ELSE Len(s))
BglRegmatchN(r) ==
    LET m == PcreMatch(r.pat, From(r.subject, r.offset), r.beg, r.len, r.anchored)
        pairs == IF m.match THEN FirstOf(m.pairs, Even(r.vlen) \div 2) ELSE <<>>
    IN  [n |-> IF m.match THEN Len(pairs) ELSE -1, vres |-> pairs]

\* The places where the runtime finds the character: the anchored search
\* does not look at the length.
CharPlaces(r, c) ==
    LET s == From(r.subject, r.offset)
    IN  IF r.anchored THEN {i \in {r.beg} : s[i] = c}
        ELSE {i \in r.beg .. r.len - 1 : s[i] = c}

\* Mutant: the place after the character is told.
CharmatchAfter(r, c, stringp) ==
    LET places == CharPlaces(r, c)
        i == CHOOSE i \in places : \A j \in places : i <= j
    IN  IF places = {} THEN NoMatch
        ELSE Match(<<IF stringp THEN [string |-> c] ELSE [pair |-> <<i + 1, i + 1>>]>>)

BglCharmatch(r, c, stringp) ==
    LET places == CharPlaces(r, c)
        i == CHOOSE i \in places : \A j \in places : i <= j
    IN  IF places = {} THEN NoMatch
        ELSE Match(<<IF stringp THEN [string |-> c] ELSE [pair |-> <<i, i + 1>>]>>)

BglCharmatchN(r, c) ==
    LET places == CharPlaces(r, c)
        i == CHOOSE i \in places : \A j \in places : i <= j
    IN  CASE places = {}                      -> [n |-> -1, vres |-> <<>>]
          [] places # {} /\ Even(r.vlen) > 0 -> [n |-> 1, vres |-> <<<<i, i + 1>>>>]
          [] places # {} /\ Even(r.vlen) = 0 -> [n |-> 0, vres |-> <<>>]

\* bgl_regcomp chooses the functions of the regexp.
RegexpMatch(r, stringp) ==
    CASE CharRegexp(r.pat, r.caseless)       -> BglCharmatch(r, r.pat[1], stringp)
      [] CharEscapeRegexp(r.pat, r.caseless) -> BglCharmatch(r, r.pat[2], stringp)
      [] OTHER                               -> BglRegmatch(r, stringp)
RegexpMatchN(r) ==
    CASE CharRegexp(r.pat, r.caseless)       -> BglCharmatchN(r, r.pat[1])
      [] CharEscapeRegexp(r.pat, r.caseless) -> BglCharmatchN(r, r.pat[2])
      [] OTHER                               -> BglRegmatchN(r)

InitRegexp ==
    \E n \in 0 .. MaxSubject, pat \in Patterns : \E s \in [1 .. n -> Chars \cup {Last(pat)}],
       anchored, caseless \in BOOLEAN, offset \in 0 .. 1, beg \in 0 .. n, len \in 0 .. n, vlen \in {1, 2, 5} :
        /\ offset + len <= n
        /\ pat \in {<<")">>, <<"\\">>} => ~ caseless
        /\ regexp = [pat |-> pat, subject |-> s, anchored |-> anchored, caseless |-> caseless,
                     offset |-> offset, beg |-> beg, len |-> len, vlen |-> vlen]

(***************************************************************************)
(* The runtime's own search for a character finds what PCRE would, as a    *)
(* string, as places and in a vector, from any beginning and offset, with  *)
(* and without ANCHORED (which must begin before the end); and matching in *)
(* a vector writes the first places that matching in a list gives.         *)
(* Exception: a pattern that is ^, |, ) or \ alone finds that character,   *)
(* as if it were escaped, where PCRE finds the empty string, or raises.    *)
(***************************************************************************)
RegexpsAgree ==
    LET r == regexp
        inside == r.anchored => r.beg < r.len
        m == RegexpMatch(r, FALSE)
        v == RegexpMatchN(r)
        e == IF r.pat \in Mistaken /\ ~ r.caseless
             THEN [r EXCEPT !.pat = <<"\\">> \o r.pat] ELSE r    \* the exception
    IN  /\ inside => /\ \A stringp \in BOOLEAN : RegexpMatch(r, stringp) = BglRegmatch(e, stringp)
                     /\ RegexpMatchN(r) = BglRegmatchN(e)
        /\ m.match = (v.n >= 0)
        /\ m.match => \A i \in 1 .. v.n : v.vres[i] # Unset => m.pairs[i] = [pair |-> v.vres[i]]

-----------------------------------------------------------------------------
(***************************************************************************)
(* Answers of a name server.  The data of a record begin with a name, a    *)
(* sequence of labels, or with a number (MX).  ns_name_uncompress writes   *)
(* the labels with dots in between, and escapes a dot and a blank that are *)
(* part of a label; it stops at a label of length 0, which is what the     *)
(* first byte of a number below 256 is.  The data of a TXT record are      *)
(* taken for a name.                                                       *)
(***************************************************************************)
Labels == {<<"x">>, <<"x", ".", "y">>, <<"x", " ">>, <<"0">>}
NsTypes == {"ns_t_cname", "ns_t_txt", "ns_t_mx", "ns_t_srv", "ns_t_naptr", "ns_t_a"}
Numbered == {"ns_t_mx", "ns_t_srv", "ns_t_naptr"}

Nstype(name) == IF name \in NsTypes THEN name ELSE "bad query type"

EscapedChar(c) == CASE c = "." -> <<"\\", ".">> [] c = " " -> <<"\\", "0", "3", "2">> [] OTHER -> <<c>>
Escaped(label) == FlattenSeq([i \in DOMAIN label |-> EscapedChar(label[i])])
Dotted(parts)  == FlattenSeq([i \in DOMAIN parts |-> IF i = 1 THEN parts[i] ELSE <<".">> \o parts[i]])
NsNameUncompress(data) == IF data.number > 0 THEN <<>> ELSE Dotted([i \in DOMAIN data.name |-> Escaped(data.name[i])])

CharOf(s, i) == IF i \in DOMAIN s THEN s[i] ELSE "nul"

\* Mutant: the digits of an escaped blank are copied after it.
StepKeepsDigits(s, st) ==
    LET c == CharOf(s, st.r)
        n == CharOf(s, st.r + 1)
    IN  CASE c # "\\"            -> [r |-> st.r + 1, w |-> Append(st.w, c)]
          [] c = "\\" /\ n = "." -> [r |-> st.r + 2, w |-> Append(st.w, ".")]
          [] c = "\\" /\ n = "0" -> [r |-> st.r + 2, w |-> Append(st.w, " ")]
          [] OTHER               -> [r |-> st.r + 2, w |-> st.w \o <<"\\", n>>]

\* One turn of the loop of bgl_sprintrr.
SprintrrStep(s, st) ==
    LET c == CharOf(s, st.r)
        n == CharOf(s, st.r + 1)
        blank == CharOf(s, st.r + 2) = "3" /\ CharOf(s, st.r + 3) = "2"
    IN  CASE c # "\\"                       -> [r |-> st.r + 1, w |-> Append(st.w, c)]
          [] c = "\\" /\ n = "."            -> [r |-> st.r + 2, w |-> Append(st.w, ".")]
          [] c = "\\" /\ n = "0" /\ blank -> [r |-> st.r + 4, w |-> Append(st.w, " ")]
          [] OTHER                          -> [r |-> st.r + 2, w |-> st.w \o <<"\\", n>>]

BglSprintrr(data) ==
    LET s == NsNameUncompress(data)
        Turn(st, i) == IF st.r <= Len(s) THEN SprintrrStep(s, st) ELSE st
    IN  FoldLeft(Turn, [r |-> 1, w |-> <<>>], [i \in 1 .. Len(s) |-> i]).w

BUnspec == [unspec |-> TRUE]

\* A record that does not parse, or whose name does not, is left out.
RrFormatMx(rr)      == IF rr.ok THEN [host |-> BglSprintrr(rr.data), pri |-> rr.data.number] ELSE BUnspec

\* The text is cut at its last three blanks, or at six quotes.
Occurs(c, s) == Cardinality({i \in DOMAIN s : s[i] = c})
RrFormatSrv(rr) ==
    IF rr.ok /\ Occurs(" ", BglSprintrr(rr.data)) >= 3
    THEN [text |-> BglSprintrr(rr.data), pri |-> rr.data.number] ELSE BUnspec
RrFormatNaptr(rr) ==
    IF rr.ok /\ Occurs("\"", BglSprintrr(rr.data)) >= 6
    THEN [text |-> BglSprintrr(rr.data)] ELSE BUnspec

RrFormatCname(rr)   == IF rr.ok THEN [host |-> BglSprintrr(rr.data)] ELSE BUnspec
RrFormatTxt(rr)     == IF rr.ok THEN [host |-> BglSprintrr(rr.data)] ELSE BUnspec
RrFormatDefault(rr) == [host |-> rr.owner]

GetRrFormat(type, rr) ==
    CASE type = "ns_t_mx"    -> RrFormatMx(rr)
      [] type = "ns_t_srv"   -> RrFormatSrv(rr)
      [] type = "ns_t_naptr" -> RrFormatNaptr(rr)
      [] type = "ns_t_cname" -> RrFormatCname(rr)
      [] type = "ns_t_txt"   -> RrFormatTxt(rr)
      [] OTHER               -> RrFormatDefault(rr)

\* The records that give a value are moved to the front of the vector, and
\* the vector is cut after them.
BglResQuery(a) ==
    LET type == Nstype(a.type)
        Kept(st, rr) ==
            LET o == GetRrFormat(type, rr)
            IN  IF o = BUnspec THEN st ELSE [v |-> [st.v EXCEPT ![st.j + 1] = o], j |-> st.j + 1]
        end == FoldLeft(Kept, [v |-> [i \in DOMAIN a.records |-> BUnspec], j |-> 0], a.records)
    IN  SubSeq(end.v, 1, end.j)

Records(type) ==
    [ok : IF type = "ns_t_a" THEN {TRUE} ELSE BOOLEAN, owner : {<<"o">>},
     data : {[number |-> n, name |-> name] :
               n \in (IF type \in Numbered THEN {1, 2} ELSE {0}),
               name \in {<<l>> : l \in Labels} \cup {<<l, <<"z">>>> : l \in Labels}}]

InitAnswer ==
    \E type \in NsTypes, n \in 0 .. MaxAnswers : \E records \in [1 .. n -> Records(type)] :
        answer = [type |-> type, records |-> records]

(***************************************************************************)
(* The answer to a query has one value for each record that parses, in     *)
(* their order; a canonical name is told with the dots and the blanks of   *)
(* its labels as they are, and a mail exchange with its priority.          *)
(* Exceptions: bgl_sprintrr reads the number that data begin with as an    *)
(* empty name, so that the host of a mail exchange is empty, and that no   *)
(* SRV and no NAPTR record is told.                                        *)
(***************************************************************************)
AnswersExact ==
    LET good == SelectSeq(answer.records, LAMBDA rr : rr.ok)
        v == BglResQuery(answer)
    IN  IF answer.type \in {"ns_t_srv", "ns_t_naptr"} THEN v = <<>>
        ELSE /\ Len(v) = Len(good)
             /\ answer.type = "ns_t_cname" =>
                  \A i \in DOMAIN v : v[i].host = Dotted(good[i].data.name)
             /\ answer.type = "ns_t_mx" =>
                  \A i \in DOMAIN v : v[i].pri = good[i].data.number /\ v[i].host = <<>>

-----------------------------------------------------------------------------
(***************************************************************************)
(* Files of dumped objects.  An object is written as the magic word (two   *)
(* bytes here), its length and its bytes; it is a pair of its length and   *)
(* its number.  stdio keeps what is written until it, or a flush or close, *)
(* writes it; the program that writes may die before.  The reader may open *)
(* the file before, and keeps the end of file that it met.                 *)
(***************************************************************************)
Bytes(o) == <<"m", "w", ToString(o[1])>> \o [i \in 1 .. o[1] |-> ToString(o[2])]

InitBinary ==
    /\ file = <<>>
    /\ writer = [io |-> "out", buffer |-> <<>>, dumped |-> <<>>]
    /\ reader = [io |-> "closed", pos |-> 0, eof |-> FALSE, got |-> <<>>, failed |-> FALSE]

\* output_obj: three fwrites.
OutputObj(len) ==
    /\ writer.io = "out"
    /\ Len(writer.dumped) < MaxObjects
    /\ LET o == <<len, Len(writer.dumped) + 1>>
       IN  writer' = [writer EXCEPT !.buffer = @ \o Bytes(o), !.dumped = Append(@, o)]
    /\ UNCHANGED <<file, reader>>

\* stdio writes the first n bytes of its buffer.
Spilled(n) ==
    /\ file' = file \o SubSeq(writer.buffer, 1, n)
    /\ writer' = [writer EXCEPT !.buffer = SubSeq(@, n + 1, Len(@))]

Spills ==
    /\ writer.io = "out"
    /\ \E n \in 1 .. Len(writer.buffer) : Spilled(n)
    /\ UNCHANGED reader

BglFlushBinaryPort ==
    /\ writer.io = "out" /\ writer.buffer # <<>>
    /\ Spilled(Len(writer.buffer))
    /\ UNCHANGED reader

CloseBinaryPort ==
    /\ writer.io = "out"
    /\ file' = file \o writer.buffer
    /\ writer' = [writer EXCEPT !.io = "closed", !.buffer = <<>>]
    /\ UNCHANGED reader

\* The writing program dies.
WriterDies ==
    /\ writer.io = "out"
    /\ writer' = [writer EXCEPT !.io = "dead", !.buffer = <<>>]
    /\ UNCHANGED <<file, reader>>

\* append_output_binary_file, by a program that runs after it.
AppendOutputBinaryFile ==
    /\ writer.io = "closed"
    /\ writer' = [writer EXCEPT !.io = "out"]
    /\ UNCHANGED <<file, reader>>

OpenInputBinaryFile ==
    /\ reader.io = "closed"
    /\ reader' = [reader EXCEPT !.io = "in"]
    /\ UNCHANGED <<file, writer>>

\* fread of n bytes as one item: nothing, and the end of file, when fewer
\* are left.
Left == Len(file) - reader.pos
Fails == reader' = [reader EXCEPT !.failed = TRUE, !.pos = Len(file), !.eof = TRUE]

LengthAt(pos) == CHOOSE n \in 0 .. MaxDump : ToString(n) = file[pos]


\* The bytes of the object are read, and the object made of them.
ObjectRead(len) ==
    IF Left < 3 + len THEN Fails
    ELSE reader' = [reader EXCEPT !.pos = @ + 3 + len,
                                  !.got = Append(@, <<len, file[reader.pos + 4]>>)]

\* input_obj; after a failure the position is anywhere in the file, and the
\* program closes the port.
InputObj ==
    /\ reader.io = "in" /\ ~ reader.failed
    /\ CASE reader.eof -> UNCHANGED reader
         [] ~ reader.eof /\ Left < 2 ->
              reader' = [reader EXCEPT !.eof = TRUE, !.pos = Len(file)]
         [] ~ reader.eof /\ Left >= 2 /\ SubSeq(file, reader.pos + 1, reader.pos + 2) # <<"m", "w">> -> Fails
         [] ~ reader.eof /\ Left = 2 -> Fails
         [] OTHER -> ObjectRead(LengthAt(reader.pos + 3))
    /\ UNCHANGED <<file, writer>>

BinaryNext ==
    \/ \E len \in 1 .. MaxDump : OutputObj(len)
    \/ Spills \/ BglFlushBinaryPort \/ CloseBinaryPort \/ WriterDies
    \/ AppendOutputBinaryFile
    \/ OpenInputBinaryFile \/ InputObj

\* Where the kth object ends.
Extent(k) == Len(FlattenSeq([i \in 1 .. k |-> Bytes(writer.dumped[i])]))

(***************************************************************************)
(* The objects that are read are the first ones that were dumped, in their *)
(* order, whatever part of the file was written when it was read and       *)
(* wherever the writer died; and reading fails only in a file that ends in *)
(* the middle of an object.                                                *)
(***************************************************************************)
ObjectsExact ==
    /\ Len(reader.got) <= Len(writer.dumped)
    /\ \A i \in DOMAIN reader.got :
         reader.got[i] = <<writer.dumped[i][1], ToString(writer.dumped[i][2])>>
    /\ reader.failed => /\ Len(reader.got) < Len(writer.dumped)
                        /\ reader.pos < Extent(Len(reader.got) + 1)

-----------------------------------------------------------------------------
(***************************************************************************)
(* Queries of the sqlite library (api/sqlite/src/Posix/bglsqlite.c).       *)
(* sqlite3_exec calls back for each row; the callback calls a Scheme       *)
(* procedure, which may start another query before it returns: queries is  *)
(* the stack of the queries under way.  A row is the value of its first    *)
(* column, and the value of a procedure is the row it was given.           *)
(***************************************************************************)
CONSTANTS Rows,         \* values of the first column, Null among them
          Null,         \* the value NULL of a column
          MaxRows,      \* bound: rows of a query
          MaxNesting    \* bound: queries within queries

VARIABLES db,           \* "open" or "closed", and the query that ended last
          queries

sqliteVars == <<db, queries>>

False  == [is |-> "#f"]
Unspecified == [is |-> "unspecified"]
Message == [is |-> "message"]
Value(v) == [is |-> "value", of |-> v]
Kinds == {"exec", "eval", "get", "map", "for-each", "run"}

\* sqlite_make_vector and string_to_bstring: NULL is unspecified.
Column(v) == IF v = Null THEN Unspecified ELSE Value(v)

\* What a query has before its first row: result, result[1], tmp[1].
Empty(kind) == IF kind = "map" THEN <<>> ELSE False

Top == queries[Len(queries)]
Below == SubSeq(queries, 1, Len(queries) - 1)

InitSqlite ==
    /\ db = [state |-> "open", last |-> <<>>]
    /\ queries = <<>>

\* bgl_sqlite_exec, _eval, _get, _map, _for_each, _run: sqlite3_exec begins.
Starts(kind, rows) ==
    /\ db.state = "open"
    /\ Len(queries) < MaxNesting
    /\ queries # <<>> => Top.pc = "procedure"
    /\ queries' = Append(queries, [kind |-> kind, rows |-> rows, next |-> 1, pc |-> "rows",
                                   result |-> Empty(kind), called |-> <<>>])
    /\ db' = [db EXCEPT !.last = <<>>]

\* The next row: sqlite_callback_exec, or the procedure is called.
Row ==
    /\ queries # <<>>
    /\ Top.pc = "rows"
    /\ Top.next <= Len(Top.rows)
    /\ LET q == Top
           v == Column(q.rows[q.next])
       IN  queries' = Append(Below,
             CASE q.kind = "exec" -> [q EXCEPT !.result = v, !.next = @ + 1]
               [] q.kind = "run"  -> [q EXCEPT !.next = @ + 1]
               [] OTHER -> [q EXCEPT !.pc = "procedure", !.called = Append(@, v)])
    /\ UNCHANGED db

Onward(q) == [q EXCEPT !.pc = "rows", !.next = @ + 1]

\* What a callback does with the value of the procedure.
SqliteCallbackEval(q, v)    == [Onward(q) EXCEPT !.result = v]
SqliteCallbackMap(q, v)     == [Onward(q) EXCEPT !.result = <<v>> \o @]
SqliteCallbackForEach(q, v) == Onward(q)

\* Mutant: the query of get goes on.
GetGoesOn(q, v) == Onward(q)

\* The 1 that it returns aborts the query.
SqliteCallbackGet(q, v) == [q EXCEPT !.pc = "rows", !.next = Len(q.rows) + 1]

ProcedureReturns ==
    /\ queries # <<>>
    /\ Top.pc = "procedure"
    /\ LET q == Top
           v == Column(q.rows[q.next])
       IN  queries' = Append(Below,
             CASE q.kind = "eval"     -> SqliteCallbackEval(q, v)
               [] q.kind = "map"      -> SqliteCallbackMap(q, v)
               [] q.kind = "for-each" -> SqliteCallbackForEach(q, v)
               [] q.kind = "get"      -> SqliteCallbackGet(q, v))
    /\ UNCHANGED db

\* What a query returns.
BglSqliteExec(q)    == q.result
BglSqliteEval(q)    == q.result
BglSqliteGet(q)     == Unspecified       \* the status of sqlite3_exec
BglSqliteForEach(q) == Unspecified
BglSqliteRun(q)     == Unspecified

\* Mutant: the list stays as it was built.
MapUnreversed(q) == q.result

BglSqliteMap(q) == Reverse(q.result)

Answer(q) ==
    CASE q.kind = "exec"     -> BglSqliteExec(q)
      [] q.kind = "eval"     -> BglSqliteEval(q)
      [] q.kind = "get"      -> BglSqliteGet(q)
      [] q.kind = "map"      -> BglSqliteMap(q)
      [] q.kind = "for-each" -> BglSqliteForEach(q)
      [] q.kind = "run"      -> BglSqliteRun(q)

Ends ==
    /\ queries # <<>>
    /\ Top.pc = "rows"
    /\ Top.next > Len(Top.rows)
    /\ queries' = Below
    /\ db' = [db EXCEPT !.last = <<[kind |-> Top.kind, rows |-> Top.rows,
                                    answer |-> Answer(Top), called |-> Top.called]>>]

\* sqlite3_exec fails (SQLITE_BUSY, an error of the database): an error is
\* raised, and so, uncaught, in the queries around.
QueryFails ==
    /\ queries # <<>>
    /\ Top.pc = "rows" /\ Top.kind # "run"
    /\ queries' = <<>>
    /\ db' = [db EXCEPT !.last = <<>>]

\* sqlite-run returns the message.
RunFails ==
    /\ queries # <<>>
    /\ Top.pc = "rows" /\ Top.kind = "run"
    /\ queries' = Below
    /\ db' = [db EXCEPT !.last = <<[kind |-> "run", rows |-> Top.rows, answer |-> Message,
                                    called |-> <<>>]>>]

\* sqlite-close, anywhere in the program: sqlite3_close refuses while a
\* query is under way.
BglSqliteClose ==
    /\ db.state = "open"
    /\ queries # <<>> => Top.pc = "procedure"
    /\ db' = IF queries = <<>> THEN [db EXCEPT !.state = "closed"] ELSE db
    /\ UNCHANGED queries

SqliteNext ==
    \/ \E kind \in Kinds, n \in 0 .. MaxRows : \E rows \in [1 .. n -> Rows] : Starts(kind, rows)
    \/ Row
    \/ ProcedureReturns
    \/ Ends
    \/ QueryFails
    \/ RunFails
    \/ BglSqliteClose

(***************************************************************************)
(* A query, alone or within the procedure of another one, answers from its *)
(* own rows: exec and eval tell the last one, map all of them in order,    *)
(* for-each calls the procedure once for each one in order, get for the    *)
(* first one only; and no query runs on a closed database.                 *)
(***************************************************************************)
QueriesExact ==
    /\ queries # <<>> => db.state = "open"
    /\ \A i \in DOMAIN db.last :
         LET q == db.last[i]
             cols == [j \in DOMAIN q.rows |-> Column(q.rows[j])]
             n == Len(cols)
         IN  /\ q.kind \in {"exec", "eval"} => q.answer = IF n = 0 THEN False ELSE cols[n]
             /\ q.kind = "map" => q.answer = cols
             /\ q.kind \in {"eval", "map", "for-each"} => q.called = cols
             /\ q.kind = "get" => q.called = SubSeq(cols, 1, IF n = 0 THEN 0 ELSE 1)

=============================================================================
