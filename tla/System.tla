------------------------------ MODULE System -------------------------------
(***************************************************************************)
(* The runtime's view of the operating system: dates                       *)
(* (runtime/Clib/cdate.c), signals, the password file and the groups       *)
(* (runtime/Clib/csystem.c).                                               *)
(***************************************************************************)
EXTENDS Integers, Sequences, FiniteSets, CInteger

CONSTANTS Users,        \* threads that install signals and ask for users
          Signals,      \* signal numbers, SEGV among them
          SEGV,
          Handlers,     \* Scheme procedures
          MaxInstalls,  \* calls of signal
          Nobody        \* no thread

VARIABLES date,                          \* an instant, a zone and an update
          table, disposition, signals,   \* bgl_signal
          passwd, asker,                 \* getpwnam and its static buffer
          static, teller,                \* the static buffers of dates
          groups                         \* getgroups

dateVars   == <<date>>
signalVars == <<table, disposition, signals>>
passwdVars == <<passwd, asker>>
stampVars  == <<static, teller>>
groupVars  == <<groups>>

-----------------------------------------------------------------------------
(***************************************************************************)
(* Dates.  The civil calendar is the C library's; here it has 2 seconds in *)
(* a minute, 2 minutes in an hour, 4 hours in a day, 2 days in a month and *)
(* 2 months in a year, and a second has 2 milliseconds, 4 microseconds and *)
(* 8 nanoseconds: every carry of the real one happens, in small numbers.   *)
(***************************************************************************)
Milli == 2
Micro == 4
Nano  == 8
HourSeconds == 4

gmtime(t) ==
    [sec |-> t % 2, min |-> (t \div 2) % 2, hour |-> (t \div 4) % 4,
     mday |-> ((t \div 16) % 2) + 1, mon |-> (t \div 32) % 2, year |-> t \div 64,
     yday |-> (t \div 16) % 4]

\* timegm and mktime accept fields out of their range and normalize them.
timegm(tm) == tm.sec + 2 * tm.min + 4 * tm.hour + 16 * (tm.mday - 1)
                     + 32 * tm.mon + 64 * tm.year

localtime(t) == gmtime(t + date.zone)
Gmtoff == date.zone

BglSecondsToDate(s) ==
    [tm |-> localtime(s), time |-> s, nsec |-> 0, gmtoff |-> Gmtoff, isgmt |-> FALSE]

BglSecondsToGmtdate(s) ==
    [tm |-> gmtime(s), time |-> s, nsec |-> 0, gmtoff |-> 0, isgmt |-> FALSE]

BglMillisecondsToGmtdate(ms) ==
    LET s == CDiv(ms, Milli)
    IN  [tm |-> gmtime(s), time |-> s, nsec |-> (ms - s * Milli) * (Nano \div Milli),
         gmtoff |-> 0, isgmt |-> FALSE]

\* Mutant: the rest is kept in milliseconds.
RestInMilliseconds(ms) ==
    LET s == CDiv(ms, Milli)
    IN  [tm |-> localtime(s), time |-> s, nsec |-> ms - s * Milli,
         gmtoff |-> Gmtoff, isgmt |-> FALSE]

BglMillisecondsToDate(ms) ==
    LET s == CDiv(ms, Milli)
    IN  [tm |-> localtime(s), time |-> s, nsec |-> (ms - s * Milli) * (Nano \div Milli),
         gmtoff |-> Gmtoff, isgmt |-> FALSE]

BglNanosecondsToDate(ns) ==
    LET s == CDiv(ns, Nano)
    IN  [tm |-> localtime(s), time |-> s, nsec |-> ns - s * Nano,
         gmtoff |-> Gmtoff, isgmt |-> FALSE]

\* The fields as they are given, with the seconds that the nanoseconds make;
\* a date with a time zone is UTC time less the zone.
GivenFields(ns, s, m, hr, mday, mon, year) ==
    [sec |-> s + CDiv(ns, Nano), min |-> m, hour |-> hr, mday |-> mday,
     mon |-> mon - 1, year |-> year]

\* Mutant: the zone is added.
UpdateAddsZone(d, ns, s, m, hr, mday, mon, year, tz, istz) ==
    LET t == timegm(GivenFields(ns, s, m, hr, mday, mon, year))
    IN  [d EXCEPT !.tm = gmtime(t), !.nsec = CMod(ns, Nano),
                  !.time = IF istz THEN t + tz ELSE t - date.zone,
                  !.gmtoff = IF istz THEN tz ELSE Gmtoff]

BglUpdateDate(d, ns, s, m, hr, mday, mon, year, tz, istz) ==
    LET t == timegm(GivenFields(ns, s, m, hr, mday, mon, year))
    IN  [d EXCEPT !.tm = gmtime(t), !.nsec = CMod(ns, Nano),
                  !.time = IF istz THEN t - tz ELSE t - date.zone,
                  !.gmtoff = IF istz THEN tz ELSE Gmtoff]

\* The header of a date that is made with a zone says that it is UTC.
BglMakeDate(ns, s, m, hr, mday, mon, year, tz, istz) ==
    BglUpdateDate([BglSecondsToDate(0) EXCEPT !.isgmt = istz],
                  ns, s, m, hr, mday, mon, year, tz, istz)

BglDateToGmtdate(d) ==
    IF d.isgmt THEN d
    ELSE [d EXCEPT !.tm = gmtime(d.time), !.gmtoff = 0, !.isgmt = TRUE]

BglDateToSeconds(d)      == d.time
BglDateToNanoseconds(d)  == d.time * Nano + d.nsec
BglDateToMilliseconds(d) == d.time * Milli + CDiv(d.nsec, Nano \div Milli)

\* date-update-second! and date-update-minute! within their range.
DateUpdateSecond(d, s) == [d EXCEPT !.tm.sec = s, !.time = @ + (s - d.tm.sec)]
DateUpdateMinute(d, m) == [d EXCEPT !.tm.min = m, !.time = @ + 2 * (m - d.tm.min)]

\* The zone of an instant where struct tm has no tm_gmtoff (minutes are not
\* scaled: only whole hours are right).
BglGetTimezone(t) ==
    LET l == localtime(t)
        g == gmtime(t)
        h == CASE g.yday = l.yday -> l.hour - g.hour
               [] g.yday > l.yday -> l.hour - (g.hour + 4)
               [] OTHER -> l.hour - (g.hour - 4)
    IN  h * HourSeconds + (l.min - g.min)

\* The clock, from gettimeofday.
BglCurrentMilliseconds(tv) == tv.sec * Milli + tv.usec \div (Micro \div Milli)
BglCurrentMicroseconds(tv) == tv.sec * Micro + tv.usec
BglCurrentNanoseconds(tv)  == tv.sec * Nano + tv.usec * (Nano \div Micro)

InitDates ==
    \E zone \in {-HourSeconds, 0, HourSeconds}, ns \in -40 .. 560, f \in -1 .. 2 :
        date = [zone |-> zone, ns |-> ns, field |-> f]

(***************************************************************************)
(* An instant survives: a date made of it, local or UTC, from seconds,     *)
(* milliseconds or nanoseconds, before and after 1970, is the same         *)
(* instant; the date rebuilt from the fields and the zone of a date, which *)
(* is what date-copy does, is the same instant with the same fields;       *)
(* switching a local date to UTC keeps the instant; updating one field     *)
(* gives the date that rebuilding it gives; and the zone of an instant is  *)
(* the zone, except around the new year.                                   *)
(***************************************************************************)
InstantKept ==
    LET ns == date.ns
        s  == ns \div Nano
        ms == ns \div (Nano \div Milli)
        d  == BglNanosecondsToDate(ns)
        l  == BglSecondsToDate(s)
        Rebuilt(x, sec, min) ==
            BglMakeDate(x.nsec, sec, min, x.tm.hour, x.tm.mday, x.tm.mon + 1,
                        x.tm.year, x.gmtoff, TRUE)
        tv == [sec |-> s, usec |-> (ns % Nano) \div (Nano \div Micro)]
    IN  /\ BglDateToNanoseconds(d) = ns
        /\ BglDateToMilliseconds(BglMillisecondsToDate(ms)) = ms
        /\ BglDateToMilliseconds(BglMillisecondsToGmtdate(ms)) = ms
        /\ BglDateToSeconds(l) = s /\ BglDateToSeconds(BglSecondsToGmtdate(s)) = s
        /\ BglDateToGmtdate(l).tm = BglSecondsToGmtdate(s).tm
        /\ BglDateToNanoseconds(BglDateToGmtdate(d)) = ns
        /\ \A x \in {d, l, BglSecondsToGmtdate(s), BglDateToGmtdate(l)} :
             /\ BglDateToNanoseconds(Rebuilt(x, x.tm.sec, x.tm.min)) = BglDateToNanoseconds(x)
             /\ Rebuilt(x, x.tm.sec, x.tm.min).tm = x.tm
             /\ date.field \in 0 .. 1 =>
                   /\ DateUpdateSecond(x, date.field).time = Rebuilt(x, date.field, x.tm.min).time
                   /\ DateUpdateMinute(x, date.field).time = Rebuilt(x, x.tm.sec, date.field).time
             /\ BglDateToSeconds(Rebuilt(x, date.field, x.tm.min))
                    = BglDateToSeconds(x) + date.field - x.tm.sec
        /\ localtime(s).year = gmtime(s).year => BglGetTimezone(s) = date.zone
        /\ BglCurrentMicroseconds(tv) = BglCurrentNanoseconds(tv) \div (Nano \div Micro)
        /\ BglCurrentMilliseconds(tv) = BglCurrentMicroseconds(tv) \div (Micro \div Milli)

-----------------------------------------------------------------------------
(***************************************************************************)
(* Signals.  disposition is the kernel's, one for the process, but the     *)
(* table of handlers is a field of the environment of a thread: signal     *)
(* writes that of its caller, a handler reads that of the thread the       *)
(* signal interrupts, and a new thread has a copy of that of the thread    *)
(* that starts it.  signals keeps the lock, who is where in bgl_signal,    *)
(* the calls made, the threads there are, the last object given for each   *)
(* signal and what the last delivery ran; heirs are the threads that gave  *)
(* it or descend from the one that did.                                    *)
(***************************************************************************)
Installable == Handlers \cup {"#t", "#f"}

InitSignals ==
    /\ table = [u \in Users |-> [s \in Signals |-> "#f"]]
    /\ disposition = [s \in Signals |-> IF s = SEGV THEN "stackov" ELSE "default"]
    /\ \E main \in Users :
         signals = [lock |-> Nobody, call |-> [u \in Users |-> <<>>], made |-> 0,
                    threads |-> {main}, given |-> [s \in Signals |-> "nothing"],
                    heirs |-> [s \in Signals |-> {}], ran |-> {}]

\* BGL_MUTEX_LOCK, then the object is stored in the caller's table.
SignalStores(u, s, obj) ==
    /\ u \in signals.threads
    /\ signals.call[u] = <<>>
    /\ signals.lock = Nobody
    /\ signals.made < MaxInstalls
    /\ signals' = [signals EXCEPT !.lock = u, !.call[u] = <<s, obj>>, !.made = @ + 1]
    /\ table' = [table EXCEPT ![u][s] = obj]
    /\ UNCHANGED disposition

Disposed(obj) == CASE obj = "#t" -> "ignore" [] obj = "#f" -> "default" [] OTHER -> "handler"

\* sigaction or signal, then the unlock.
SignalInstalls(u) ==
    /\ signals.call[u] # <<>>
    /\ LET s == signals.call[u][1]  obj == signals.call[u][2]
       IN  /\ disposition' = [disposition EXCEPT ![s] = Disposed(obj)]
           /\ signals' = [signals EXCEPT !.lock = Nobody, !.call[u] = <<>>,
                                         !.given[s] = obj, !.heirs[s] = {u}]
    /\ UNCHANGED table

\* A thread starts another, whose environment is a copy of its own.
ThreadCopies(u, v) ==
    /\ u \in signals.threads /\ v \notin signals.threads
    /\ signals.call[u] = <<>>
    /\ table' = [table EXCEPT ![v] = table[u]]
    /\ signals' = [signals EXCEPT
         !.threads = @ \cup {v},
         !.heirs = [s \in Signals |-> IF u \in @[s] THEN @[s] \cup {v} ELSE @[s]]]
    /\ UNCHANGED disposition

\* A signal interrupts u: signal_handler reads its table, and runs nothing
\* when it finds no procedure there.
SignalHandler(u, s) ==
    /\ disposition[s] = "handler"
    /\ u \in signals.threads
    /\ signals' = [signals EXCEPT
         !.ran = {[by |-> u, found |-> table[u][s], given |-> signals.given[s],
                   heir |-> u \in signals.heirs[s], quiet |-> signals.lock = Nobody]}]
    /\ UNCHANGED <<table, disposition>>

\* A segmentation fault that is not a stack overflow is raised again, with
\* the default disposition.
StackovHandler ==
    /\ disposition[SEGV] = "stackov"
    /\ \E overflow \in BOOLEAN :
           disposition' = IF overflow THEN disposition ELSE [disposition EXCEPT ![SEGV] = "default"]
    /\ UNCHANGED <<table, signals>>

SignalNext ==
    \/ \E u \in Users :
         \/ \E s \in Signals, obj \in Installable : SignalStores(u, s, obj)
         \/ SignalInstalls(u)
         \/ \E v \in Users : ThreadCopies(u, v)
         \/ \E s \in Signals : SignalHandler(u, s)
    \/ StackovHandler

(***************************************************************************)
(* When no call of signal is under way, the kernel does for each signal    *)
(* what the last object given for it says, whichever thread gave it, and   *)
(* get-signal-handler tells that object to the thread that gave it and to  *)
(* the threads that this one started since.  A signal that interrupts one  *)
(* of them runs it.  Exceptions: another thread has an older object in its *)
(* table, or #f, and a signal that interrupts it runs that one or nothing; *)
(* and so may any thread while signal is at work.                          *)
(***************************************************************************)
SignalsAgree ==
    /\ signals.lock = Nobody =>
         \A s \in Signals : signals.given[s] # "nothing" =>
           /\ disposition[s] = Disposed(signals.given[s])
           /\ \A u \in signals.heirs[s] : table[u][s] = signals.given[s]
    /\ \A r \in signals.ran :
         r.heir /\ r.quiet => r.found \in Handlers /\ r.found = r.given

-----------------------------------------------------------------------------
(***************************************************************************)
(* getpwnam and getpwuid fill one static buffer of the C library; the list *)
(* is copied from it with getuid_mutex held.  A user's number is his name. *)
(***************************************************************************)
InitPasswd ==
    /\ passwd = [lock |-> Nobody, buffer |-> Nobody]
    /\ asker = [u \in Users |-> [pc |-> "idle", query |-> u, got |-> {}]]

\* Mutant: no lock.
FillsUnlocked(u) ==
    /\ asker[u].pc = "idle"
    /\ passwd' = [lock |-> u, buffer |-> asker[u].query]
    /\ asker' = [asker EXCEPT ![u].pc = "filled"]

Fills(u) ==
    /\ asker[u].pc = "idle"
    /\ passwd.lock = Nobody
    /\ passwd' = [lock |-> u, buffer |-> asker[u].query]
    /\ asker' = [asker EXCEPT ![u].pc = "filled"]

\* passwd2list; a name that nobody has gives #f.
Passwd2List(u) ==
    /\ asker[u].pc = "filled"
    /\ asker' = [asker EXCEPT ![u].got = @ \cup {passwd.buffer}, ![u].pc = "copied"]
    /\ UNCHANGED passwd

Unlocks(u) ==
    /\ asker[u].pc = "copied"
    /\ passwd' = [passwd EXCEPT !.lock = Nobody]
    /\ \E q \in Users : asker' = [asker EXCEPT ![u] = [pc |-> "idle", query |-> q, got |-> {}]]

PasswdNext == \E u \in Users : Fills(u) \/ Passwd2List(u) \/ Unlocks(u)

\* The entry that a caller gets is the one it asked for, whoever asks at the
\* same time.
OwnEntry == \A u \in Users : asker[u].got \subseteq {asker[u].query}

-----------------------------------------------------------------------------
(***************************************************************************)
(* The C library has one broken-down time and one text for gmtime, ctime   *)
(* and asctime.  seconds->string uses them with date_mutex held;           *)
(* seconds->utc-string, and the zone of a date where struct tm has no      *)
(* tm_gmtoff, without it.  met is set when one of those is at work at the  *)
(* same time as another user of the two.                                   *)
(***************************************************************************)
InitStamps ==
    /\ static = [lock |-> Nobody, tm |-> Nobody, text |-> Nobody, met |-> FALSE]
    /\ teller = [u \in Users |-> [pc |-> "idle", how |-> "string", got |-> {}]]

\* gmtime, or the first half of ctime, which the lock of seconds->string
\* precedes.
StampFills(u, how) ==
    /\ teller[u].pc = "idle"
    /\ how = "string" => static.lock = Nobody
    /\ static' = [static EXCEPT
         !.lock = IF how = "string" THEN u ELSE @,
         !.tm = u,
         !.met = @ \/ \E v \in Users : /\ teller[v].pc # "idle"
                                       /\ how # "string" \/ teller[v].how # "string"]
    /\ teller' = [teller EXCEPT ![u] = [pc |-> "filled", how |-> how, got |-> {}]]

\* asctime, or the second half of ctime.
StampWrites(u) ==
    /\ teller[u].pc = "filled" /\ teller[u].how # "zone"
    /\ static' = [static EXCEPT !.text = static.tm]
    /\ teller' = [teller EXCEPT ![u].pc = "written"]

\* The copy of the text, and the unlock; bgl_get_timezone reads the fields.
StampCopies(u) ==
    /\ teller[u].pc = IF teller[u].how = "zone" THEN "filled" ELSE "written"
    /\ teller' = [teller EXCEPT ![u].pc = "idle",
         ![u].got = {IF teller[u].how = "zone" THEN static.tm ELSE static.text}]
    /\ static' = [static EXCEPT !.lock = IF @ = u THEN Nobody ELSE @]

StampNext ==
    \E u \in Users :
        (\E how \in {"string", "utc", "zone"} : StampFills(u, how)) \/ StampWrites(u) \/ StampCopies(u)

\* The text of an instant, and the zone of a date, are those that were asked
\* for, unless a use without the lock met another one.
OwnStamp == static.met \/ \A u \in Users : teller[u].got \subseteq {u}

-----------------------------------------------------------------------------
(***************************************************************************)
(* getgroups: the supplementary groups, and the effective group unless it  *)
(* is one of them.                                                         *)
(***************************************************************************)
\* Mutant: only an empty list gets the effective group.
GroupsWithoutEgid(list, egid) ==
    IF Len(list) > 0 THEN list ELSE <<egid>>

BglGetgroups(list, egid) ==
    LET seen == \E i \in DOMAIN list : list[i] = egid
    IN  IF seen THEN list ELSE Append(list, egid)

InitGroups ==
    \E n \in 0 .. 3 : \E l \in [1 .. n -> 1 .. 3], e \in 1 .. 3 : groups = <<l, e>>

\* The effective group is in the answer, and every other group as many
\* times and in the order that the system has it.
GroupsExact ==
    LET r == BglGetgroups(groups[1], groups[2])
    IN  /\ \E i \in DOMAIN r : r[i] = groups[2]
        /\ SubSeq(r, 1, Len(groups[1])) = groups[1]
        /\ Len(r) <= Len(groups[1]) + 1

=============================================================================
