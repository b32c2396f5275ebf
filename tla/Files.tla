------------------------------- MODULE Files --------------------------------
(***************************************************************************)
(* What the runtime does with files besides reading ports: reading a       *)
(* directory, sending, seeking and truncating an output file               *)
(* (runtime/Clib/cports.c), mapping a file or a string in memory           *)
(* (runtime/Clib/cmmap.c) and loading a dynamic library                    *)
(* (runtime/Clib/cdlopen.c).                                               *)
(***************************************************************************)
EXTENDS Integers, Sequences, FiniteSets, SequencesExt

CONSTANTS FirstVlen,    \* places of the first buffer of a directory: 32
          MaxEntries,   \* bound: entries of a directory
          Maps,         \* memory maps
          MapLength,    \* bytes of the file and of the string
          Loaders,      \* threads that load and unload
          Libraries,    \* files of dynamic libraries
          MaxLoads,     \* bound: calls of dlopen
          NoLoader

VARIABLES directory,                      \* the entries, as readdir tells them
          mapped, maps,                   \* memory maps
          dloadList, handles, loader      \* dynamic libraries

directoryVars == <<directory>>
mmapVars      == <<mapped, maps>>
dloadVars     == <<dloadList, handles, loader>>

-----------------------------------------------------------------------------
(***************************************************************************)
(* Directories.  An entry is the sequence of its characters: "a" stands    *)
(* for any that is not a dot.                                              *)
(***************************************************************************)
Dot == "."
EntryNames == {<<Dot>>, <<Dot, Dot>>, <<Dot, "a">>, <<Dot, Dot, "a">>, <<"a">>}

\* REGULAR_FILE_NAMEP, with the 0 that ends a C string beyond the last one.
CharAt(f, i) == IF i <= Len(f) THEN f[i] ELSE "nul"
RegularFileNamep(f) ==
    \/ CharAt(f, 1) # Dot
    \/ CharAt(f, 2) # "nul" /\ (CharAt(f, 2) # Dot \/ CharAt(f, 3) # "nul")

Scanned == SelectSeq(directory, LAMBDA e : RegularFileNamep(e.name))

BglDirectoryLength == Len(Scanned)

\* Each name is put in front of the list.
BglDirectoryToList == Reverse(Scanned)

PathOf(e) == [dir |-> TRUE, entry |-> e]
BglDirectoryToPathList == [i \in DOMAIN Scanned |-> PathOf(BglDirectoryToList[i])]

\* The buffer when a name is stored: a full one is copied to one of twice
\* its size; what was never written is garbage.
Garbage == [name |-> <<>>, no |-> 0]
FreshBuffer(n) == [i \in 1 .. n |-> Garbage]

\* Mutant: only the names since the last copy are in the new buffer.
StoreFresh(b, e) ==
    LET room == IF b.i = Len(b.buf) THEN FreshBuffer(2 * Len(b.buf)) ELSE b.buf
    IN  [buf |-> [room EXCEPT ![b.i + 1] = e], i |-> b.i + 1]

Store(b, e) ==
    LET room == IF b.i = Len(b.buf) THEN b.buf \o FreshBuffer(Len(b.buf)) ELSE b.buf
    IN  [buf |-> [room EXCEPT ![b.i + 1] = e], i |-> b.i + 1]

BglDirectoryToVector ==
    LET end == FoldLeft(Store, [buf |-> FreshBuffer(FirstVlen), i |-> 0], Scanned)
    IN  SubSeq(end.buf, 1, end.i)

\* The path is built, and the bare name is stored.
BglDirectoryToPathVector ==
    LET end == FoldLeft(Store, [buf |-> FreshBuffer(FirstVlen), i |-> 0], Scanned)
    IN  SubSeq(end.buf, 1, end.i)

InitDirectory ==
    \E n \in 0 .. MaxEntries : \E names \in [1 .. n -> EntryNames] :
        directory = [i \in 1 .. n |-> [name |-> names[i], no |-> i]]

(***************************************************************************)
(* A directory read as a list, as paths or as a vector, however many times *)
(* the buffer of the vector grows, holds each entry but . and .. exactly   *)
(* once, and directory-length is their number.  Exception:                 *)
(* directory->path-vector has the names of directory->vector and not the   *)
(* paths that system.texi:554 promises: the path that it builds is         *)
(* dropped.                                                                *)
(***************************************************************************)
DirectoryExact ==
    LET wanted == {directory[i] : i \in DOMAIN directory}
                  \ {e \in ToSet(directory) : e.name \in {<<Dot>>, <<Dot, Dot>>}}
    IN  /\ BglDirectoryLength = Cardinality(wanted)
        /\ \A v \in {BglDirectoryToList, BglDirectoryToVector} :
             Len(v) = Cardinality(wanted) /\ ToSet(v) = wanted
        /\ BglDirectoryToPathVector = BglDirectoryToVector    \* the exception
        /\ \A i \in 1 .. BglDirectoryLength :
             BglDirectoryToPathList[i] = PathOf(BglDirectoryToList[i])

-----------------------------------------------------------------------------
(***************************************************************************)
(* Memory maps.  have tells a build with mmap from one without, where      *)
(* mmap-ref and mmap-set! seek, read and write on two descriptors and      *)
(* skip the seek when the last access was just before.  The kernel gives   *)
(* the lowest free number: offset has that of each descriptor in use, and  *)
(* the address of a map goes with its number.  A closed map keeps its      *)
(* numbers.  The shadow wanted holds the bytes as the program wrote them;  *)
(* got is what was read last and what it should have been; retaken, that a *)
(* map that is closed was used on what another one has since.              *)
(***************************************************************************)
MapBytes == 0 .. 1
Content  == [0 .. MapLength - 1 -> MapBytes]
Unopened == [kind |-> "unopened", closed |-> TRUE]
Zeroes   == [i \in 0 .. MapLength - 1 |-> 0]
Numbers  == 1 .. 2 * Cardinality(Maps)
Free     == -1

InitMmap ==
    /\ mapped \in [have : BOOLEAN, file : Content, wanted : {<<>>}, got : {<<0, 0>>},
                   offset : {[n \in Numbers |-> Free]}, retaken : {FALSE}]
    /\ maps = [m \in Maps |-> Unopened]

\* What the program wrote and has not: the file, and each string.
Wanted(m) == IF maps[m].kind = "string" THEN maps[m].wanted ELSE mapped.wanted
Known == IF mapped.wanted = <<>> THEN mapped.file ELSE mapped.wanted

Opened(m) == ~ maps[m].closed

LowestFree(used) == CHOOSE n \in Numbers : n \notin used /\ \A k \in 1 .. n - 1 : k \in used
InUse == {n \in Numbers : mapped.offset[n] # Free}

\* open, fstat, then mmap, which refuses a descriptor that is not for
\* reading; or the two descriptors.
BglOpenMmap(m, r, w) ==
    /\ ~ Opened(m)
    /\ IF mapped.have THEN r ELSE r \/ w
    /\ LET fd  == IF r THEN LowestFree(InUse) ELSE 0
           afd == IF w /\ ~ mapped.have THEN LowestFree(InUse \cup {fd}) ELSE 0
       IN  /\ maps' = [maps EXCEPT ![m] = [kind |-> "file", r |-> r, w |-> w, closed |-> FALSE,
                                           fd |-> fd, afd |-> afd, ar |-> 0, aw |-> 0]]
           /\ mapped' = [mapped EXCEPT
                !.wanted = Known,
                !.offset = [n \in Numbers |-> IF n \in {fd, afd} THEN 0 ELSE @[n]]]

BglStringToMmap(m) ==
    /\ ~ Opened(m)
    /\ maps' = [maps EXCEPT ![m] = [kind |-> "string", r |-> TRUE, w |-> TRUE, closed |-> FALSE,
                                    bytes |-> Zeroes, wanted |-> Zeroes]]
    /\ UNCHANGED mapped

\* A closed map is used where another one has its number, or its address.
Retaken(m) ==
    /\ maps[m].closed
    /\ maps[m].kind = "file"
    /\ mapped.retaken \/ {maps[m].fd, maps[m].afd} \cap InUse # {}

\* close, of each descriptor, and munmap: nothing for a string, an error for
\* a map that is closed, unless another one has its descriptors.
BglCloseMmap(m) ==
    /\ maps[m].kind # "unopened"
    /\ maps' = [maps EXCEPT ![m].closed = TRUE]
    /\ mapped' = IF maps[m].kind = "string" THEN mapped
                 ELSE [mapped EXCEPT
                        !.offset = [n \in Numbers |->
                                     IF n \in {maps[m].fd, maps[m].afd} THEN Free ELSE @[n]],
                        !.retaken = @ \/ Retaken(m)]

\* What v, read for the byte i of m, should have been.
Told(m, i, v) == [mapped EXCEPT !.got = <<v, Wanted(m)[i]>>, !.retaken = @ \/ Retaken(m)]

\* A string, closed or not, or a file in a build with mmap: the byte of the
\* map.  One that is unmapped stops the program.
MmapRef(m, i) ==
    /\ maps[m].kind = "string" \/ (maps[m].kind = "file" /\ mapped.have /\ Opened(m))
    /\ mapped' = Told(m, i, IF maps[m].kind = "string" THEN maps[m].bytes[i] ELSE mapped.file[i])
    /\ UNCHANGED maps

\* The descriptors are asked: a closed one is an error.
Seeks(m, n) == maps[m].kind = "file" /\ ~ mapped.have /\ n # 0 /\ mapped.offset[n] # Free

\* Mutant: the place read last is kept, not the place reached.
RefKeepsPlace(m, i) ==
    /\ maps[m].kind = "file"
    /\ Seeks(m, maps[m].fd)
    /\ LET at == IF i = maps[m].ar THEN mapped.offset[maps[m].fd] ELSE i
       IN  /\ at < MapLength
           /\ mapped' = [Told(m, i, mapped.file[at]) EXCEPT !.offset[maps[m].fd] = at + 1]
           /\ maps' = [maps EXCEPT ![m].ar = i]

\* lseek, unless the position is there, and read of one byte.
BglMmapNommapRef(m, i) ==
    /\ maps[m].kind = "file"
    /\ Seeks(m, maps[m].fd)
    /\ LET at == IF i = maps[m].ar THEN mapped.offset[maps[m].fd] ELSE i
       IN  /\ at < MapLength
           /\ mapped' = [Told(m, i, mapped.file[at]) EXCEPT !.offset[maps[m].fd] = at + 1]
           /\ maps' = [maps EXCEPT ![m].ar = i + 1]

MmapSet(m, i, c) ==
    /\ mapped.have
    /\ \/ /\ maps[m].kind = "string"
          /\ maps' = [maps EXCEPT ![m].bytes[i] = c, ![m].wanted[i] = c]
          /\ UNCHANGED mapped
       \/ /\ maps[m].kind = "file" /\ Opened(m) /\ maps[m].w
          /\ mapped' = [mapped EXCEPT !.file[i] = c, !.wanted[i] = c]
          /\ UNCHANGED maps

\* A string is not written; a map without its reading descriptor is refused
\* as a read only one.
BglMmapNommapSet(m, i, c) ==
    /\ maps[m].kind = "file" /\ maps[m].fd # 0
    /\ Seeks(m, maps[m].afd)
    /\ LET at == IF i = maps[m].aw THEN mapped.offset[maps[m].afd] ELSE i
       IN  /\ mapped' = [mapped EXCEPT !.file[at] = c, !.wanted[i] = c,
                                      !.offset[maps[m].afd] = at + 1,
                                      !.retaken = @ \/ Retaken(m)]
           /\ maps' = [maps EXCEPT ![m].aw = i + 1]

\* What follows a use of what another map has is not followed.
MmapNext ==
    /\ ~ mapped.retaken
    /\ \E m \in Maps :
      \/ \E r, w \in BOOLEAN : BglOpenMmap(m, r, w)
      \/ BglStringToMmap(m)
      \/ BglCloseMmap(m)
      \/ \E i \in 0 .. MapLength - 1 :
           \/ MmapRef(m, i)
           \/ BglMmapNommapRef(m, i)
           \/ \E c \in MapBytes : MmapSet(m, i, c) \/ BglMmapNommapSet(m, i, c)

\* A byte read through a map is the last one written at its place, through
\* this or another map of the file, whatever was accessed in between; and
\* the file holds what was written and nothing else.  A map that is closed
\* is an error to use and to close again, and changes no other.  Exceptions:
\* a string is not written in a build without mmap; and a closed map whose
\* descriptors, or address, another map was given since acts on that one.
MapsExact ==
    mapped.retaken \/
      /\ mapped.got[1] = mapped.got[2]
      /\ mapped.wanted # <<>> => mapped.file = mapped.wanted
      /\ \A m \in Maps : Opened(m) /\ maps[m].kind = "file" =>
           {maps[m].fd, maps[m].afd} \ {0} \subseteq InUse

-----------------------------------------------------------------------------
(***************************************************************************)
(* Dynamic libraries.  dlopen counts the references of a library; the list *)
(* has a pair for each load, here a cell: its library and the next cell, 0 *)
(* at the end.  bgl_dunload reads the list before it takes the lock:       *)
(* loader.raced says that it had changed when it got it.  A program        *)
(* unloads a library that no other thread is loading or looking into.      *)
(***************************************************************************)
Resting == [pc |-> "idle"]

InitDload ==
    /\ dloadList = [head |-> 0, cells |-> <<>>]
    /\ handles = [f \in Libraries |-> 0]
    /\ loader = [lock |-> NoLoader, call |-> [l \in Loaders |-> Resting],
                 loads |-> 0, raced |-> FALSE, said |-> {}]

At(l, pc) == loader.call[l].pc = pc
Goto(l, c) == [loader EXCEPT !.call[l] = c, !.said = {}]
Cell(n) == dloadList.cells[n]

\* The cells of the list: a cell is older than the one that precedes it.
Listed ==
    LET From[n \in 0 .. Len(dloadList.cells)] ==
            IF n = 0 THEN {} ELSE {n} \cup From[Cell(n).next]
    IN  From[dloadList.head]
Loads(f) == {n \in Listed : Cell(n).file = f}

\* dlopen: a library that cannot be opened is an error, and nothing is kept.
DlOpens(l, f) ==
    /\ At(l, "idle")
    /\ \A k \in Loaders : At(k, "unload") \/ At(k, "unlink") => loader.call[k].file # f
    /\ loader.loads < MaxLoads
    /\ handles' = [handles EXCEPT ![f] = @ + 1]
    /\ loader' = [Goto(l, [pc |-> "push", file |-> f]) EXCEPT !.loads = @ + 1]
    /\ UNCHANGED dloadList

BglDload(l) ==
    /\ At(l, "push")
    /\ loader.lock = NoLoader
    /\ dloadList' = [head |-> Len(dloadList.cells) + 1,
                     cells |-> Append(dloadList.cells,
                                      [file |-> loader.call[l].file, next |-> dloadList.head])]
    /\ loader' = Goto(l, [loader.call[l] EXCEPT !.pc = "init"])
    /\ UNCHANGED handles

\* The entry point of the library is asked for, and called if it has one.
DloadInitCall(l) ==
    /\ At(l, "init")
    /\ loader' = Goto(l, Resting)
    /\ UNCHANGED <<dloadList, handles>>

Unused(l, f) == \A k \in Loaders \ {l} : loader.call[k].pc # "idle" => loader.call[k].file # f

\* p = dload_list, before the lock.
DunloadReads(l, f) ==
    /\ At(l, "idle")
    /\ Unused(l, f)
    /\ loader' = Goto(l, [pc |-> "unload", file |-> f, p |-> dloadList.head])
    /\ UNCHANGED <<dloadList, handles>>

DunloadLocks(l) ==
    /\ At(l, "unload")
    /\ loader.lock = NoLoader
    /\ loader' = [Goto(l, [loader.call[l] EXCEPT !.pc = "unlink"])
                    EXCEPT !.lock = l, !.raced = @ \/ loader.call[l].p # dloadList.head]
    /\ UNCHANGED <<dloadList, handles>>

Dlclose(f) == handles' = [handles EXCEPT ![f] = IF @ = 0 THEN 0 ELSE @ - 1]

\* The unlock, and the answer: 0, which is #t, or 1.
DunloadAnswers(l, f, zero) ==
    loader' = [Goto(l, Resting) EXCEPT
                !.lock = NoLoader,
                !.said = {[there |-> Loads(f) # {}, empty |-> dloadList.head = 0, zero |-> zero]}]

\* Mutant: the cell that is found second stays in the list.
UnlinkSecondKept(l, f) ==
    LET p == loader.call[l].p
        r == Cell(p).next
    IN  /\ Cell(p).file # f /\ r # 0 /\ Cell(r).file = f
        /\ Dlclose(f)
        /\ UNCHANGED dloadList
        /\ DunloadAnswers(l, f, TRUE)

\* The first cell that was read is the library: the list loses its head.
UnlinkFirst(l, f) ==
    /\ Cell(loader.call[l].p).file = f
    /\ Dlclose(f)
    /\ dloadList' = [dloadList EXCEPT !.head = Cell(dloadList.head).next]
    /\ DunloadAnswers(l, f, TRUE)

UnlinkSecond(l, f) ==
    LET p == loader.call[l].p
        r == Cell(p).next
    IN  /\ Cell(p).file # f /\ r # 0 /\ Cell(r).file = f
        /\ Dlclose(f)
        /\ dloadList' = [dloadList EXCEPT !.cells[p].next = Cell(r).next]
        /\ DunloadAnswers(l, f, TRUE)

\* The search never goes beyond the second cell: it stays there, with the
\* lock.
SearchSpins(l, f) ==
    LET p == loader.call[l].p
        r == Cell(p).next
    IN  /\ Cell(p).file # f /\ r # 0 /\ Cell(r).file # f
        /\ loader' = Goto(l, [loader.call[l] EXCEPT !.pc = "spins"])
        /\ UNCHANGED <<dloadList, handles>>

\* An empty list answers 0.  One that was read empty and is not any more
\* has its first pair taken of nothing: the program stops.
BglDunload(l) ==
    LET f == loader.call[l].file
        p == loader.call[l].p
    IN  /\ At(l, "unlink")
        /\ \/ /\ dloadList.head = 0
              /\ UNCHANGED <<dloadList, handles>>
              /\ DunloadAnswers(l, f, TRUE)
           \/ /\ dloadList.head # 0 /\ p # 0
              /\ \/ UnlinkFirst(l, f)
                 \/ UnlinkSecond(l, f)
                 \/ SearchSpins(l, f)
                 \/ /\ Cell(p).file # f /\ Cell(p).next = 0
                    /\ UNCHANGED <<dloadList, handles>>
                    /\ DunloadAnswers(l, f, FALSE)

\* The pair is looked for with the lock; dlsym comes after the unlock.
DloadGetSymbolAddr(l, f) ==
    /\ At(l, "idle")
    /\ loader.lock = NoLoader
    /\ \A k \in Loaders : At(k, "unload") => loader.call[k].file # f
    /\ loader' = Goto(l, IF Loads(f) # {} THEN [pc |-> "dlsym", file |-> f] ELSE Resting)
    /\ UNCHANGED <<dloadList, handles>>

BglDlsym(l) ==
    /\ At(l, "dlsym")
    /\ loader' = Goto(l, Resting)
    /\ UNCHANGED <<dloadList, handles>>

DloadNext ==
    \E l \in Loaders :
      \/ \E f \in Libraries : DlOpens(l, f) \/ DunloadReads(l, f) \/ DloadGetSymbolAddr(l, f)
      \/ BglDload(l)
      \/ DloadInitCall(l)
      \/ DunloadLocks(l)
      \/ BglDunload(l)
      \/ BglDlsym(l)

(***************************************************************************)
(* As long as the list did not change between the read and the lock of a   *)
(* bgl_dunload, a library is open as many times as the list has it, so     *)
(* that no unload closes it for another load; a library whose symbol is    *)
(* asked for, or that is initialized, is open; and dynamic-unload answers  *)
(* #t for a library that was loaded and #f for one that was not.           *)
(* Exceptions: it answers #t when nothing is loaded; and when the first    *)
(* two libraries of the list are others it never returns, and keeps the    *)
(* lock that every load, unload and lookup waits for, whether the library  *)
(* comes after them or was never loaded.                                   *)
(***************************************************************************)
LibrariesCounted ==
    ~ loader.raced =>
      /\ \A f \in Libraries :
           handles[f] = Cardinality(Loads(f))
                        + Cardinality({l \in Loaders : At(l, "push") /\ loader.call[l].file = f})
      /\ \A l \in Loaders : At(l, "init") \/ At(l, "dlsym") => handles[loader.call[l].file] > 0
      /\ \A a \in loader.said : ~ a.empty => a.zero = a.there
      /\ loader.lock # NoLoader /\ At(loader.lock, "spins") =>
           LET p == dloadList.head
           IN  loader.call[loader.lock].file \notin {Cell(p).file, Cell(Cell(p).next).file}

-----------------------------------------------------------------------------
(***************************************************************************)
(* Positions of an output file port (cports.c): bytes wait in the buffer   *)
(* of the port while the position of the descriptor is moved, the file is  *)
(* truncated, or another file is sent straight to the descriptor.  A byte  *)
(* is a number, 0 that of a hole.                                          *)
(***************************************************************************)
CONSTANTS OutSize,      \* size of the buffer of the port
          MaxFile       \* bound: length of the file

VARIABLES outFile, outPos, outBuf,   \* the file, its offset, the buffer
          image,                     \* auxiliary: the file as it should become
          place                      \* auxiliary: where the next byte goes, and what came last

outVars == <<outFile, outPos, outBuf, image, place>>

Named == <<8, 9>>      \* the file that send-file names

\* What a write of bytes at an offset makes of a file.
Overlay(f, at, bs) ==
    [i \in 1 .. IF bs = <<>> \/ at + Len(bs) < Len(f) THEN Len(f) ELSE at + Len(bs) |->
       IF i > at /\ i <= at + Len(bs) THEN bs[i - at] ELSE IF i <= Len(f) THEN f[i] ELSE 0]

\* ftruncate shortens or fills with a hole.
Cut(f, n) == [i \in 1 .. n |-> IF i <= Len(f) THEN f[i] ELSE 0]

BglOpenOutputFile == outFile = <<>> /\ outPos = 0

\* The offset is moved to the end once; later writes go where it is.
BglAppendOutputFile == outFile = <<7>> /\ outPos = 1

InitOut ==
    /\ BglOpenOutputFile \/ BglAppendOutputFile
    /\ outBuf = <<>> /\ image = outFile
    /\ place = [pos |-> outPos, moved |-> FALSE, end |-> "done"]

\* Mutant: the bytes that wait are not counted.
FileposOfDescriptor == outPos

BglOutputPortFilepos == Len(outBuf) + outPos

\* bgl_output_flush: the buffer, then the string, at the offset.
FlushOut(bs) ==
    /\ outFile' = Overlay(outFile, outPos, outBuf \o bs)
    /\ outPos' = outPos + Len(outBuf) + Len(bs)
    /\ outBuf' = <<>>

\* What the program meant: these bytes at this position.
Means(bs, e) ==
    /\ image' = Overlay(image, place.pos, bs)
    /\ place' = [place EXCEPT !.pos = @ + Len(bs), !.end = e]

BglWriteOut(b) ==
    /\ place.pos < MaxFile
    /\ IF Len(outBuf) + 1 < OutSize
       THEN outBuf' = Append(outBuf, b) /\ UNCHANGED <<outFile, outPos>>
       ELSE FlushOut(<<b>>)
    /\ Means(<<b>>, "done")

BglFlushOut ==
    /\ outBuf # <<>> /\ FlushOut(<<>>) /\ UNCHANGED <<image, place>>

\* set-output-port-position! moves the descriptor and leaves the buffer:
\* bytes that wait will be written at the new position.
BglOutputPortSeek(n) ==
    /\ outPos' = n
    /\ place' = [pos |-> n, moved |-> place.moved \/ outBuf # <<>>, end |-> "done"]
    /\ UNCHANGED <<outFile, outBuf, image>>

\* output-port-truncate acts on the file at once, too.
BglOutputPortTruncate(n) ==
    /\ outFile' = Cut(outFile, n)
    /\ image' = Cut(image, n)
    /\ place' = [place EXCEPT !.moved = @ \/ outBuf # <<>>]
    /\ UNCHANGED <<outPos, outBuf>>

\* The bytes that send-file is asked for, as far as the file has them, and
\* how its n first are all that is sent: it is done; an error comes; in a
\* build whose collector has blocking sections one call is made, and the
\* answer is n; or it asks for ever for more than the file has, with the
\* mutex of the port held.
Asked(sz, offset) ==
    SubSeq(Named, offset + 1, IF offset + sz < Len(Named) THEN offset + sz ELSE Len(Named))
Ends(bs, sz, n) ==
    {e \in {"done", "error", "short", "stays"} :
        (n = sz) = (e = "done") /\ (e = "stays" => n = Len(bs))}

\* Mutant: the file overtakes the bytes that wait.
SendfileUnflushed(sz, offset) ==
    LET bs == Asked(sz, offset) IN
    /\ place.pos + Len(bs) <= MaxFile
    /\ outFile' = Overlay(outFile, outPos, bs)
    /\ outPos' = outPos + Len(bs)
    /\ UNCHANGED outBuf
    /\ Means(bs, "done")

\* send-file, after the flush straight to the descriptor: gc_sendfile asks
\* again for the rest of what was sent in part, the offset moving on.
BglSendfile(sz, offset) ==
    LET bs == Asked(sz, offset) IN
    /\ place.pos + Len(bs) <= MaxFile
    /\ \E n \in 0 .. Len(bs) : \E e \in Ends(bs, sz, n) :
         /\ FlushOut(SubSeq(bs, 1, n))
         /\ Means(SubSeq(bs, 1, n), e)

\* file->string reads what is in the file, not what waits; a short read is
\* an error.
BglFileToString == outFile

\* What follows a seek that found bytes in the buffer is not followed.
OutNext ==
  /\ ~ place.moved /\ place.end # "stays"
  /\ \/ BglFlushOut
     \/ \E b \in 1 .. 2 : BglWriteOut(b)
     \/ \E n \in 0 .. MaxFile : BglOutputPortSeek(n) \/ BglOutputPortTruncate(n)
     \/ \E offset \in 0 .. 1, sz \in 0 .. Len(Named) : BglSendfile(sz, offset)

(***************************************************************************)
(* output-port-position tells where the next byte will be, and once the    *)
(* buffer is flushed file->string reads every byte at the position that    *)
(* was told for it, whatever writes, files sent, seeks and truncations     *)
(* came between.  A send-file that fails, or sends less, has sent the      *)
(* beginning of the file, and the position tells how much; only one that   *)
(* is asked for more than the file has never returns.  Exception: a seek   *)
(* or a truncation that finds bytes in the buffer.                         *)
(***************************************************************************)
PositionsExact ==
    ~ place.moved =>
      /\ BglOutputPortFilepos = place.pos
      /\ Overlay(outFile, outPos, outBuf) = image
      /\ outBuf = <<>> => BglFileToString = image

=============================================================================
