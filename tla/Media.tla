------------------------------- MODULE Media -------------------------------
(***************************************************************************)
(* The sound libraries: the FLAC decoder's callbacks                       *)
(* (api/flac/src/Clib/bglflac.c), the ALSA player                          *)
(* (api/alsa/src/Clib/bglalsa.c), and the values and objects that          *)
(* GStreamer and Scheme exchange (api/gstreamer/src/Clib/bglgst.c).        *)
(*                                                                         *)
(* Widths are scaled: a byte has ByteBits bits, so that a sample of 16, 24 *)
(* or 32 bits is one of 2, 3 or 4 small bytes, and every carry, sign and   *)
(* byte order of the real widths still happens.                            *)
(***************************************************************************)
EXTENDS Integers, Sequences, FiniteSets, CInteger

CONSTANTS ByteBits,    \* bits in a byte
          MaxBytes,    \* bytes that the ALSA card may take
          MaxRefs      \* references to a GStreamer object

VARIABLES flac, music,           \* the decoder and the stream it decodes
          pcm, card,             \* the ALSA object and the sound card
          gvalue,                \* a value and the property it is written to
          gobject                \* the references to a GStreamer object

flacVars    == <<flac, music>>
alsaVars    == <<pcm, card>>
gvalueVars  == <<gvalue>>
gobjectVars == <<gobject>>

Base == 2 ^ ByteBits

-----------------------------------------------------------------------------
(***************************************************************************)
(* FLAC.  buffer[channel][sample] are signed integers, buf the bytes.      *)
(***************************************************************************)
ByteOf(v, k) == (v \div Base ^ k) % Base      \* (v >> 8 * k) & 0xff

\* vol * v stored in an integer: C truncates.
Scaled(v, vol) == IF vol = "full" THEN v ELSE CDiv(v, 2)

\* The samples of a block in playing order, each as the given bytes of it;
\* of every stride samples the last is kept.
Interleaved(h, buffer, vol, stride, bytes) ==
    [j \in 1 .. (h.blocksize \div stride) * h.channels * Len(bytes) |->
        LET n == (j - 1) \div Len(bytes)
            v == buffer[(n % h.channels) + 1][(n \div h.channels + 1) * stride]
        IN  ByteOf(Scaled(v, vol), bytes[((j - 1) % Len(bytes)) + 1])]

\* Rates are in hundreds of hertz.
Most == 480

\* rate <= 48000 || (sample & 1)
Stride(h) == IF h.rate <= Most THEN 1 ELSE 2

Write24AsLow(h, b, vol) == Interleaved(h, b, vol, Stride(h), <<0, 1>>)
Write24Swapped(h, b, vol) == Interleaved(h, b, vol, 1, <<2, 1, 0>>)

Write16(h, b, vol) == Interleaved(h, b, vol, 1, <<0, 1>>)
Write24(h, b, vol) == Interleaved(h, b, vol, 1, <<0, 1, 2>>)
Write32(h, b, vol) == Interleaved(h, b, vol, 1, <<0, 1, 2, 3>>)
Write16As16(h, b, vol) == Interleaved(h, b, vol, 1, <<0, 1>>)
Write24As16(h, b, vol) == Interleaved(h, b, vol, Stride(h), <<1, 2>>)
Write32As16(h, b, vol) == Interleaved(h, b, vol, Stride(h), <<2, 3>>)

\* What the callback gives to flac-decoder-write.
Told(bytes, rate, h, bits) ==
    [bytes |-> bytes, rate |-> rate, channels |-> h.channels, bits |-> bits]

BglWriteCallback(h, b, vol) ==
    [sample |-> h.number,
     write |-> Told(CASE h.bits = 2 -> Write16(h, b, vol)
                      [] h.bits = 3 -> Write24(h, b, vol)
                      [] h.bits = 4 -> Write32(h, b, vol),
                    h.rate, h, h.bits)]

BglWriteCallback16(h, b, vol) ==
    [sample |-> IF h.rate <= Most THEN h.number ELSE h.number \div 2,
     write |-> Told(CASE h.bits = 2 -> Write16As16(h, b, vol)
                      [] h.bits = 3 -> Write24As16(h, b, vol)
                      [] h.bits = 4 -> Write32As16(h, b, vol),
                    IF h.rate <= Most THEN h.rate ELSE Most, h, 2)]

\* The samples of a block, and the header of frame n: all blocks but the
\* last have one size.
BlockSize(n) == Len(music.frames[n][1])
Header(n) == [bits |-> music.bits, channels |-> music.channels, rate |-> music.rate,
              blocksize |-> BlockSize(n), number |-> BlockSize(1) * (n - 1)]

Sixteen == flac.callbacks = "sixteen"

(***************************************************************************)
(* flac-decoder-decode and -decode16.  The library keeps the callbacks of  *)
(* its first initialization: the reset at the end of a decoding does not   *)
(* undo it, and later ones are refused, unnoticed.                         *)
(***************************************************************************)
Decoding(kind) ==
    /\ flac.pc = "idle"
    /\ flac.decoded < 2
    /\ flac' = [flac EXCEPT !.pc = "running", !.fed = 0, !.done = 0,
                            !.out = <<>>, !.info = {}, !.end = "no",
                            !.callbacks = IF @ = "none" THEN kind ELSE @,
                            !.decoded = @ + 1]
    /\ UNCHANGED music

BglFlacInitStream   == Decoding("plain")
BglFlacInitStream16 == Decoding("sixteen")

Running == flac.pc = "running" /\ flac.end = "no"

\* flac-decoder-read answers the number of bytes put in the library's
\* buffer (here, of frames), the end of file, or a negative number.
BglReadCallback ==
    /\ Running
    /\ \/ /\ flac.fed < Len(music.frames)
          /\ flac' = [flac EXCEPT !.fed = @ + 1]
       \/ /\ flac.fed = Len(music.frames)
          /\ flac' = [flac EXCEPT !.eof = TRUE,
                                  !.end = IF flac.done = flac.fed THEN "eof" ELSE @]
       \/ flac' = [flac EXCEPT !.end = "aborted"]
    /\ UNCHANGED music

\* The library asks before it reads again.
BglEofCallback ==
    /\ Running
    /\ flac.eof
    /\ flac.done = flac.fed
    /\ flac' = [flac EXCEPT !.end = "eof"]
    /\ UNCHANGED music

BglMetadataCallback ==
    /\ Running
    /\ flac.info = {}
    /\ ~ Sixteen
    /\ flac' = [flac EXCEPT !.info = {<<music.rate, music.bits>>}]
    /\ UNCHANGED music

BglMetadataCallback16 ==
    /\ Running
    /\ flac.info = {}
    /\ Sixteen
    /\ flac' = [flac EXCEPT !.info =
                    {<<IF music.rate > Most THEN Most ELSE music.rate,
                       IF music.bits > 2 THEN 2 ELSE music.bits>>}]
    /\ UNCHANGED music

\* The write callback, with the method's answer.  A width of one byte is
\* "Bit rate unsupported": the error is raised through the library.
WriteFrame ==
    /\ Running
    /\ flac.done < flac.fed
    /\ LET n == flac.done + 1
           h == Header(n)
           r == IF Sixteen THEN BglWriteCallback16(h, music.frames[n], music.vol)
                ELSE BglWriteCallback(h, music.frames[n], music.vol)
       IN  IF music.bits = 1
           THEN flac' = [flac EXCEPT !.end = "raised"]
           ELSE \E ok \in BOOLEAN :
                    flac' = [flac EXCEPT !.done = n, !.sample = r.sample,
                                         !.out = Append(@, r.write),
                                         !.end = IF ok THEN @ ELSE "aborted"]
    /\ UNCHANGED music

BglErrorCallback ==
    /\ Running
    /\ flac' = [flac EXCEPT !.end = "raised"]
    /\ UNCHANGED music

\* The unwind-protect of flac-decoder-decode: flac-decoder-reset!.
DecodeReturns ==
    /\ flac.pc = "running"
    /\ flac.end # "no"
    /\ flac' = [flac EXCEPT !.pc = "idle", !.eof = FALSE, !.sample = 0]
    /\ UNCHANGED music

\* Least, small negative and greatest samples of the width.
SampleValues(bits) == {-(Base ^ bits \div 2), -3, Base ^ bits \div 2 - 1}

\* 48 kHz, and twice and four times 44.1 and 48 kHz.
Rates == {480, 882, 960, 1764, 1920}

InitFlac ==
    /\ flac = [pc |-> "idle", callbacks |-> "none", eof |-> FALSE, sample |-> 0,
               fed |-> 0, done |-> 0, out |-> <<>>, info |-> {}, end |-> "no",
               decoded |-> 0]
    /\ \E bits \in 1 .. 4, ch \in 1 .. 2, rate \in Rates, vol \in {"full", "half"} :
       \E x, y \in SampleValues(bits), odd \in BOOLEAN :
           /\ odd => vol = "full" /\ x # y
           /\ music = [bits |-> bits, channels |-> ch, rate |-> rate, vol |-> vol,
                    frames |-> <<[c \in 1 .. ch |-> (IF c = 1 THEN <<x, y>> ELSE <<y, x>>)
                                                     \o (IF odd THEN <<x>> ELSE <<>>)],
                                 [c \in 1 .. ch |-> <<c, -c>>]>>]

FlacNext == \/ BglFlacInitStream \/ BglFlacInitStream16
            \/ BglReadCallback \/ BglEofCallback
            \/ BglMetadataCallback \/ BglMetadataCallback16
            \/ WriteFrame \/ BglErrorCallback \/ DecodeReturns

\* Reading bytes back: little endian, two's complement.
Decoded(bytes) ==
    LET w(k) == IF k <= Len(bytes) THEN bytes[k] * Base ^ (k - 1) ELSE 0
        u == w(1) + w(2) + w(3) + w(4)
    IN  IF u >= Base ^ Len(bytes) \div 2 THEN u - Base ^ Len(bytes) ELSE u

(***************************************************************************)
(* What the decoder gives to flac-decoder-write is the music: read as      *)
(* little endian signed samples of the width that it announces, the bytes  *)
(* of every frame are the frame's samples, in order and interleaved, cut   *)
(* to their upper part when they are wider.  A frame lasts as long as it   *)
(* did, unless it is brought down to 16 bits and 48 kHz: then one sample   *)
(* of two is kept, which is right at 96 kHz for a block of even size, but  *)
(* not at 88.2, 176.4 and 192 kHz, which are announced as 48 kHz too, nor  *)
(* for an odd block, and samples of 16 bits are all kept (bglflac.c:491,   *)
(* 519, 598).  A decoding that ends at the end of the stream has written   *)
(* every frame.                                                            *)
(***************************************************************************)
MusicExact ==
    /\ \A n \in DOMAIN flac.out :
         LET w == flac.out[n]
             samples == Len(w.bytes) \div w.bits
             halved == w.rate # music.rate /\ music.bits > 2
             At(i) == LET s == ((i - 1) \div w.channels) + 1
                          c == ((i - 1) % w.channels) + 1
                      IN  Scaled(music.frames[n][c][IF halved THEN 2 * s ELSE s], music.vol)
         IN  /\ Len(w.bytes) = samples * w.bits
             /\ \A i \in 1 .. samples :
                    Decoded(SubSeq(w.bytes, (i - 1) * w.bits + 1, i * w.bits))
                        = At(i) \div Base ^ (music.bits - w.bits)
             /\ w.rate = music.rate \/ (halved /\ music.rate = 960 /\ BlockSize(n) % 2 = 0) =>
                    samples * music.rate = BlockSize(n) * w.channels * w.rate
             /\ \A t \in flac.info : t = <<w.rate, w.bits>>
    /\ flac.end = "eof" => Len(flac.out) = Len(music.frames)
    /\ flac.pc = "idle" => ~ flac.eof

-----------------------------------------------------------------------------
(***************************************************************************)
(* ALSA.  The bytes of the music are numbered; the program gives them to   *)
(* alsa-snd-pcm-write in order, from the first not acknowledged.  A frame  *)
(* has two bytes.  The card is in state "prepared", "xrun" (-EPIPE) or     *)
(* "suspended" (-ESTRPIPE).                                                *)
(***************************************************************************)
NoHw == [f \in {"rate", "buffer_size", "buffer_time", "period_size"} |-> 0]

InitAlsa ==
    /\ pcm = [ptr |-> "null", pc |-> "idle", sz |-> 0, w |-> 0, acked |-> 0,
              lost |-> FALSE, told |-> {}]
    /\ \E only \in SUBSET {"buffer_size", "rate"} :
           card = [state |-> "prepared", played |-> <<>>, hw |-> NoHw, only |-> only,
                   handles |-> 0]

PcmIdle == pcm.pc = "idle"

\* snd_pcm_open stores the pointer when it succeeds.
SndPcmOpen(p, c) ==
    \/ /\ pcm' = [p EXCEPT !.ptr = "live"]
       /\ card' = [c EXCEPT !.handles = @ + 1, !.state = "prepared", !.hw = NoHw]
    \/ /\ pcm' = p
       /\ card' = c

BglSndPcmOpen ==
    /\ PcmIdle
    /\ pcm.ptr = "null"
    /\ SndPcmOpen(pcm, card)

\* A close that fails leaves the object as it is; an open that fails leaves
\* it with the pointer of the device just closed.
BglSndPcmReopen ==
    /\ PcmIdle
    /\ pcm.ptr # "dead"
    /\ \/ /\ pcm.ptr = "live"
          /\ UNCHANGED alsaVars
       \/ SndPcmOpen(IF pcm.ptr = "live" THEN [pcm EXCEPT !.ptr = "dead", !.told = {}] ELSE pcm,
                     IF pcm.ptr = "live" THEN [card EXCEPT !.handles = @ - 1] ELSE card)

BglSndPcmClose ==
    /\ PcmIdle
    /\ pcm.ptr = "live"
    /\ pcm' = [pcm EXCEPT !.ptr = "null", !.told = {}]
    /\ card' = [card EXCEPT !.handles = @ - 1]

(***************************************************************************)
(* Hardware parameters: 0 until one is chosen.  The card has one value     *)
(* only for the parameters in card.only, two for the others.               *)
(***************************************************************************)
Offered(f) == IF f \in card.only THEN {1} ELSE {1, 2}

SetNear(f) ==
    /\ PcmIdle
    /\ pcm.ptr = "live"
    /\ \E v \in Offered(f) : card' = [card EXCEPT !.hw[f] = v]
    /\ pcm' = [pcm EXCEPT !.told = {t \in @ : t[1] # f}]

BglSndPcmHwParamsSetRateNear       == SetNear("rate")
BglSndPcmHwParamsSetBufferSizeNear == SetNear("buffer_size")
BglSndPcmHwParamsSetBufferTimeNear == SetNear("buffer_time")
BglSndPcmHwParamsSetPeriodSizeNear == SetNear("period_size")

\* A value is told, or an error when there is none.
Tell(f, values) ==
    /\ PcmIdle
    /\ pcm.ptr = "live"
    /\ pcm' = [pcm EXCEPT !.told = {t \in @ : t[1] # f} \cup ({f} \X values)]
    /\ UNCHANGED card

\* snd_pcm_hw_params_any is the whole space of the card: it has a value only
\* where there is no choice.
FirstOffered(f) == {1}
Unique(f) == IF Cardinality(Offered(f)) = 1 THEN Offered(f) ELSE {}
Current(f) == {card.hw[f]} \ {0}

BglSndPcmHwParamsGetBufferSize == Tell("buffer_size", Unique("buffer_size"))
BglSndPcmHwParamsGetBufferTime == Tell("buffer_time", Unique("buffer_time"))
BglSndPcmHwParamsGetPeriodSize == Tell("period_size", Current("period_size"))
BglSndPcmHwParamsGetRates      == Tell("rate", Current("rate"))

WriteStarts ==
    /\ PcmIdle
    /\ pcm.ptr = "live"
    /\ \E sz \in {2, 4} :
           /\ Len(card.played) + sz <= MaxBytes
           /\ pcm' = [pcm EXCEPT !.pc = "loop", !.sz = sz, !.w = 0]
    /\ UNCHANGED card

\* snd_pcm_writei of n frames: the card takes the next bytes of buf + w.
Taken(n) == [card EXCEPT !.played = @ \o [k \in 1 .. 2 * n |-> pcm.acked + pcm.w + k],
                         !.state = "prepared"]

WrittenTwice(n) ==
    LET w == pcm.w + 2 * n
    IN  IF w = pcm.sz
        THEN [pcm EXCEPT !.pc = "idle", !.acked = @ + w]
        ELSE pcm

Written(n) ==
    LET w == pcm.w + 2 * n
    IN  IF w = pcm.sz
        THEN [pcm EXCEPT !.pc = "idle", !.acked = @ + w]
        ELSE [pcm EXCEPT !.w = w]

Frames == (pcm.sz - pcm.w) \div 2

\* The error paths: a suspended card is resumed and 0 returned, whatever was
\* already played; any other error is raised.
WriteFails(state) ==
    /\ pcm' = [pcm EXCEPT !.pc = "idle", !.lost = pcm.w > 0 \/ @]
    /\ card' = [card EXCEPT !.state = state]

BglSndPcmWrite ==
    /\ pcm.pc = "loop"
    /\ \/ /\ card.state = "prepared"
          /\ \E n \in 0 .. Frames : pcm' = Written(n) /\ card' = Taken(n)
       \/ UNCHANGED alsaVars                                   \* -EINTR
       \/ /\ card.state = "xrun"                               \* -EPIPE
          /\ \/ \E n \in 0 .. Frames : pcm' = Written(n) /\ card' = Taken(n)
             \/ WriteFails("xrun")
       \/ /\ card.state = "suspended"
          /\ \E s \in {"prepared", "suspended"} : WriteFails(s)

BglSndPcmFlush ==
    /\ PcmIdle
    /\ pcm.ptr = "live"
    /\ card' = [card EXCEPT !.state = "prepared"]
    /\ UNCHANGED pcm

\* The card runs dry, or the machine goes to sleep.
CardStops ==
    /\ card.state = "prepared"
    /\ \E s \in {"xrun", "suspended"} : card' = [card EXCEPT !.state = s]
    /\ UNCHANGED pcm

AlsaNext == \/ BglSndPcmOpen \/ BglSndPcmReopen \/ BglSndPcmClose
            \/ BglSndPcmHwParamsSetRateNear \/ BglSndPcmHwParamsSetBufferSizeNear
            \/ BglSndPcmHwParamsSetBufferTimeNear \/ BglSndPcmHwParamsSetPeriodSizeNear
            \/ BglSndPcmHwParamsGetBufferSize \/ BglSndPcmHwParamsGetBufferTime
            \/ BglSndPcmHwParamsGetPeriodSize \/ BglSndPcmHwParamsGetRates
            \/ WriteStarts \/ BglSndPcmWrite \/ BglSndPcmFlush \/ CardStops

(***************************************************************************)
(* The card plays every byte that was given, once and in order: through    *)
(* short writes, interruptions and underruns, what it has taken is what    *)
(* was acknowledged and what the current call has written.  A write that   *)
(* fails after its first frames loses that (bglalsa.c:522 returns 0).  The *)
(* parameters that are told are those that were negotiated, and no device  *)
(* stays open unknown.                                                     *)
(***************************************************************************)
PlayedOnce ==
    /\ ~ pcm.lost =>
          card.played = [k \in 1 .. pcm.acked + (IF PcmIdle THEN 0 ELSE pcm.w) |-> k]
    /\ \A t \in pcm.told : card.hw[t[1]] \in {0, t[2]}
    /\ card.handles = (IF pcm.ptr = "live" THEN 1 ELSE 0)

-----------------------------------------------------------------------------
(***************************************************************************)
(* GStreamer values.  A gint has GInt bits, a fixnum GFix and a glong      *)
(* GLong: in the build they are 32, 61 and 64.                             *)
(***************************************************************************)
GInt  == 3
GFix  == 4
GLong == 5

SignedTypes   == {"int", "long", "int64"}
UnsignedTypes == {"uint", "ulong", "uint64"}
Width(type) == IF type \in {"int", "uint"} THEN GInt ELSE GLong
Fits(type, v) == IF type \in SignedTypes THEN InRange(v, Width(type))
                 ELSE v \in 0 .. 2 ^ Width(type) - 1

\* g_value_set_int and its like: the C conversion to the type.
GStored(type, v) == [type |-> type, v |-> IF type \in SignedTypes THEN Wrap(v, Width(type))
                                          ELSE v % (2 ^ Width(type))]

InitUnsigned(val) ==
    CASE val.kind \in {"string", "boolean", "real"} -> {[type |-> val.kind, v |-> val.v]}
      [] val.kind \in {"port", "object"} -> {[type |-> "pointer", v |-> val.v]}
      [] val.kind \in {"integer", "int", "long", "uint", "ulong"} -> {GStored("uint", val.v)}
      [] OTHER -> {}

\* The GValue of a Scheme object, as a set: empty when the type is refused.
\* An exact integer is a gint unless it is written (type n).
BglGValueInit(val) ==
    CASE val.kind \in {"string", "boolean", "real"} -> {[type |-> val.kind, v |-> val.v]}
      [] val.kind \in {"port", "object"} -> {[type |-> "pointer", v |-> val.v]}
      [] val.kind = "integer" -> {GStored("int", val.v)}
      [] val.kind \in {"int", "long", "uint", "ulong"} -> {GStored(val.kind, val.v)}
      [] OTHER -> {}

\* g_object_set_property: integers are converted to the property's type, an
\* equal type is stored, anything else is refused with a warning.
GSetProperty(ptype, g) ==
    IF {g.type, ptype} \subseteq SignedTypes \cup UnsignedTypes
    THEN {GStored(ptype, g.v)}
    ELSE IF g.type = ptype THEN {g} ELSE {}

BglGstObjectSetProperty(ptype, val) ==
    UNION {GSetProperty(ptype, g) : g \in BglGValueInit(val)}

\* The Scheme object of a GValue.
BglGValueToObj(g) ==
    CASE g.type \in {"int", "uint", "long"} -> [kind |-> "integer", v |-> Wrap(g.v, GFix)]
      [] g.type \in {"ulong", "int64", "uint64"} -> [kind |-> "llong", v |-> Wrap(g.v, GLong)]
      [] g.type = "pointer" -> [kind |-> "foreign", v |-> g.v]
      [] OTHER -> [kind |-> g.type, v |-> g.v]

\* The Scheme object of a tag of a tag list.
BglGsttagValueToObj(g) ==
    CASE g.type = "int" -> [kind |-> "integer", v |-> g.v]
      [] g.type = "uint" -> [kind |-> "elong", v |-> g.v]
      [] g.type \in {"long", "int64", "ulong", "uint64"} -> [kind |-> "llong", v |-> Wrap(g.v, GLong)]
      [] g.type \in {"string", "boolean"} -> [kind |-> g.type, v |-> g.v]
      [] g.type = "real" -> [kind |-> "real", v |-> 1]      \* the status, not the number
      [] OTHER -> [kind |-> "unspecified", v |-> 0]

GNumbers == - (2 ^ (GFix - 1)) .. 2 ^ (GFix - 1) - 1

InitGvalue ==
    \E t \in SignedTypes \cup UnsignedTypes \cup {"string", "boolean", "real", "pointer"},
       k \in {"integer", "int", "long", "uint", "ulong", "float", "string", "boolean",
              "real", "port", "object"},
       v \in GNumbers :
           gvalue = [ptype |-> t, val |-> [kind |-> k, v |-> v]]

(***************************************************************************)
(* A property reads back what was written to it: a number that fits the    *)
(* type it is written as and the property's type is the number read, and   *)
(* a string, a boolean, a real or a port is itself.  A tag that fits its   *)
(* type is told as it is (a real is not: bglgst.c:1007 makes a real of the *)
(* status).                                                                *)
(***************************************************************************)
PropertyKept ==
    LET val == gvalue.val
        written == CASE val.kind = "integer" -> "int"
                     [] val.kind \in {"port", "object"} -> "pointer"
                     [] OTHER -> val.kind
        numeric == written \in SignedTypes \cup UnsignedTypes
        fits == IF numeric
                THEN gvalue.ptype \in SignedTypes \cup UnsignedTypes
                     /\ Fits(written, val.v) /\ Fits(gvalue.ptype, val.v)
                ELSE written = gvalue.ptype
    IN  fits => /\ Cardinality(BglGstObjectSetProperty(gvalue.ptype, val)) = 1
                /\ \A g \in BglGstObjectSetProperty(gvalue.ptype, val) :
                     /\ BglGValueToObj(g).v = val.v
                     /\ (g.type \notin {"real", "pointer"} => BglGsttagValueToObj(g).v = val.v)

-----------------------------------------------------------------------------
(***************************************************************************)
(* The references to a GStreamer object: one of the library that owns it,  *)
(* one of every wrapper that Scheme will finalize, those of the callbacks  *)
(* that are queued.                                                        *)
(***************************************************************************)
InitGobject == gobject = [refs |-> 1, owned |-> TRUE, wrappers |-> 0, queued |-> 0]

Alive == gobject.refs > 0 /\ gobject.refs < MaxRefs

\* bgl_gst_object_to_obj: a wrapper, with a reference of its own if asked.
WrappedBare(o, ref) == [o EXCEPT !.wrappers = @ + 1]
Wrapped(o, ref) == [o EXCEPT !.wrappers = @ + 1, !.refs = IF ref THEN @ + 1 ELSE @]

\* The GValue of get_property holds a reference until it is unset.
GetProperty ==
    /\ Alive
    /\ gobject.owned
    /\ gobject' = [Wrapped([gobject EXCEPT !.refs = @ + 1], TRUE) EXCEPT !.refs = @ - 1]

\* The children of a bin that was parsed, the bin itself.
MakeBinChild == Alive /\ gobject.owned /\ gobject' = Wrapped(gobject, TRUE)

BglGstParseLaunch ==
    /\ Alive
    /\ gobject.owned
    /\ gobject' = [Wrapped(gobject, FALSE) EXCEPT !.owned = FALSE]

\* A signal whose closure runs later: the copy of the GValue holds one
\* reference and the mark another, and the copy is freed without an unset.
MarkAndCopy ==
    /\ Alive
    /\ gobject.owned
    /\ gobject' = [gobject EXCEPT !.refs = @ + 2, !.queued = @ + 1]

ValueToObjSansRef ==
    /\ gobject.queued > 0
    /\ gobject' = [Wrapped(gobject, FALSE) EXCEPT !.queued = @ - 1]

Finalize ==
    /\ gobject.wrappers > 0
    /\ gobject' = [gobject EXCEPT !.wrappers = @ - 1, !.refs = @ - 1]

OwnerUnref ==
    /\ gobject.owned
    /\ gobject' = [gobject EXCEPT !.owned = FALSE, !.refs = @ - 1]

GobjectNext == \/ GetProperty \/ MakeBinChild \/ BglGstParseLaunch \/ MarkAndCopy
               \/ ValueToObjSansRef \/ Finalize \/ OwnerUnref

\* An object is not freed while the library, a wrapper or a queued callback
\* still uses it.
NeverFreedInUse ==
    gobject.refs >= gobject.wrappers + gobject.queued + (IF gobject.owned THEN 1 ELSE 0)

=============================================================================
