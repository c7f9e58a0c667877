----------------------------- MODULE LldbWebKit -----------------------------
(***************************************************************************)
(* Tools/lldb/lldb_webkit.py: the providers lldb calls to display WebKit  *)
(* values (registered by __lldb_init_module), and the btjs command.       *)
(*                                                                         *)
(* The debuggee alternately runs, changing its values, and stops.  On a   *)
(* stop lldb calls update() on the synthetic-children providers it holds  *)
(* (WTFVectorProvider caches the vector's size there).  When the user     *)
(* prints a value, lldb calls the summary provider registered for its     *)
(* type and, for a Vector or a HashTable, num_children and then           *)
(* get_child_at_index for each child.                                     *)
(*                                                                         *)
(* Memory is modelled byte by byte where the providers read it:           *)
(* SBProcess.ReadMemory and the Python 2 codecs 'utf8' and 'utf16' are    *)
(* modelled by what they do.  The formatting of a summary ('%d', '%s',   *)
(* '%1.2f', and the one-to-one unicode_escape fallback of lines 273-277)  *)
(* is left out: a summary is the record of the values it shows.           *)
(*                                                                         *)
(* As committed, the file ends inside WTFMediaTimeProvider.hasDoubleValue *)
(* (line 726) and does not compile; the MediaTime provider, whose last    *)
(* method has no body, is not modelled.                                   *)
(***************************************************************************)
EXTENDS Integers, Sequences, FiniteSets
LOCAL INSTANCE Bitwise

CONSTANTS
  MaxCapacity,   \* the largest capacity of the debuggee's WTF::Vector
  Values,        \* the Strings, Colors and HashTables the user may print
  Frames,        \* the stopped thread's frames, innermost first
  Commands       \* the arguments btjs may be given

(* The Vectors the debuggee may hold: m_size <= m_capacity. *)
VectorStates == {v \in [size : 0..MaxCapacity, capacity : 0..MaxCapacity] : v.size <= v.capacity}

(***************************************************************************)
(* Strings: ustring_to_string and lstring_to_string, lines 260-297.       *)
(* A debuggee string is [null, is8, flags, units]: a null pointer, or a   *)
(* StringImpl with an 8-bit (Latin-1) or 16-bit (UTF-16) buffer, its      *)
(* m_hashAndFlags word and its code units (m_length of them).             *)
(***************************************************************************)
Decoded(ok, cps) == [ok |-> ok, cps |-> cps]

(* The bytes of the buffer: the bytes of an LChar buffer, or each UChar   *)
(* little-endian.                                                          *)
BufferBytes(s) ==
  IF s.is8 THEN s.units
  ELSE [i \in 1..2 * Len(s.units) |->
          IF i % 2 = 1 THEN s.units[(i + 1) \div 2] % 256 ELSE s.units[i \div 2] \div 256]

(* ReadMemory(pointer, n): n bytes from the buffer; past its end, the     *)
(* zero bytes this model places after every buffer.                       *)
ReadMemory(bytes, n) == [i \in 1..n |-> IF i <= Len(bytes) THEN bytes[i] ELSE 0]

(* bytes.decode('utf8') of Python 2.7, for start bytes below 0xF0. *)
Utf8Length(b) == CASE b < 128 -> 1 [] b \in 194..223 -> 2 [] b \in 224..239 -> 3 [] OTHER -> 0
IsCont(b) == b \in 128..191
RECURSIVE Utf8Decode(_)
Utf8Decode(b) ==
  IF b = <<>> THEN Decoded(TRUE, <<>>)
  ELSE LET n == Utf8Length(b[1])
           ok == n > 0 /\ n <= Len(b) /\ \A i \in 2..n : IsCont(b[i])
                 /\ (b[1] = 224 => b[2] >= 160)
           cp == CASE n = 1 -> b[1]
                   [] n = 2 -> (b[1] - 192) * 64 + (b[2] - 128)
                   [] OTHER -> (b[1] - 224) * 4096 + (b[2] - 128) * 64 + (b[3] - 128)
           rest == Utf8Decode(SubSeq(b, n + 1, Len(b)))
       IN IF ok THEN Decoded(rest.ok, <<cp>> \o rest.cps) ELSE Decoded(FALSE, <<>>)

(* UTF-16 code units to code points; Python 2.7 refuses a lone surrogate. *)
IsHigh(u) == u \in 55296..56319
IsLow(u) == u \in 56320..57343
Pair(h, l) == 65536 + (h - 55296) * 1024 + (l - 56320)
RECURSIVE Utf16Units(_)
Utf16Units(u) ==
  CASE u = <<>> -> Decoded(TRUE, <<>>)
    [] Len(u) >= 2 /\ IsHigh(u[1]) /\ IsLow(u[2]) ->
         LET rest == Utf16Units(SubSeq(u, 3, Len(u))) IN
         Decoded(rest.ok, <<Pair(u[1], u[2])>> \o rest.cps)
    [] IsHigh(u[1]) \/ IsLow(u[1]) -> Decoded(FALSE, <<>>)
    [] OTHER -> LET rest == Utf16Units(Tail(u)) IN Decoded(rest.ok, <<u[1]>> \o rest.cps)

(* bytes.decode('utf16'): a leading byte-order mark, FF FE (little-endian) *)
(* or FE FF (big-endian), is consumed and sets the byte order; without    *)
(* one the host's, little-endian, is used.                                 *)
Utf16Decode(b) ==
  LET be == Len(b) >= 2 /\ b[1] = 254 /\ b[2] = 255
      bom == be \/ (Len(b) >= 2 /\ b[1] = 255 /\ b[2] = 254)
      body == IF bom THEN SubSeq(b, 3, Len(b)) ELSE b
      unit(i) == IF be THEN body[2 * i - 1] * 256 + body[2 * i]
                 ELSE body[2 * i - 1] + 256 * body[2 * i]
  IN Utf16Units([i \in 1..(Len(body) \div 2) |-> unit(i)])

(* Lines 260-277 and 280-297, with the length given by the caller. *)
UStringToString(bytes, length) ==
  IF length = 0 THEN Decoded(TRUE, <<>>) ELSE Utf16Decode(ReadMemory(bytes, length * 2))
LStringToString(bytes, length) ==
  IF length = 0 THEN Decoded(TRUE, <<>>) ELSE Utf8Decode(ReadMemory(bytes, length))

(* WTFStringImplProvider, lines 300-332. *)
ImplLength(s) == IF s.null THEN 0 ELSE Len(s.units)
(* Fault variant: the flag is looked for at bit 2 (s_hashFlagDidReportCost). *)
Is8BitWrongFlag(s) == (s.flags & 2^2) # 0
Is8Bit(s) == (s.flags & 2^3) # 0
ImplToString(s) ==
  CASE s.null   -> Decoded(TRUE, <<>>)
    [] Is8Bit(s) -> LStringToString(BufferBytes(s), ImplLength(s))
    [] OTHER    -> UStringToString(BufferBytes(s), ImplLength(s))

(* The summary providers of lines 69-87 and the string providers of lines *)
(* 335-377.  A StringView (m_characters, m_length, m_is8Bit) is taken of  *)
(* the same buffer; String and AtomicString go through m_impl.m_ptr.      *)
StringKinds == {"String", "AtomicString", "StringImpl", "StringView"}
StringSummary(k, s) ==
  CASE k = "StringImpl" /\ s.null -> [length |-> 0, contents |-> Decoded(TRUE, <<>>)]
    [] k = "StringView" ->
         [length |-> ImplLength(s),
          contents |-> CASE ImplLength(s) = 0 -> Decoded(TRUE, <<>>)
                         [] s.is8  -> LStringToString(BufferBytes(s), ImplLength(s))
                         [] OTHER -> UStringToString(BufferBytes(s), ImplLength(s))]
    [] OTHER -> [length |-> ImplLength(s), contents |-> ImplToString(s)]

(***************************************************************************)
(* Synthetic children.  A child is a member, by name, or the element or   *)
(* bucket at an index; its name '[i]' is parsed back by get_child_index.  *)
(***************************************************************************)
Member(m) == [k |-> m, i |-> 0]
Element(i) == [k |-> "elem", i |-> i]
NoChild == [k |-> "none", i |-> 0]

(* WTFVectorProvider, lines 577-617; c is what update() cached.          *)
(* Fault variant: update() takes the size from m_capacity.                *)
VectorUpdateFromCapacity(v) == [size |-> v.capacity, capacity |-> v.capacity]
VectorUpdate(v) == [size |-> v.size, capacity |-> v.capacity]
(* Fault variant: one child too many. *)
VectorNumChildrenOffByOne(c) == c.size + 4
VectorNumChildren(c) == c.size + 3
(* Fault variant: the indices of m_capacity and m_buffer exchanged. *)
VectorChildIndexSwapped(c, ch) ==
  CASE ch.k = "m_size" -> c.size [] ch.k = "m_buffer" -> c.size + 1
    [] ch.k = "m_capacity" -> c.size + 2 [] OTHER -> ch.i
VectorChildIndex(c, ch) ==
  CASE ch.k = "m_size" -> c.size [] ch.k = "m_capacity" -> c.size + 1
    [] ch.k = "m_buffer" -> c.size + 2 [] OTHER -> ch.i
VectorChildAt(c, index) ==
  CASE index = c.size     -> Member("m_size")
    [] index = c.size + 1 -> Member("m_capacity")
    [] index = c.size + 2 -> Member("m_buffer")
    [] index < c.size     -> Element(index)
    [] OTHER              -> NoChild

(* WTFHashTableProvider, lines 646-697, and the HashMap and HashSet       *)
(* providers of lines 620-644 that read their m_impl through it.  A table *)
(* is [tableSize, keyCount]; its size is read anew on every call.         *)
TableMembers == <<"m_table", "m_tableSize", "m_tableSizeMask", "m_keyCount", "m_deletedCount">>
TableNumChildren(t) == t.tableSize + 5
TableChildIndex(t, ch) ==
  IF ch.k = "elem" THEN ch.i
  ELSE t.tableSize + CHOOSE j \in 0..4 : TableMembers[j + 1] = ch.k
TableChildAt(t, index) ==
  CASE index \in t.tableSize..(t.tableSize + 4) -> Member(TableMembers[index - t.tableSize + 1])
    [] index < t.tableSize                       -> Element(index)
    [] OTHER                                     -> NoChild

(* The summaries of lines 95-107: a HashMap or HashSet provider reads the *)
(* counts of its m_impl through a WTFHashTableProvider.                   *)
TableSummary(t) == [tableSize |-> t.tableSize, keyCount |-> t.keyCount]

(* lldb lists the children 0 .. num_children - 1. *)
Listing(n, At(_)) == [i \in 1..n |-> At(i - 1)]

(***************************************************************************)
(* WebCoreColorProvider, lines 380-429.  A debuggee Color is [ext, space, *)
(* valid, semantic, r, g, b, a].  WebCore::Color keeps a simple color in  *)
(* m_colorData.rgbaAndFlags: 0xAARRGGBB in the high 32 bits, and 0x1 (not *)
(* an ExtendedColor pointer), 0x2 (valid) and 0x4 (semantic) in the low   *)
(* ones; an ExtendedColor pointer is 8-aligned.  The word is kept as its  *)
(* halves [hi, lo]; 'x >> 32' is hi.                                      *)
(***************************************************************************)
ColorWord(c) ==
  IF c.ext THEN [hi |-> 0, lo |-> 8]
  ELSE [hi |-> c.a * 2^24 + c.r * 2^16 + c.g * 2^8 + c.b,
        lo |-> 1 + (IF c.valid THEN 2 ELSE 0) + (IF c.semantic THEN 4 ELSE 0)]

Profile(space) ==
  CASE space = "ColorSpaceSRGB" -> "srgb"
    [] space = "ColorSpaceDisplayP3" -> "display-p3"
    [] OTHER -> "unknown"

(* Fault variant: the red and green shifts exchanged. *)
ColorSummarySwappingShift(c) ==
  LET w == ColorWord(c) color == w.hi IN
  CASE (w.lo & 1) = 0 -> [kind |-> "extended", profile |-> Profile(c.space)]
    [] (w.lo & 2) = 0 -> [kind |-> "invalid"]
    [] OTHER -> [kind |-> "rgba", r |-> shiftR(color, 8) & 255, g |-> shiftR(color, 16) & 255,
                 b |-> color & 255, a |-> shiftR(color, 24) & 255, semantic |-> (w.lo & 4) # 0]

ColorSummary(c) ==
  LET w == ColorWord(c) color == w.hi IN
  CASE (w.lo & 1) = 0 -> [kind |-> "extended", profile |-> Profile(c.space)]
    [] (w.lo & 2) = 0 -> [kind |-> "invalid"]
    [] OTHER -> [kind |-> "rgba", r |-> shiftR(color, 16) & 255, g |-> shiftR(color, 8) & 255,
                 b |-> color & 255, a |-> shiftR(color, 24) & 255, semantic |-> (w.lo & 4) # 0]

(***************************************************************************)
(* WTFMediaTime_SummaryProvider, lines 110-121, and WTFMediaTimeProvider  *)
(* (700-727).  A MediaTime is [valid, rounded, cls, value, scale, dbl]:   *)
(* cls is "+inf", "-inf", "indefinite", "double" or "rational".  Its      *)
(* m_timeFlags byte is laid out as WTF::MediaTime's flags: Valid 1,       *)
(* HasBeenRounded 2, PositiveInfinite 4, NegativeInfinite 8, Indefinite   *)
(* 16, DoubleValue 32.  The '%d/%d, %f' of a rational time is formatting  *)
(* of its value and scale, which the summary keeps.                       *)
(***************************************************************************)
TimeFlags(t) ==
  (IF t.valid THEN 1 ELSE 0) + (IF t.rounded THEN 2 ELSE 0) +
  (CASE t.cls = "+inf" -> 4 [] t.cls = "-inf" -> 8 [] t.cls = "indefinite" -> 16
     [] t.cls = "double" -> 32 [] OTHER -> 0)

(* isInvalid ... hasDoubleValue: m_timeFlags & (1 << b). *)
TimeFlag(t, b) == (TimeFlags(t) & 2^b) # 0

(* Fault variant: isInvalid tests the HasBeenRounded bit. *)
MediaTimeSummaryRoundedAsValid(t) ==
  CASE ~TimeFlag(t, 1) -> [kind |-> "Invalid"]
    [] TimeFlag(t, 2)  -> [kind |-> "+Infinity"]
    [] TimeFlag(t, 3)  -> [kind |-> "-Infinity"]
    [] TimeFlag(t, 4)  -> [kind |-> "Indefinite"]
    [] TimeFlag(t, 5)  -> [kind |-> "double", value |-> t.dbl]
    [] OTHER           -> [kind |-> "rational", value |-> t.value, scale |-> t.scale]

MediaTimeSummary(t) ==
  CASE ~TimeFlag(t, 0) -> [kind |-> "Invalid"]
    [] TimeFlag(t, 2)  -> [kind |-> "+Infinity"]
    [] TimeFlag(t, 3)  -> [kind |-> "-Infinity"]
    [] TimeFlag(t, 4)  -> [kind |-> "Indefinite"]
    [] TimeFlag(t, 5)  -> [kind |-> "double", value |-> t.dbl]
    [] OTHER           -> [kind |-> "rational", value |-> t.value, scale |-> t.scale]

(***************************************************************************)
(* btjs, lines 187-230.  A frame is [id, sym, evals]: its symbol's name   *)
(* ("none" when it has none) and the describeFrame() expressions (1-3)    *)
(* that yield a description.  A command is [kind |-> "none"], an integer  *)
(* [kind |-> "int", n], or [kind |-> "bad"], which int() refuses.          *)
(* The condition of line 222 parses as '(annotateJSFrames and not frame)  *)
(* or ...'; a frame of the iteration is valid, so the first disjunct is   *)
(* false and the expressions are tried whether or not annotation is on.   *)
(***************************************************************************)
(* Fault variant: the loop stops at 'backtraceDepth < 0'. *)
RECURSIVE BtjsFramesOffByOne(_, _, _)
BtjsFramesOffByOne(fs, depth, js) ==
  IF fs = <<>> \/ depth < 0 THEN <<>>
  ELSE LET f == Head(fs) IN
       <<[id |-> f.id, js |-> js /\ f.sym \in {"none", "llint_entry"} /\ f.evals # {}]>>
         \o BtjsFramesOffByOne(Tail(fs), depth - 1, js)

RECURSIVE BtjsFrames(_, _, _)
BtjsFrames(fs, depth, js) ==
  IF fs = <<>> \/ depth < 1 THEN <<>>
  ELSE LET f == Head(fs) IN
       <<[id |-> f.id, js |-> js /\ f.sym \in {"none", "llint_entry"} /\ f.evals # {}]>>
         \o BtjsFrames(Tail(fs), depth - 1, js)

(* What btjs prints: the warning, the thread line and the frames. *)
Btjs(cmd, js) ==
  [warned |-> ~js,
   header |-> cmd.kind # "bad",
   frames |-> CASE cmd.kind = "bad"  -> <<>>
                [] cmd.kind = "none" -> BtjsFrames(Frames, Len(Frames), js)
                [] OTHER             -> BtjsFrames(Frames, cmd.n, js)]

(***************************************************************************)
(* The geometry providers, lines 432-565.  A debuggee value is            *)
(* [type |-> "geometry", fam, shape, m]: fam is Layout, Int or Float,     *)
(* shape is Unit (LayoutUnit only), Point, Size or Rect, and m holds the  *)
(* members: m_value; m_x, m_y; m_width, m_height; m_location (a point)    *)
(* and m_size (a size).  A LayoutUnit member stands for its m_value.      *)
(* Every getter reads its member anew.                                     *)
(***************************************************************************)
(* WebCoreLayoutUnitProvider.to_string, lines 437-439: '%gpx (%d)' of     *)
(* m_value / 64 and m_value; a px value is kept as the fraction [n, d].   *)
LayoutUnitToString(v) == [px |-> [n |-> v, d |-> 64], raw |-> v]

(* The getters of the size and point providers, lines 442-547: a Layout *)
(* member through WebCoreLayoutUnitProvider, an Int one with              *)
(* GetValueAsSigned(), a Float one as float() of lldb's GetValue(), which *)
(* for the values modelled gives the number back.                         *)
Coord(fam, v) ==
  CASE fam = "Layout" -> LayoutUnitToString(v)
    [] OTHER          -> v

(* The summary providers, lines 135-183: 'x', 'y', 'width', 'height'.  A  *)
(* rect provider reads x and y through a point provider on m_location and *)
(* width and height through a size provider on m_size.                   *)
ShapeSummary(fam, shape, m) ==
  CASE shape = "Point" -> [x |-> Coord(fam, m.m_x), y |-> Coord(fam, m.m_y)]
    [] shape = "Size"  -> [width |-> Coord(fam, m.m_width), height |-> Coord(fam, m.m_height)]
    [] OTHER -> [x |-> Coord(fam, m.m_location.m_x), y |-> Coord(fam, m.m_location.m_y),
                 width |-> Coord(fam, m.m_size.m_width), height |-> Coord(fam, m.m_size.m_height)]

(* The provider registered for the value's type, lines 51-61. *)
GeometrySummary(g) ==
  IF g.shape = "Unit" THEN [unit |-> LayoutUnitToString(g.m.m_value)]
  ELSE ShapeSummary(g.fam, g.shape, g.m)

(* WebCoreURLProvider.to_string, lines 573-574: the URL's m_string through *)
(* a WTFStringProvider.                                                     *)
UrlToString(u) == StringSummary("String", u.m_string)

-----------------------------------------------------------------------------
VARIABLES
  dbg,      \* the debuggee: "running" or "stopped"
  vec,      \* its WTF::Vector [size, capacity]
  vp,       \* what the Vector's synthetic provider cached in update()
  val,      \* the String, URL, Color, HashTable or geometry value the user prints
  jsc,      \* the target has JSC::ExecState::describeFrame
  shown     \* what lldb displayed since the debuggee stopped

vars == <<dbg, vec, vp, val, jsc, shown>>

Nothing == [type |-> "none"]

Init ==
  /\ dbg = "stopped"
  /\ vec \in VectorStates
  /\ vp = VectorUpdate(vec)           \* __init__ calls update()
  /\ val \in Values
  /\ jsc \in BOOLEAN
  /\ shown = Nothing

(* The debuggee resumes; what lldb displayed is gone. *)
Continue ==
  /\ dbg = "stopped" /\ dbg' = "running" /\ shown' = Nothing
  /\ UNCHANGED <<vec, vp, val, jsc>>

(* The running program changes its Vector, or the value the user prints. *)
ProgramChangesVector ==
  /\ dbg = "running" /\ vec' \in VectorStates
  /\ UNCHANGED <<dbg, vp, val, jsc, shown>>
ProgramChangesValue ==
  /\ dbg = "running" /\ val' \in Values
  /\ UNCHANGED <<dbg, vec, vp, jsc, shown>>

(* The debuggee stops; lldb calls update() on the synthetic providers     *)
(* (WTFHashTableProvider.update re-reads only the bucket type).           *)
Stop ==
  /\ dbg = "running" /\ dbg' = "stopped"
  /\ vp' = VectorUpdate(vec)
  /\ UNCHANGED <<vec, val, jsc, shown>>

(* 'p vector': the summary of a fresh provider (lines 90-92) and the     *)
(* children of the cached one.                                             *)
ShowVector ==
  /\ dbg = "stopped"
  /\ shown' = [type |-> "vector", size |-> vec.size, capacity |-> vec.capacity,
               children |-> Listing(VectorNumChildren(vp), LAMBDA i : VectorChildAt(vp, i))]
  /\ UNCHANGED <<dbg, vec, vp, val, jsc>>

(* 'p table': the summary of lines 95-97 and the synthetic children.  A  *)
(* HashMap or HashSet gets the same summary through its m_impl (100-107); *)
(* no synthetic provider is registered for it (lines 64-65).              *)
ShowTable ==
  /\ dbg = "stopped" /\ val.type = "table"
  /\ shown' = [type |-> "table", summary |-> TableSummary(val),
               children |-> Listing(TableNumChildren(val), LAMBDA i : TableChildAt(val, i))]
  /\ UNCHANGED <<dbg, vec, vp, val, jsc>>

(* 'p string' with the string seen as a String, AtomicString, StringImpl* *)
(* or StringView.                                                          *)
ShowString(k) ==
  /\ dbg = "stopped" /\ val.type = "string"
  /\ shown' = [type |-> "string", kind |-> k, summary |-> StringSummary(k, val)]
  /\ UNCHANGED <<dbg, vec, vp, val, jsc>>

(* 'p url', lines 130-132: shown as its string is. *)
ShowURL ==
  /\ dbg = "stopped" /\ val.type = "url"
  /\ shown' = [type |-> "string", kind |-> "URL", summary |-> UrlToString(val)]
  /\ UNCHANGED <<dbg, vec, vp, val, jsc>>

(* 'p' of a LayoutUnit, or of a Layout, Int or Float size, point or rect. *)
ShowGeometry ==
  /\ dbg = "stopped" /\ val.type = "geometry"
  /\ shown' = [type |-> "geometry", summary |-> GeometrySummary(val)]
  /\ UNCHANGED <<dbg, vec, vp, val, jsc>>

(* 'p color', lines 125-127. *)
ShowColor ==
  /\ dbg = "stopped" /\ val.type = "color"
  /\ shown' = [type |-> "color", summary |-> ColorSummary(val)]
  /\ UNCHANGED <<dbg, vec, vp, val, jsc>>

(* 'p time', lines 110-121. *)
ShowMediaTime ==
  /\ dbg = "stopped" /\ val.type = "mediatime"
  /\ shown' = [type |-> "mediatime", summary |-> MediaTimeSummary(val)]
  /\ UNCHANGED <<dbg, vec, vp, val, jsc>>

(* 'btjs <command>'. *)
RunBtjs(cmd) ==
  /\ dbg = "stopped"
  /\ shown' = [type |-> "btjs", cmd |-> cmd, out |-> Btjs(cmd, jsc)]
  /\ UNCHANGED <<dbg, vec, vp, val, jsc>>

(* The callbacks __lldb_init_module registers, lines 36-66, and the       *)
(* debuggee's steps.                                                       *)
Next ==
  \/ Continue \/ ProgramChangesVector \/ ProgramChangesValue \/ Stop
  \/ ShowVector \/ ShowTable \/ ShowColor \/ ShowURL \/ ShowGeometry \/ ShowMediaTime
  \/ \E k \in StringKinds : ShowString(k)
  \/ \E c \in Commands : RunBtjs(c)

Spec == Init /\ [][Next]_vars
=============================================================================
