---------------------------- MODULE MC_LldbWebKit ----------------------------
(***************************************************************************)
(* The lldb providers over small debuggee values: strings of up to two    *)
(* code units drawn from ASCII, Latin-1 letters, the byte-order marks and *)
(* the two surrogate halves; colors with every channel at 0, 128 or 255;  *)
(* tables of 0 or 4 buckets; vectors of capacity up to 2; a stack of      *)
(* three frames.                                                           *)
(***************************************************************************)
EXTENDS LldbWebKit

(* The bytes of an 8-bit string: 'A', 'Ã', '©', 'é' in Latin-1. *)
Bytes8 == {65, 195, 169, 233}
(* The units of a 16-bit string: 'A', 'é', U+FEFF, U+FFFE, a high and a low surrogate. *)
Units16 == {65, 233, 65279, 65534, 55296, 56320}
(* The other bits of m_hashAndFlags: none, or s_hashFlagDidReportCost. *)
OtherFlags == {0, 4}

UpTo2(S) == {<<>>} \cup [1..1 -> S] \cup [1..2 -> S]

NullString == [type |-> "string", null |-> TRUE, is8 |-> FALSE, flags |-> 0, units |-> <<>>]
Strings ==
  {NullString} \cup
  UNION {{[type |-> "string", null |-> FALSE, is8 |-> b, flags |-> (IF b THEN 8 ELSE 0) + o,
           units |-> u] : u \in UpTo2(IF b THEN Bytes8 ELSE Units16)} : b \in BOOLEAN, o \in OtherFlags}

Channels == {0, 128, 255}
Alphas == {0, 127}
Colors ==
  {[type |-> "color", ext |-> FALSE, space |-> "none", valid |-> TRUE, semantic |-> sem,
    r |-> r, g |-> g, b |-> b, a |-> a] :
     r \in Channels, g \in Channels, b \in Channels, a \in Alphas, sem \in BOOLEAN}
  \cup {[type |-> "color", ext |-> FALSE, space |-> "none", valid |-> FALSE, semantic |-> FALSE,
         r |-> 0, g |-> 0, b |-> 0, a |-> 0]}
  \cup {[type |-> "color", ext |-> TRUE, space |-> sp, valid |-> TRUE, semantic |-> FALSE,
         r |-> 0, g |-> 0, b |-> 0, a |-> 0] :
          sp \in {"ColorSpaceSRGB", "ColorSpaceDisplayP3", "ColorSpaceLinearRGB"}}

Tables == {[type |-> "table", tableSize |-> 0, keyCount |-> 0],
           [type |-> "table", tableSize |-> 4, keyCount |-> 0],
           [type |-> "table", tableSize |-> 4, keyCount |-> 2]}

(* URLs whose m_string is an 8-bit string. *)
URLs == {[type |-> "url", m_string |-> str] : str \in {x \in Strings : x.is8}}

(* One value of each geometry type, its coordinates all different: a      *)
(* LayoutUnit of 65 (1 + 1/64 px) and of -64; Int and Float coordinates   *)
(* with a negative one.                                                    *)
Coords(fam) == IF fam = "Layout" THEN <<65, -64, 1, 128>> ELSE <<1, -2, 3, 4>>
Shaped(fam, shape) ==
  LET c == Coords(fam) IN
  CASE shape = "Unit"  -> [m_value |-> c[1]]
    [] shape = "Point" -> [m_x |-> c[1], m_y |-> c[2]]
    [] shape = "Size"  -> [m_width |-> c[3], m_height |-> c[4]]
    [] OTHER -> [m_location |-> [m_x |-> c[1], m_y |-> c[2]], m_size |-> [m_width |-> c[3], m_height |-> c[4]]]
Geometries ==
  {[type |-> "geometry", fam |-> "Layout", shape |-> "Unit", m |-> [m_value |-> -64]]} \cup
  {[type |-> "geometry", fam |-> f, shape |-> sh, m |-> Shaped(f, sh)] :
     <<f, sh>> \in ({"Layout"} \X {"Unit", "Point", "Size", "Rect"}) \cup
                   ({"Int", "Float"} \X {"Point", "Size", "Rect"})}

(* The times WTF::MediaTime produces: invalidTime(); the infinities and   *)
(* indefiniteTime(), all Valid; a double time and rational times of a     *)
(* negative and a positive value, each rounded or not.                    *)
Time(v, r, c, n, s) == [type |-> "mediatime", valid |-> v, rounded |-> r, cls |-> c,
                        value |-> n, scale |-> s, dbl |-> IF c = "double" THEN 3 ELSE 0]
MediaTimes ==
  {Time(FALSE, FALSE, "rational", 0, 1)} \cup
  {Time(TRUE, FALSE, c, 0, 1) : c \in {"+inf", "-inf", "indefinite"}} \cup
  {Time(TRUE, r, "double", 0, 1) : r \in BOOLEAN} \cup
  {Time(TRUE, r, "rational", vs[1], vs[2]) : r \in BOOLEAN, vs \in {<<-3, 2>>, <<5, 1>>}}

MCValues == Strings \cup URLs \cup Colors \cup Tables \cup Geometries \cup MediaTimes

MCFrames == <<[id |-> 0, sym |-> "none", evals |-> {1}],
              [id |-> 1, sym |-> "llint_entry", evals |-> {}],
              [id |-> 2, sym |-> "WebCore::EventTarget::fireEventListeners", evals |-> {3}]>>

MCCommands == {[kind |-> "none"], [kind |-> "bad"]} \cup {[kind |-> "int", n |-> n] : n \in {-1, 0, 2, 5}}

-----------------------------------------------------------------------------
(* The reference: the characters a string holds.  An 8-bit string holds   *)
(* Latin-1 characters, one per byte; a 16-bit string holds UTF-16, where  *)
(* a high surrogate followed by a low one is one character.                *)
RECURSIVE Utf16Chars(_)
Utf16Chars(u) ==
  CASE u = <<>> -> <<>>
    [] Len(u) >= 2 /\ IsHigh(u[1]) /\ IsLow(u[2]) ->
         <<Pair(u[1], u[2])>> \o Utf16Chars(SubSeq(u, 3, Len(u)))
    [] OTHER -> <<u[1]>> \o Utf16Chars(Tail(u))
Chars(s) == CASE s.null -> <<>> [] s.is8 -> s.units [] OTHER -> Utf16Chars(s.units)

Expected(c) == [ok |-> TRUE, cps |-> c]

(* The string a String provider or a URL provider shows. *)
Str == IF val.type = "url" THEN val.m_string ELSE val

-----------------------------------------------------------------------------
TypeOK ==
  /\ dbg \in {"running", "stopped"}
  /\ vec \in VectorStates /\ vp \in VectorStates
  /\ val \in Values /\ jsc \in BOOLEAN
  /\ shown.type \in {"none", "vector", "table", "string", "color", "geometry", "mediatime", "btjs"}
  /\ shown.type \in {"vector", "table"} =>
       \A i \in DOMAIN shown.children :
         shown.children[i] \in {Member(m) : m \in {"m_size", "m_capacity", "m_buffer"} \cup {TableMembers[j] : j \in 1..5}}
                                \cup {Element(j) : j \in 0..4}
  /\ dbg = "running" => shown = Nothing

(* The children lldb lists for a Vector or a HashTable (num_children,     *)
(* then get_child_at_index for each index) are exactly the live value's   *)
(* elements or buckets, in order, then its members: the Vector provider's *)
(* cached size from update() is never stale at a stop.                     *)
ChildrenAreLive ==
  /\ shown.type = "vector" =>
       shown.children = [i \in 1..vec.size |-> Element(i - 1)]
                        \o <<Member("m_size"), Member("m_capacity"), Member("m_buffer")>>
  /\ shown.type = "table" =>
       shown.children = [i \in 1..val.tableSize |-> Element(i - 1)]
                        \o [j \in 1..5 |-> Member(TableMembers[j])]

(* get_child_index, given the name of a listed child, returns the index   *)
(* get_child_at_index listed it at (for 'p vector.m_buffer' and '[i]').   *)
ChildIndexInverse ==
  /\ shown.type = "vector" =>
       \A i \in DOMAIN shown.children : VectorChildIndex(vp, shown.children[i]) = i - 1
  /\ shown.type = "table" =>
       \A i \in DOMAIN shown.children : TableChildIndex(val, shown.children[i]) = i - 1

(* The MediaTime summary (lines 110-121) names the time WTF stored, read  *)
(* from its m_timeFlags bits: Invalid for a time without the Valid flag,  *)
(* each infinity, Indefinite, the double of a double time, and the value  *)
(* and scale of a rational time, a rounded time shown as an unrounded one. *)
MediaTimeShownAsHeld ==
  shown.type = "mediatime" =>
    shown.summary =
      IF ~val.valid THEN [kind |-> "Invalid"]
      ELSE CASE val.cls = "+inf"       -> [kind |-> "+Infinity"]
             [] val.cls = "-inf"       -> [kind |-> "-Infinity"]
             [] val.cls = "indefinite" -> [kind |-> "Indefinite"]
             [] val.cls = "double"     -> [kind |-> "double", value |-> val.dbl]
             [] OTHER -> [kind |-> "rational", value |-> val.value, scale |-> val.scale]

(* The Color summary shows the color WebCore stored: its channels and its *)
(* semantic bit for a simple valid color, 'invalid', or the profile of an *)
(* extended color.                                                         *)
ColorShownFaithfully ==
  shown.type = "color" =>
    shown.summary =
      CASE val.ext    -> [kind |-> "extended", profile |-> Profile(val.space)]
        [] ~val.valid -> [kind |-> "invalid"]
        [] OTHER      -> [kind |-> "rgba", r |-> val.r, g |-> val.g, b |-> val.b, a |-> val.a,
                          semantic |-> val.semantic]

(* btjs with a frame count n prints the thread line and the first n       *)
(* frames (all of them without an argument, none for n <= 0), in order,   *)
(* and annotates a frame as JavaScript only when the target has           *)
(* describeFrame; an argument int() refuses prints nothing.               *)
BacktraceShowsRequestedFrames ==
  shown.type = "btjs" =>
    LET cmd == shown.cmd
        want == CASE cmd.kind = "none" -> Len(Frames)
                  [] cmd.kind = "bad"  -> 0
                  [] OTHER -> IF cmd.n < 0 THEN 0 ELSE IF cmd.n < Len(Frames) THEN cmd.n ELSE Len(Frames)
    IN /\ shown.out.header = (cmd.kind # "bad")
       /\ [i \in DOMAIN shown.out.frames |-> shown.out.frames[i].id] = [i \in 1..want |-> Frames[i].id]
       /\ \A i \in DOMAIN shown.out.frames : shown.out.frames[i].js => jsc

(* A string of ASCII characters is shown with its length and exactly its *)
(* characters by every string provider, and by the URL provider for the  *)
(* URL's string, whatever its representation and the other bits of       *)
(* m_hashAndFlags.                                                          *)
AsciiStringsShownExactly ==
  (shown.type = "string" /\ \A i \in DOMAIN Str.units : Str.units[i] < 128) =>
    shown.summary = [length |-> Len(Str.units), contents |-> Expected(Chars(Str))]

(* Every string is shown with its length and exactly its characters: an   *)
(* 8-bit string's Latin-1 characters, a 16-bit string's UTF-16 ones.       *)
StringShownExactly ==
  shown.type = "string" =>
    shown.summary = [length |-> ImplLength(Str), contents |-> Expected(Chars(Str))]
=============================================================================
