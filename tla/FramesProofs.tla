---------------------------- MODULE FramesProofs ----------------------------
(***************************************************************************)
(* Proofs about Frames, for any programs, wires, messages, sizes, header,  *)
(* and socket buffer.                                                      *)
(*                                                                         *)
(* What is on a wire is described byte by byte.  frames[i] is the i-th     *)
(* frame ever begun on the wire and start[i] the place before its first    *)
(* byte, counted from the first byte that is still on the wire: negative   *)
(* for the frame that is being read.  The bytes of a frame are found       *)
(* through start, so nothing has to be said about a sequence of frames     *)
(* laid end to end.                                                        *)
(***************************************************************************)
EXTENDS Frames, Integers, TLAPS

Byte == (Msg \cup Nat) \X Nat
Text == Seq(Byte)
Short == {d \in Text : Len(d) <= Longest + HeaderBytes}

\* What write_frame puts on the wire for the data d.
Frame(d) == Header(Len(d)) \o d

ActorTypes ==
    /\ doing \in [Actor -> Busy \cup {"idle", "closed"}]
    /\ on \in [Actor -> Wire \cup {None}]
    /\ body \in [Actor -> Short] /\ data \in [Actor -> Text] /\ need \in [Actor -> Nat]

WireTypes ==
    /\ wire \in [Wire -> Text]
    /\ sent \in [Wire -> Seq(Short)] /\ got \in [Wire -> Seq(Text)]
    /\ torn \in [Wire -> BOOLEAN]

Types == ActorTypes /\ WireTypes /\ leg \in [Relays -> 0 .. 4]

\* A program writes on a wire that it is the source of, and reads from one that
\* leads to it.
Ends(x) ==
    /\ doing[x] = "write" => on[x] \in Wire /\ From[on[x]] = x
    /\ doing[x] \in {"head", "body"} =>
          on[x] \in Wire /\ To[on[x]] = x /\ Len(data[x]) <= need[x]
    /\ doing[x] = "head" => need[x] = HeaderBytes
    /\ doing[x] = "body" => need[x] <= Longest + HeaderBytes

\* A relay's leg says what it does.
AtLeg(r) ==
    /\ doing[r] = "idle" => leg[r] = 0
    /\ doing[r] = "write" => leg[r] \in {2, 4} /\ on[r] = Legs[leg[r]]
    /\ doing[r] \in {"head", "body"} => leg[r] \in {1, 3} /\ on[r] = Legs[leg[r]]

\* A program is inside write_frame on a wire, with bytes left, or inside
\* read_frame.
Puts(x, k) == doing[x] = "write" /\ on[x] = k /\ data[x] # <<>>
Reads(x, k) == doing[x] \in {"head", "body"} /\ on[x] = k

\* What a relay has written on the wire out of what it read from the wire in:
\* one frame, the one it read.
Carried(r, i) ==
    LET in == Legs[i - 1]
        out == Legs[i]
    IN  /\ leg[r] < i => got[in] = <<>> /\ sent[out] = <<>>
        /\ leg[r] = i /\ doing[r] = "write" =>
              got[in] = <<body[r]>> /\ (data[r] # <<>> => sent[out] = <<>>)
        /\ sent[out] = <<>> \/ sent[out] = got[in]
        /\ Len(got[in]) <= 1

\* A peer writes messages, a relay one frame on a wire.
Speaks(k) ==
    /\ From[k] \in Peer =>
          /\ sent[k] \in Seq(Bodies)
          /\ doing[From[k]] = "write" /\ on[From[k]] = k => body[From[k]] \in Bodies
    /\ From[k] \in Relays => Len(sent[k]) <= 1

Control ==
    /\ Types
    /\ \A x \in Actor : Ends(x)
    /\ \A r \in Relays : AtLeg(r) /\ Carried(r, 2) /\ Carried(r, 4)
    /\ \A k \in Wire : Speaks(k)

-----------------------------------------------------------------------------
(* What is on a wire.                                                      *)

Prefix(k) ==
    /\ Len(got[k]) <= Len(sent[k])
    /\ \A i \in 1 .. Len(got[k]) : got[k][i] = sent[k][i]

\* The l bytes of w are those of the frames after the n that were read, up to
\* the N that were sent, and of the next.  Frame i has size[i] bytes, bytes[i],
\* and begins at start[i], where the frame before it ends.
Layout(w, l, n, N, bytes, size, start) ==
    /\ n \in Nat /\ N \in Nat /\ l \in Nat /\ n <= N
    /\ start \in [Nat -> Int] /\ size \in [Nat -> Nat \ {0}]
    /\ \A i \in n + 1 .. N : start[i] + size[i] <= start[N + 1]
    /\ \A i, next \in n + 1 .. N + 1 : next = i + 1 => start[next] = start[i] + size[i]
    /\ \A i \in n + 1 .. N + 1 : \A j \in 1 .. size[i] :
          start[i] + j \in 1 .. l => w[start[i] + j] = bytes[i][j]

Bytes(frames) == [i \in Nat |-> Frame(frames[i])]
Sizes(frames) == [i \in Nat |-> Len(Frame(frames[i]))]

\* What is on the wire.  a bytes of the last frame are written; bytes are
\* missing at the end only once the writer has closed its end.
Laid(k, frames, start, a) ==
    LET N == Len(sent[k])
        l == Len(wire[k])
    IN  /\ \A i \in 1 .. N : frames[i] = sent[k][i]
        /\ Layout(wire[k], l, Len(got[k]), N, Bytes(frames), Sizes(frames), start)
        /\ a < Sizes(frames)[N + 1]
        /\ l <= start[N + 1] + a
        /\ ~Closed(From[k]) => l = start[N + 1] + a

\* The writer has the rest of the last frame.
Writer(k, frames, a) ==
    LET x == From[k]
        N == Len(sent[k])
    IN  /\ Puts(x, k) =>
              /\ frames[N + 1] = body[x]
              /\ a + Len(data[x]) = HeaderBytes + Len(body[x])
              /\ \A j \in 1 .. Len(data[x]) : data[x][j] = Frame(body[x])[a + j]
        /\ ~Puts(x, k) => a = 0 \/ Closed(x)
        /\ x \in Relays /\ sent[k] # <<>> => a = 0

\* The reader has the bytes of the first frame that are no longer there.
Reader(k, frames, start) ==
    LET y == To[k]
        n == Len(got[k])
        d == frames[n + 1]
    IN  /\ ~Reads(y, k) => start[n + 1] = 0
        /\ Reads(y, k) /\ doing[y] = "head" =>
              /\ start[n + 1] = - Len(data[y])
              /\ \A j \in 1 .. Len(data[y]) : data[y][j] = Frame(d)[j]
        /\ Reads(y, k) /\ doing[y] = "body" =>
              /\ start[n + 1] = - (HeaderBytes + Len(data[y]))
              /\ need[y] = Len(d)
              /\ \A j \in 1 .. Len(data[y]) : data[y][j] = d[j]

Flows(k, frames, start, a) ==
    Laid(k, frames, start, a) /\ Writer(k, frames, a) /\ Reader(k, frames, start)

Flowing(k) ==
    \E frames \in [Nat -> Short], start \in [Nat -> Int], a \in Nat :
        Flows(k, frames, start, a)

\* A peer refused the one frame that a relay had for it.
Refused(k) ==
    /\ From[k] \in Relays
    /\ sent[k] # <<>> /\ got[k] = <<>> /\ wire[k] = <<>>
    /\ Reads(To[k], k) => doing[To[k]] = "head" /\ data[To[k]] = <<>>

WireInv(k) ==
    ~torn[k] => Prefix(k) /\ (Closed(To[k]) \/ Refused(k) \/ Flowing(k))

\* The inductive invariant.
IInv == Control /\ \A k \in Wire : WireInv(k)
-----------------------------------------------------------------------------
(* The operators.                                                          *)

\* No message is longer than the longest.
LEMMA LongestBounds == Longest \in Nat /\ \A m \in Msg : Size[m] <= Longest
  <1> DEFINE sizes == {Size[m] : m \in Msg}
  <1>1. \E n \in sizes : \A m \in Msg : Size[m] <= n
    BY FramesAssumption
  <1>2. Longest \in sizes /\ \A m \in Msg : Size[m] <= Longest
    BY <1>1 DEF Longest
  <1> QED
    BY <1>2, FramesAssumption

LEMMA NoLength == ASSUME NEW S, NEW s \in Seq(S), Len(s) = 0 PROVE s = <<>>
  OBVIOUS

LEMMA EmptyLength == \A s : s = <<>> => Len(s) = 0
  OBVIOUS

LEMMA OneLength ==
    /\ \A s : s = <<>> => Len(s) <= 1
    /\ \A s, d : s = <<d>> => Len(s) <= 1
  <1>1. \A s, d : s = <<d>> => Len(s) = 1
    OBVIOUS
  <1>2. 0 <= 1 /\ 1 <= 1
    OBVIOUS
  <1> QED
    BY <1>1, <1>2, EmptyLength, Zenon

LEMMA Appended == ASSUME NEW S, NEW s \in Seq(S), NEW d \in S PROVE Append(s, d) \in Seq(S)
  OBVIOUS

LEMMA BodyIsShort == \A m \in Msg : Body(m) \in Short /\ Body(m) \in Bodies
  <1> SUFFICES ASSUME NEW m \in Msg PROVE Body(m) \in Short /\ Body(m) \in Bodies
    OBVIOUS
  <1>1. Size[m] \in Nat /\ Size[m] <= Longest
    BY LongestBounds, FramesAssumption
  <1>2. \A i \in 1 .. Size[m] : <<m, i>> \in Byte
    BY <1>1 DEF Byte
  <1>3. Body(m) \in [1 .. Size[m] -> Byte]
    BY <1>2 DEF Body
  <1>4. Body(m) \in Text /\ Len(Body(m)) = Size[m]
    BY <1>1, <1>3 DEF Text, Body
  <1> QED
    BY <1>1, <1>4, LongestBounds, FramesAssumption DEF Short, Bodies

\* The bytes of a frame: the header's, then the data's.
LEMMA FrameBytes ==
    ASSUME NEW d \in Text
    PROVE  /\ Frame(d) \in Text /\ Len(Frame(d)) = HeaderBytes + Len(d)
           /\ Len(d) \in Nat /\ Len(Frame(d)) \in Nat \ {0}
           /\ \A j \in 1 .. HeaderBytes : Frame(d)[j] = <<Len(d), j>>
           /\ \A j \in 1 .. Len(d) : Frame(d)[HeaderBytes + j] = d[j]
  <1>1. Len(d) \in Nat /\ HeaderBytes \in Nat \ {0}
    BY FramesAssumption DEF Text
  <1> DEFINE h == Header(Len(d))
  <1>2. \A i \in 1 .. HeaderBytes : <<Len(d), i>> \in Byte
    BY <1>1 DEF Byte
  <1>3. h \in [1 .. HeaderBytes -> Byte] /\ \A i \in 1 .. HeaderBytes : h[i] = <<Len(d), i>>
    BY <1>2 DEF Header
  <1>4. h \in Text /\ Len(h) = HeaderBytes
    BY <1>1, <1>3 DEF Text, Header
  <1>5. /\ h \o d \in Text /\ Len(h \o d) = HeaderBytes + Len(d)
        /\ \A j \in 1 .. HeaderBytes : (h \o d)[j] = h[j]
        /\ \A j \in 1 .. Len(d) : (h \o d)[HeaderBytes + j] = d[j]
    <2> HIDE DEF h
    <2> QED
      BY <1>1, <1>4 DEF Text
  <1> QED
    BY <1>1, <1>3, <1>5 DEF Frame

\* A whole header says the length of its frame and nothing else.
LEMMA HeaderSaysLength ==
    ASSUME NEW d \in Short, NEW h \in Text, Len(h) = HeaderBytes,
           \A j \in 1 .. Len(h) : h[j] = Frame(d)[j]
    PROVE  Lengths(h) = {Len(d)}
  <1>1. d \in Text /\ Len(d) \in 0 .. Longest + HeaderBytes
    BY FrameBytes, LongestBounds, FramesAssumption DEF Short
  <1>2. \A i \in 1 .. HeaderBytes : h[i] = <<Len(d), i>>
    BY <1>1, FrameBytes
  <1> DEFINE exact == {n \in 0 .. Longest + HeaderBytes : \A i \in 1 .. HeaderBytes : h[i] = <<n, i>>}
  <1>3. Len(d) \in exact
    BY <1>1, <1>2
  <1>4. 1 \in 1 .. HeaderBytes
    BY FramesAssumption
  <1>5. \A n \in exact : <<n, 1>> = <<Len(d), 1>>
    BY <1>2, <1>4
  <1>6. \A n \in exact : n = Len(d)
    BY <1>5
  <1>7. exact = {Len(d)}
    BY <1>3, <1>6
  <1> QED
    BY <1>7 DEF Lengths

\* Data with the bytes of d is d.
LEMMA SameBytes ==
    ASSUME NEW c \in Text, NEW d \in Text, Len(c) = Len(d),
           \A j \in 1 .. Len(c) : c[j] = d[j]
    PROVE  c = d
  BY DEF Text

\* Lengths that Headed takes are those of short data.
LEMMA LengthsBound ==
    ASSUME NEW h, NEW n \in Lengths(h) \ {Longest + 1}
    PROVE  n \in Nat /\ n <= Longest + HeaderBytes
  <1>1. n \in 0 .. Longest + HeaderBytes \/ n \in 0 .. Longest + 1
    BY DEF Lengths
  <1> QED
    BY <1>1, LongestBounds, FramesAssumption

LEMMA EmptyText == <<>> \in Text /\ <<>> \in Short
  BY LongestBounds, FramesAssumption DEF Text, Short

-----------------------------------------------------------------------------
(* What entering and leaving a word does to the programs.                  *)

OthersSame(x) ==
    \A z \in Actor \ {x} :
        /\ doing'[z] = doing[z] /\ on'[z] = on[z] /\ body'[z] = body[z]
        /\ data'[z] = data[z] /\ need'[z] = need[z]

LEMMA RestSays ==
    ASSUME ActorTypes, NEW x \in Actor, NEW where \in {"idle", "closed"}, Rest(x, where)
    PROVE  /\ ActorTypes' /\ OthersSame(x)
           /\ doing'[x] = where /\ on'[x] = None /\ data'[x] = <<>>
  BY EmptyText DEF ActorTypes, Rest, OthersSame

LEMMA BeginReadSays ==
    ASSUME ActorTypes, NEW x \in Actor, NEW k \in Wire, BeginRead(x, k)
    PROVE  /\ ActorTypes' /\ OthersSame(x)
           /\ doing'[x] = "head" /\ on'[x] = k /\ data'[x] = <<>> /\ need'[x] = HeaderBytes
  BY EmptyText, FramesAssumption DEF ActorTypes, BeginRead, OthersSame, Busy

LEMMA BeginWriteSays ==
    ASSUME ActorTypes, NEW x \in Actor, NEW k \in Wire, NEW d \in Short, BeginWrite(x, k, d)
    PROVE  /\ ActorTypes' /\ OthersSame(x)
           /\ doing'[x] = "write" /\ on'[x] = k /\ data'[x] = Frame(d) /\ body'[x] = d
  <1>1. Frame(d) \in Text
    BY FrameBytes DEF Short
  <1> QED
    BY <1>1 DEF ActorTypes, BeginWrite, OthersSame, Busy, Frame

LEMMA DropSays ==
    ASSUME ActorTypes, WireTypes, NEW x \in Actor, Drop(x)
    PROVE  /\ ActorTypes' /\ OthersSame(x)
           /\ doing'[x] = "closed" /\ on'[x] = None /\ data'[x] = <<>>
           /\ wire' \in [Wire -> Text]
           /\ \A k \in Wire :
                 wire'[k] = wire[k] \/ (wire'[k] = <<>> /\ x \in {From[k], To[k]})
  <1>1. Rest(x, "closed")
    BY DEF Drop
  <1>2. PICK lost \in BOOLEAN : wire' = [k \in Wire |-> Dropped(x, k, lost)]
    BY DEF Drop
  <1>3. \A k \in Wire :
            \/ Dropped(x, k, lost) = wire[k]
            \/ Dropped(x, k, lost) = <<>> /\ x \in {From[k], To[k]}
    <2> TAKE k \in Wire
    <2>1. CASE To[k] = x
      BY <2>1 DEF Dropped
    <2>2. CASE To[k] # x /\ From[k] = x
      <3>1. CASE lost /\ wire[Back(k)] # <<>>
        BY <2>2, <3>1 DEF Dropped
      <3>2. CASE ~(lost /\ wire[Back(k)] # <<>>)
        BY <2>2, <3>2 DEF Dropped
      <3> QED
        BY <3>1, <3>2
    <2>3. CASE To[k] # x /\ From[k] # x
      BY <2>3 DEF Dropped
    <2> QED
      BY <2>1, <2>2, <2>3
  <1>4. wire' \in [Wire -> Text]
    BY <1>2, <1>3, EmptyText DEF WireTypes
  <1> QED
    BY <1>1, <1>2, <1>3, <1>4, RestSays
-----------------------------------------------------------------------------
(* What a step does to one wire.                                           *)

\* The step is not on this wire, as its writer sees it, and as its reader.
WriterSame(k) ==
    LET x == From[k] IN
    \/ doing'[x] = "closed"
    \/ /\ Closed(x) <=> doing'[x] = "closed"
       /\ Puts(x, k) <=> (doing'[x] = "write" /\ on'[x] = k /\ data'[x] # <<>>)
       /\ Puts(x, k) => body'[x] = body[x] /\ data'[x] = data[x]

ReaderSame(k) ==
    LET y == To[k] IN
    \/ doing'[y] = "closed"
    \/ /\ ~Closed(y)
       /\ Reads(y, k) <=> (doing'[y] \in {"head", "body"} /\ on'[y] = k)
       /\ Reads(y, k) => doing'[y] = doing[y] /\ data'[y] = data[y] /\ need'[y] = need[y]

\* Bytes are lost only where an end has closed.
WireSame(k) ==
    \/ wire'[k] = wire[k]
    \/ wire'[k] = <<>> /\ (doing'[From[k]] = "closed" \/ doing'[To[k]] = "closed")

LEMMA LaidSame ==
    ASSUME NEW k \in Wire, Types, NEW frames \in [Nat -> Short], NEW start \in [Nat -> Int],
           NEW a \in Nat, Laid(k, frames, start, a),
           got'[k] = got[k], sent'[k] = sent[k], WireSame(k), WriterSame(k),
           doing'[To[k]] # "closed", start[Len(sent[k]) + 1] + a >= 0
    PROVE  Laid(k, frames, start, a)'
  <1>1. CASE wire'[k] = wire[k]
    BY <1>1 DEF Laid, WriterSame, Closed
  <1>2. CASE wire'[k] = <<>> /\ doing'[From[k]] = "closed"
    <2>1. Len(wire'[k]) = 0
      BY <1>2
    <2>2. ASSUME NEW w, NEW l, NEW n, NEW N, NEW bytes, NEW size,
                 Layout(w, l, n, N, bytes, size, start)
          PROVE  Layout(<<>>, 0, n, N, bytes, size, start)
      <3>1. \A p : p \notin 1 .. 0
        OBVIOUS
      <3> QED
        BY <2>2, <3>1 DEF Layout
    <2> QED
      BY <1>2, <2>1, <2>2 DEF Laid, Closed
  <1> QED
    BY <1>1, <1>2 DEF WireSame

LEMMA Quiet ==
    ASSUME NEW k \in Wire, Types, WireInv(k), torn[k] => torn'[k],
           got'[k] = got[k], sent'[k] = sent[k],
           WireSame(k), WriterSame(k), ReaderSame(k)
    PROVE  WireInv(k)'
  <1> SUFFICES ASSUME ~torn'[k], doing'[To[k]] # "closed"
               PROVE  Prefix(k)' /\ (Refused(k)' \/ Flowing(k)')
    BY DEF WireInv, Prefix, Closed
  <1>1. Prefix(k)'
    BY DEF WireInv, Prefix
  <1>2. CASE Refused(k)
    <2>1. Refused(k)'
      BY <1>2 DEF Refused, WireSame, ReaderSame, Reads
    <2> QED
      BY <1>1, <2>1
  <1>3. CASE Flowing(k)
    <2>1. PICK frames \in [Nat -> Short], start \in [Nat -> Int], a \in Nat :
                Flows(k, frames, start, a)
      BY <1>3 DEF Flowing
    <2>2. Len(wire[k]) \in Nat /\ Len(sent[k]) \in Nat
      BY DEF Types, WireTypes, Text
    <2>3. start[Len(sent[k]) + 1] + a >= 0
      BY <2>1, <2>2 DEF Flows, Laid
    <2>4. Laid(k, frames, start, a)'
      BY <2>1, <2>3, LaidSame DEF Flows
    <2>5. Writer(k, frames, a)'
      BY <2>1 DEF Flows, Writer, WriterSame, Puts, Closed
    <2>6. Reader(k, frames, start)'
      BY <2>1 DEF Flows, Reader, ReaderSame, Reads
    <2> QED
      BY <1>1, <2>4, <2>5, <2>6 DEF Flows, Flowing
  <1>4. ~Closed(To[k])
    BY DEF ReaderSame
  <1> QED
    BY <1>2, <1>3, <1>4 DEF WireInv

LEMMA ShortFrame ==
    ASSUME NEW d \in Short
    PROVE  /\ d \in Text /\ Len(d) \in Nat /\ Len(Frame(d)) \in Nat \ {0}
           /\ Len(Frame(d)) = HeaderBytes + Len(d)
  BY FrameBytes DEF Short

LEMMA SizesNat ==
    ASSUME NEW frames \in [Nat -> Short]
    PROVE  Sizes(frames) \in [Nat -> Nat \ {0}]
  <1>1. \A i \in Nat : frames[i] \in Short
    OBVIOUS
  <1>2. \A i \in Nat : Len(Frame(frames[i])) \in Nat \ {0}
    BY <1>1, ShortFrame
  <1> QED
    BY <1>2 DEF Sizes

LEMMA SizeIs ==
    ASSUME NEW frames \in [Nat -> Short], NEW i \in Nat
    PROVE  Sizes(frames)[i] = HeaderBytes + Len(frames[i]) /\ Bytes(frames)[i] = Frame(frames[i])
  <1>1. frames[i] \in Short
    OBVIOUS
  <1>2. Len(Frame(frames[i])) = HeaderBytes + Len(frames[i])
    BY <1>1, ShortFrame
  <1> QED
    BY <1>2 DEF Sizes, Bytes

LEMMA SameFrames ==
    ASSUME NEW frames \in [Nat -> Short], NEW more \in [Nat -> Short], NEW N \in Nat,
           \A i \in 1 .. N : more[i] = frames[i]
    PROVE  \A i \in 1 .. N : /\ Sizes(more)[i] = Sizes(frames)[i]
                            /\ Bytes(more)[i] = Bytes(frames)[i]
  <1> TAKE i \in 1 .. N
  <1>1. i \in Nat /\ more[i] = frames[i]
    OBVIOUS
  <1> QED
    BY <1>1 DEF Sizes, Bytes

\* The facts about a flowing wire that its steps use.
LEMMA FlowFacts ==
    ASSUME NEW k \in Wire, Types, NEW frames \in [Nat -> Short], NEW start \in [Nat -> Int],
           NEW a \in Nat, Laid(k, frames, start, a), Prefix(k)
    PROVE  /\ Len(got[k]) \in Nat /\ Len(sent[k]) \in Nat /\ Len(wire[k]) \in Nat
           /\ Len(got[k]) <= Len(sent[k])
           /\ start[Len(sent[k]) + 1] + a >= 0
  <1>1. Len(got[k]) \in Nat /\ Len(sent[k]) \in Nat /\ Len(wire[k]) \in Nat
    BY DEF Types, WireTypes, Text
  <1>2. start[Len(sent[k]) + 1] + a >= 0
    BY <1>1 DEF Laid
  <1> QED
    BY <1>1, <1>2 DEF Prefix

-----------------------------------------------------------------------------
(* Frames laid out on a wire, apart from the program.                      *)

\* While nothing of the next frame is written, it may be any.
Alike(N, bytes, size, bytes2, size2) ==
    /\ size2 \in [Nat -> Nat \ {0}]
    /\ \A i \in 1 .. N : size2[i] = size[i] /\ bytes2[i] = bytes[i]

LEMMA AnotherNext ==
    ASSUME NEW w, NEW l, NEW n, NEW N, NEW bytes, NEW size, NEW start,
           Layout(w, l, n, N, bytes, size, start), l = start[N + 1],
           NEW bytes2, NEW size2, Alike(N, bytes, size, bytes2, size2)
    PROVE  Layout(w, l, n, N, bytes2, size2, start)
  <1>1. /\ n \in Nat /\ N \in Nat /\ l \in Nat /\ n <= N
        /\ start \in [Nat -> Int] /\ size2 \in [Nat -> Nat \ {0}]
    BY DEF Layout, Alike
  <1>2. \A i \in n + 1 .. N : size2[i] = size[i] /\ bytes2[i] = bytes[i]
    BY <1>1 DEF Alike
  <1>3. \A i \in n + 1 .. N : start[i] + size2[i] <= start[N + 1]
    BY <1>2 DEF Layout
  <1>4. ASSUME NEW i \in n + 1 .. N + 1, NEW next \in n + 1 .. N + 1, next = i + 1
        PROVE  start[next] = start[i] + size2[i]
    <2>1. i \in n + 1 .. N
      BY <1>1, <1>4
    <2> QED
      BY <1>2, <1>4, <2>1 DEF Layout
  <1>5. ASSUME NEW i \in n + 1 .. N + 1, NEW j \in 1 .. size2[i], start[i] + j \in 1 .. l
        PROVE  w[start[i] + j] = bytes2[i][j]
    <2>1. i \in n + 1 .. N
      BY <1>1, <1>5
    <2> QED
      BY <1>2, <1>5, <2>1 DEF Layout
  <1> QED
    BY <1>1, <1>3, <1>4, <1>5 DEF Layout

\* One more byte at the end: a bytes of the frame are there, rest come after it.
Grown(w, l, new, byte) == new[l + 1] = byte /\ \A p \in 1 .. l : new[p] = w[p]

EndsAt(l, N, size, start, a, rest) ==
    /\ a \in Nat /\ rest \in Nat
    /\ l = start[N + 1] + a /\ a + (rest + 1) = size[N + 1]

LEMMA OneMoreByte ==
    ASSUME NEW w, NEW l, NEW n, NEW N, NEW bytes, NEW size, NEW start, NEW a, NEW rest, NEW new,
           Layout(w, l, n, N, bytes, size, start), EndsAt(l, N, size, start, a, rest),
           Grown(w, l, new, bytes[N + 1][a + 1])
    PROVE  Layout(new, l + 1, n, N, bytes, size, start)
  <1>1. /\ n \in Nat /\ N \in Nat /\ l \in Nat /\ n <= N
        /\ start \in [Nat -> Int] /\ size \in [Nat -> Nat \ {0}]
    BY DEF Layout
  <1>2. a \in Nat /\ l = start[N + 1] + a
    BY DEF EndsAt
  <1>3. ASSUME NEW i \in n + 1 .. N + 1, NEW j \in 1 .. size[i], start[i] + j \in 1 .. l + 1
        PROVE  new[start[i] + j] = bytes[i][j]
    <2>1. CASE start[i] + j # l + 1
      <3>1. start[i] + j \in 1 .. l
        BY <1>1, <1>3, <2>1
      <3> QED
        BY <3>1 DEF Layout, Grown
    <2>2. CASE start[i] + j = l + 1 /\ i = N + 1
      <3>1. j = a + 1
        BY <1>1, <1>2, <2>2
      <3> QED
        BY <2>2, <3>1 DEF Grown
    <2>3. CASE start[i] + j = l + 1 /\ i # N + 1
      <3>1. i \in n + 1 .. N
        BY <1>1, <2>3
      <3>2. start[i] + size[i] <= start[N + 1]
        BY <3>1 DEF Layout
      <3> QED
        BY <1>1, <1>2, <2>3, <3>2
    <2> QED
      BY <2>1, <2>2, <2>3
  <1>4. l + 1 \in Nat
    BY <1>1
  <1> QED
    BY <1>1, <1>3, <1>4 DEF Layout

\* The next frame begins where the last one ends.
LEMMA OneMoreFrame ==
    ASSUME NEW w, NEW l, NEW n, NEW N, NEW bytes, NEW size, NEW start,
           Layout(w, l, n, N, bytes, size, start), l = start[N + 1] + size[N + 1]
    PROVE  \E moved \in [Nat -> Int] :
               /\ moved[N + 2] = l /\ moved[n + 1] = start[n + 1]
               /\ Layout(w, l, n, N + 1, bytes, size, moved)
  <1>1. /\ n \in Nat /\ N \in Nat /\ l \in Nat /\ n <= N /\ n <= N + 1
        /\ start \in [Nat -> Int] /\ size \in [Nat -> Nat \ {0}]
    BY DEF Layout
  <1> DEFINE f == [i \in Nat |-> IF i = N + 2 THEN l ELSE start[i]]
  <1>2. f \in [Nat -> Int] /\ f[N + 2] = l /\ \A i \in n + 1 .. N + 1 : f[i] = start[i]
    BY <1>1
  <1>3. PICK moved \in [Nat -> Int] :
              moved[N + 2] = l /\ \A i \in n + 1 .. N + 1 : moved[i] = start[i]
    <2> HIDE DEF f
    <2> QED
      BY <1>2
  <1>4. ASSUME NEW i \in n + 1 .. N + 1 PROVE moved[i] + size[i] <= moved[N + 2]
    <2>1. CASE i = N + 1
      BY <1>1, <1>3, <2>1
    <2>2. CASE i # N + 1
      <3>1. i \in n + 1 .. N
        BY <1>1, <2>2
      <3>2. start[i] + size[i] <= start[N + 1]
        BY <3>1 DEF Layout
      <3> QED
        BY <1>1, <1>3, <3>2
    <2> QED
      BY <2>1, <2>2
  <1>5. ASSUME NEW i \in n + 1 .. N + 2, NEW next \in n + 1 .. N + 2, next = i + 1
        PROVE  moved[next] = moved[i] + size[i]
    <2>1. CASE next = N + 2
      BY <1>1, <1>3, <1>5, <2>1
    <2>2. CASE next # N + 2
      <3>1. i \in n + 1 .. N + 1 /\ next \in n + 1 .. N + 1
        BY <1>1, <1>5, <2>2
      <3>2. start[next] = start[i] + size[i]
        BY <1>5, <3>1 DEF Layout
      <3> QED
        BY <1>3, <3>1, <3>2
    <2> QED
      BY <2>1, <2>2
  <1>6. ASSUME NEW i \in n + 1 .. N + 2, NEW j \in 1 .. size[i], moved[i] + j \in 1 .. l
        PROVE  w[moved[i] + j] = bytes[i][j]
    <2>1. i \in n + 1 .. N + 1
      BY <1>1, <1>3, <1>6
    <2>2. moved[i] = start[i]
      BY <1>3, <2>1
    <2> QED
      BY <1>6, <2>1, <2>2 DEF Layout
  <1>7. (N + 1) + 1 = N + 2 /\ N + 1 \in Nat
    BY <1>1
  <1>8. Layout(w, l, n, N + 1, bytes, size, moved)
    BY <1>1, <1>4, <1>5, <1>6, <1>7 DEF Layout
  <1>9. moved[n + 1] = start[n + 1]
    BY <1>1, <1>3
  <1> QED
    BY <1>3, <1>8, <1>9

\* The byte is the last of its frame or it is not.
Longer(new, l, n, N, bytes, size, start, a) ==
    /\ Layout(new, l + 1, n, N, bytes, size, start)
    /\ a + 1 < size[N + 1] /\ l + 1 = start[N + 1] + (a + 1)
    /\ l + 1 <= start[N + 1] + (a + 1)

Lays(w, l, n, N, bytes, size, start, a, rest, new) ==
    /\ Layout(w, l, n, N, bytes, size, start) /\ EndsAt(l, N, size, start, a, rest)
    /\ Grown(w, l, new, bytes[N + 1][a + 1])

LEMMA LayByte ==
    ASSUME NEW w, NEW l, NEW n, NEW N, NEW bytes, NEW size, NEW start, NEW a, NEW rest, NEW new,
           Lays(w, l, n, N, bytes, size, start, a, rest, new)
    PROVE  /\ rest # 0 => Longer(new, l, n, N, bytes, size, start, a)
           /\ rest = 0 => \E moved \in [Nat -> Int] :
                  /\ moved[n + 1] = start[n + 1]
                  /\ Layout(new, l + 1, n, N + 1, bytes, size, moved)
                  /\ 0 < size[(N + 1) + 1] /\ l + 1 = moved[(N + 1) + 1] + 0
                  /\ l + 1 <= moved[(N + 1) + 1] + 0
  <1>1. Layout(new, l + 1, n, N, bytes, size, start)
    BY OneMoreByte DEF Lays
  <1>2. /\ N \in Nat /\ l \in Nat /\ start \in [Nat -> Int] /\ size \in [Nat -> Nat \ {0}]
        /\ a \in Nat /\ rest \in Nat /\ l = start[N + 1] + a /\ a + (rest + 1) = size[N + 1]
    BY DEF Layout, EndsAt, Lays
  <1>3. ASSUME rest # 0
        PROVE  /\ a + 1 < size[N + 1] /\ l + 1 = start[N + 1] + (a + 1)
               /\ l + 1 <= start[N + 1] + (a + 1)
    BY <1>2, <1>3
  <1>4. ASSUME rest = 0
        PROVE  \E moved \in [Nat -> Int] :
                  /\ moved[n + 1] = start[n + 1]
                  /\ Layout(new, l + 1, n, N + 1, bytes, size, moved)
                  /\ 0 < size[(N + 1) + 1] /\ l + 1 = moved[(N + 1) + 1] + 0
                  /\ l + 1 <= moved[(N + 1) + 1] + 0
    <2>1. l + 1 = start[N + 1] + size[N + 1]
      BY <1>2, <1>4
    <2>2. PICK moved \in [Nat -> Int] :
                /\ moved[N + 2] = l + 1 /\ moved[n + 1] = start[n + 1]
                /\ Layout(new, l + 1, n, N + 1, bytes, size, moved)
      BY <1>1, <2>1, OneMoreFrame, ZenonT(30)
    <2>3. (N + 1) + 1 = N + 2 /\ l + 1 = moved[N + 2] + 0 /\ 0 < size[N + 2]
      BY <1>2, <2>2
    <2>4. l + 1 <= moved[N + 2] + 0
      BY <1>2, <2>2
    <2> QED
      BY <2>2, <2>3, <2>4
  <1> QED
    BY <1>1, <1>3, <1>4 DEF Longer

\* One byte less at the beginning.
Shifted(w, l, new) == \A p \in 1 .. l - 1 : new[p] = w[p + 1]

LEMMA OneByteLess ==
    ASSUME NEW w, NEW l, NEW n, NEW N, NEW bytes, NEW size, NEW start, NEW new,
           Layout(w, l, n, N, bytes, size, start), l # 0, Shifted(w, l, new)
    PROVE  \E moved \in [Nat -> Int] :
               /\ moved[n + 1] = start[n + 1] - 1 /\ moved[N + 1] = start[N + 1] - 1
               /\ Layout(new, l - 1, n, N, bytes, size, moved)
  <1>1. /\ n \in Nat /\ N \in Nat /\ l \in Nat /\ n <= N /\ l - 1 \in Nat
        /\ start \in [Nat -> Int] /\ size \in [Nat -> Nat \ {0}]
    BY DEF Layout
  <1> DEFINE f == [i \in Nat |-> start[i] - 1]
  <1>2. f \in [Nat -> Int] /\ \A i \in n + 1 .. N + 1 : f[i] = start[i] - 1
    BY <1>1
  <1>3. PICK moved \in [Nat -> Int] : \A i \in n + 1 .. N + 1 : moved[i] = start[i] - 1
    <2> HIDE DEF f
    <2> QED
      BY <1>2
  <1>4. ASSUME NEW i \in n + 1 .. N PROVE moved[i] + size[i] <= moved[N + 1]
    <2>1. start[i] + size[i] <= start[N + 1]
      BY DEF Layout
    <2> QED
      BY <1>1, <1>3, <2>1
  <1>5. ASSUME NEW i \in n + 1 .. N + 1, NEW next \in n + 1 .. N + 1, next = i + 1
        PROVE  moved[next] = moved[i] + size[i]
    <2>1. start[next] = start[i] + size[i]
      BY <1>5 DEF Layout
    <2> QED
      BY <1>1, <1>3, <2>1
  <1>6. ASSUME NEW i \in n + 1 .. N + 1, NEW j \in 1 .. size[i], moved[i] + j \in 1 .. l - 1
        PROVE  new[moved[i] + j] = bytes[i][j]
    <2>1. start[i] + j = (moved[i] + j) + 1 /\ start[i] + j \in 1 .. l
      BY <1>1, <1>3, <1>6
    <2>2. w[start[i] + j] = bytes[i][j]
      BY <2>1 DEF Layout
    <2> QED
      BY <1>6, <2>1, <2>2 DEF Shifted
  <1>7. Layout(new, l - 1, n, N, bytes, size, moved)
    BY <1>1, <1>4, <1>5, <1>6 DEF Layout
  <1>8. moved[n + 1] = start[n + 1] - 1 /\ moved[N + 1] = start[N + 1] - 1
    BY <1>1, <1>3
  <1> QED
    BY <1>7, <1>8

\* One frame less at the beginning.
LEMMA OneFrameLess ==
    ASSUME NEW w, NEW l, NEW n, NEW N, NEW bytes, NEW size, NEW start,
           Layout(w, l, n, N, bytes, size, start), n # N
    PROVE  /\ start[(n + 1) + 1] = start[n + 1] + size[n + 1]
           /\ Layout(w, l, n + 1, N, bytes, size, start)
  <1>1. /\ n \in Nat /\ N \in Nat /\ l \in Nat /\ n + 1 \in Nat /\ n + 1 <= N
        /\ start \in [Nat -> Int] /\ size \in [Nat -> Nat \ {0}]
    BY DEF Layout
  <1>2. \A i \in (n + 1) + 1 .. N + 1 : i \in n + 1 .. N + 1
    BY <1>1
  <1>3. \A i \in (n + 1) + 1 .. N : i \in n + 1 .. N
    BY <1>1
  <1>4. n + 1 \in n + 1 .. N + 1 /\ (n + 1) + 1 \in n + 1 .. N + 1
    BY <1>1
  <1>5. start[(n + 1) + 1] = start[n + 1] + size[n + 1]
    BY <1>4 DEF Layout
  <1>6. Layout(w, l, n + 1, N, bytes, size, start)
    BY <1>1, <1>2, <1>3 DEF Layout
  <1> QED
    BY <1>5, <1>6

-----------------------------------------------------------------------------
(* The words, on the wire they use.                                        *)

\* A step of the reader alone.
LEMMA ReaderSteps ==
    ASSUME NEW k \in Wire, Types, WireInv(k), torn[k] => torn'[k],
           got'[k] = got[k], sent'[k] = sent[k], wire'[k] = wire[k], WriterSame(k),
           ~Closed(To[k]), doing'[To[k]] # "closed",
           Refused(k) => Refused(k)',
           \A frames \in [Nat -> Short], start \in [Nat -> Int] :
               Reader(k, frames, start) => Reader(k, frames, start)'
    PROVE  WireInv(k)'
  <1> SUFFICES ASSUME ~torn'[k] PROVE Prefix(k)' /\ (Refused(k)' \/ Flowing(k)')
    BY DEF WireInv
  <1>1. Prefix(k) /\ Prefix(k)'
    BY DEF WireInv, Prefix
  <1>2. CASE Flowing(k)
    <2>1. PICK frames \in [Nat -> Short], start \in [Nat -> Int], a \in Nat :
                Flows(k, frames, start, a)
      BY <1>2 DEF Flowing
    <2>2. start[Len(sent[k]) + 1] + a >= 0
      BY <1>1, <2>1, FlowFacts DEF Flows
    <2>3. Laid(k, frames, start, a)'
      BY <2>1, <2>2, LaidSame DEF Flows, WireSame
    <2>4. Writer(k, frames, a)'
      BY <2>1 DEF Flows, Writer, WriterSame, Puts, Closed
    <2>5. Reader(k, frames, start)'
      BY <2>1 DEF Flows
    <2> QED
      BY <1>1, <2>3, <2>4, <2>5 DEF Flows, Flowing
  <1> QED
    BY <1>1, <1>2 DEF WireInv

\* read_frame begins, and ends when nothing came.
LEMMA BeginReadOn ==
    ASSUME NEW k \in Wire, Types, WireInv(k), torn'[k] = torn[k],
           got'[k] = got[k], sent'[k] = sent[k], wire'[k] = wire[k], WriterSame(k),
           ~Closed(To[k]), ~Reads(To[k], k),
           doing'[To[k]] = "head", on'[To[k]] = k, data'[To[k]] = <<>>
    PROVE  WireInv(k)'
  <1>1. Refused(k) => Refused(k)'
    BY DEF Refused
  <1>2. ASSUME NEW frames \in [Nat -> Short], NEW start \in [Nat -> Int], Reader(k, frames, start)
        PROVE  Reader(k, frames, start)'
    BY <1>2 DEF Reader, Reads
  <1> QED
    BY <1>1, <1>2, ReaderSteps

LEMMA StopReadOn ==
    ASSUME NEW k \in Wire, Types, WireInv(k), torn[k] => torn'[k],
           got'[k] = got[k], sent'[k] = sent[k], wire'[k] = wire[k], WriterSame(k),
           Reads(To[k], k), doing[To[k]] = "head", data[To[k]] = <<>>,
           doing'[To[k]] = "idle"
    PROVE  WireInv(k)'
  <1>1. Refused(k) => Refused(k)'
    BY DEF Refused, Reads
  <1>2. ASSUME NEW frames \in [Nat -> Short], NEW start \in [Nat -> Int], Reader(k, frames, start)
        PROVE  Reader(k, frames, start)'
    BY <1>2 DEF Reader, Reads
  <1>3. ~Closed(To[k])
    BY DEF Closed
  <1> QED
    BY <1>1, <1>2, <1>3, ReaderSteps

\* The header is read: the length is that of the frame.
LEMMA HeadedOn ==
    ASSUME NEW k \in Wire, Types, WireInv(k), torn'[k] = torn[k],
           got'[k] = got[k], sent'[k] = sent[k], wire'[k] = wire[k], WriterSame(k),
           To[k] \in Actor, Reads(To[k], k), doing[To[k]] = "head",
           Len(data[To[k]]) = HeaderBytes,
           need'[To[k]] \in Lengths(data[To[k]]),
           doing'[To[k]] = "body", on'[To[k]] = k, data'[To[k]] = <<>>
    PROVE  WireInv(k)'
  <1> DEFINE y == To[k]
  <1>1. data[y] \in Text /\ data[y] # <<>>
    BY FramesAssumption DEF Types, ActorTypes
  <1>2. Refused(k) => Refused(k)'
    BY <1>1 DEF Refused
  <1>3. ASSUME NEW frames \in [Nat -> Short], NEW start \in [Nat -> Int], Reader(k, frames, start)
        PROVE  Reader(k, frames, start)'
    <2> DEFINE d == frames[Len(got[k]) + 1]
    <2>1. Len(got[k]) + 1 \in Nat
      BY DEF Types, WireTypes
    <2>2. d \in Short
      BY <2>1
    <2>3. /\ start[Len(got[k]) + 1] = - HeaderBytes
          /\ \A j \in 1 .. Len(data[y]) : data[y][j] = Frame(d)[j]
      BY <1>3 DEF Reader
    <2>4. Lengths(data[y]) = {Len(d)}
      <3> HIDE DEF d
      <3> QED
        BY <1>1, <2>2, <2>3, HeaderSaysLength
    <2>5. need'[y] = Len(d)
      BY <2>4
    <2> QED
      BY <2>3, <2>5, FramesAssumption DEF Reader, Reads
  <1>4. ~Closed(To[k])
    BY DEF Closed
  <1> QED
    BY <1>2, <1>3, <1>4, ReaderSteps

\* write_frame fails before its first byte.
LEMMA StopWriteOn ==
    ASSUME NEW k \in Wire, Types, WireInv(k), torn[k] => torn'[k],
           got'[k] = got[k], sent'[k] = sent[k], wire'[k] = wire[k], ReaderSame(k),
           From[k] \in Actor, Puts(From[k], k),
           ~(Len(data[From[k]]) < HeaderBytes + Len(body[From[k]])),
           doing'[From[k]] = "idle"
    PROVE  WireInv(k)'
  <1> SUFFICES ASSUME ~torn'[k], doing'[To[k]] # "closed"
               PROVE  Prefix(k)' /\ (Refused(k)' \/ Flowing(k)')
    BY DEF WireInv, Prefix, Closed
  <1>1. Prefix(k) /\ Prefix(k)'
    BY DEF WireInv, Prefix
  <1>2. CASE Refused(k)
    BY <1>1, <1>2 DEF Refused, ReaderSame, Reads
  <1>3. CASE Flowing(k)
    <2>1. PICK frames \in [Nat -> Short], start \in [Nat -> Int], a \in Nat :
                Flows(k, frames, start, a)
      BY <1>3 DEF Flowing
    <2>2. body[From[k]] \in Short /\ data[From[k]] \in Text
      BY DEF Types, ActorTypes
    <2>3. Len(data[From[k]]) \in Nat /\ Len(body[From[k]]) \in Nat
      <3>1. Len(data[From[k]]) \in Nat
        BY <2>2 DEF Text
      <3> QED
        BY <2>2, <3>1, ShortFrame
    <2>4. a + Len(data[From[k]]) = HeaderBytes + Len(body[From[k]])
      BY <2>1 DEF Flows, Writer
    <2>5. a = 0
      BY <2>3, <2>4, FramesAssumption
    <2>6. Laid(k, frames, start, a)'
      BY <2>1 DEF Flows, Laid, Closed, Puts
    <2>7. Writer(k, frames, a)'
      BY <2>5 DEF Writer, Puts
    <2>8. Reader(k, frames, start)'
      BY <2>1 DEF Flows, Reader, ReaderSame, Reads
    <2> QED
      BY <1>1, <2>6, <2>7, <2>8 DEF Flows, Flowing
  <1>4. ~Closed(To[k])
    BY DEF ReaderSame
  <1> QED
    BY <1>2, <1>3, <1>4 DEF WireInv

\* write_frame begins: the data is the next frame.
LEMMA BeginWriteOn ==
    ASSUME NEW k \in Wire, Types, WireInv(k), NEW d \in Short,
           torn'[k] = torn[k], wire'[k] = wire[k], got'[k] = got[k], sent'[k] = sent[k],
           From[k] \in Relays => sent[k] = <<>>,
           ~Puts(From[k], k), ~Closed(From[k]), To[k] \in Actor, ReaderSame(k),
           doing'[From[k]] = "write", on'[From[k]] = k,
           body'[From[k]] = d, data'[From[k]] = Frame(d)
    PROVE  WireInv(k)'
  <1> SUFFICES ASSUME ~torn'[k], doing'[To[k]] # "closed"
               PROVE  Prefix(k)' /\ Flowing(k)'
    BY DEF WireInv, Prefix, Closed
  <1>1. Prefix(k)' /\ Prefix(k)
    BY DEF WireInv, Prefix
  <1>2. Flowing(k)
    BY DEF WireInv, Refused, ReaderSame
  <1>3. PICK frames \in [Nat -> Short], start \in [Nat -> Int], a \in Nat :
              Flows(k, frames, start, a)
    BY <1>2 DEF Flowing
  <1>4. PICK n \in Nat, N \in Nat, l \in Nat :
              n = Len(got[k]) /\ N = Len(sent[k]) /\ l = Len(wire[k]) /\ n <= N
    BY <1>1, <1>3, FlowFacts DEF Flows
  <1>5. a = 0 /\ l = start[N + 1]
    <2>1. a = 0
      BY <1>3 DEF Flows, Writer
    <2>2. l = start[N + 1] + a /\ start[N + 1] \in Int
      BY <1>3, <1>4 DEF Flows, Laid
    <2> QED
      BY <2>1, <2>2
  <1>6. PICK more \in [Nat -> Short] :
              more[N + 1] = d /\ \A i \in 1 .. N : more[i] = frames[i]
    <2> DEFINE f == [i \in Nat |-> IF i = N + 1 THEN d ELSE frames[i]]
    <2>1. f \in [Nat -> Short] /\ f[N + 1] = d /\ \A i \in 1 .. N : f[i] = frames[i]
      OBVIOUS
    <2> HIDE DEF f
    <2> QED
      BY <2>1
  <1>7. Alike(N, Bytes(frames), Sizes(frames), Bytes(more), Sizes(more))
    <2>1. Sizes(more) \in [Nat -> Nat \ {0}]
      BY SizesNat
    <2> QED
      BY <1>6, <2>1, SameFrames DEF Alike
  <1>8. Layout(wire[k], l, n, N, Bytes(frames), Sizes(frames), start)
    BY <1>3, <1>4 DEF Flows, Laid
  <1>9. Layout(wire[k], l, n, N, Bytes(more), Sizes(more), start)
    BY <1>5, <1>7, <1>8, AnotherNext
  <1>10. Laid(k, more, start, 0)'
    <2>1. \A i \in 1 .. N : more[i] = sent[k][i]
      BY <1>3, <1>4, <1>6 DEF Flows, Laid
    <2>2. 0 < Sizes(more)[N + 1]
      <3>1. Sizes(more) \in [Nat -> Nat \ {0}]
        BY SizesNat
      <3> QED
        BY <3>1
    <2>3. l = start[N + 1] + 0 /\ l <= start[N + 1] + 0
      BY <1>5
    <2> QED
      BY <1>4, <1>9, <2>1, <2>2, <2>3 DEF Laid
  <1>11. Writer(k, more, 0)'
    <2>1. Len(Frame(d)) = HeaderBytes + Len(d) /\ Len(Frame(d)) \in Nat
      BY ShortFrame
    <2>2. \A j \in 1 .. Len(Frame(d)) : Frame(d)[j] = Frame(d)[0 + j]
      BY <2>1
    <2>3. 0 + Len(Frame(d)) = HeaderBytes + Len(d)
      BY <2>1
    <2> QED
      BY <1>4, <1>6, <2>2, <2>3 DEF Writer, Puts
  <1>12. Reader(k, more, start)'
    <2>1. CASE n < N
      <3>1. n + 1 \in 1 .. N
        BY <2>1
      <3>2. more[n + 1] = frames[n + 1]
        BY <1>6, <3>1
      <3> QED
        BY <1>3, <1>4, <3>2, ZenonT(60) DEF Flows, Reader, ReaderSame, Reads
    <2>2. CASE n = N
      <3>1. start[n + 1] \in Nat
        BY <1>5, <2>2
      <3>2. CASE ~Reads(To[k], k)
        BY <1>3, <3>2 DEF Flows, Reader, ReaderSame, Reads
      <3>3. CASE Reads(To[k], k)
        <4>1. Len(data[To[k]]) \in Nat
          BY DEF Types, ActorTypes, Text
        <4>2. PICK m \in Nat : m = Len(data[To[k]])
          BY <4>1
        <4>3. \/ doing[To[k]] = "head" /\ start[n + 1] = - m
              \/ start[n + 1] = - (HeaderBytes + m)
          BY <1>3, <1>4, <3>3, <4>2 DEF Flows, Reader, Reads
        <4>4. HeaderBytes \in Nat /\ HeaderBytes > 0
          BY FramesAssumption
        <4>5. start[n + 1] # - (HeaderBytes + m)
          BY <3>1, <4>4
        <4>6. doing[To[k]] = "head" /\ start[n + 1] = - m
          BY <4>3, <4>5
        <4>7. m = 0
          BY <3>1, <4>6
        <4>8. \A j : j \notin 1 .. m
          BY <4>7
        <4> QED
          BY <1>4, <3>3, <4>2, <4>6, <4>8 DEF Reader, ReaderSame, Reads
      <3> QED
        BY <3>2, <3>3
    <2>3. n <= N
      BY <1>4
    <2> QED
      BY <2>1, <2>2, <2>3
  <1>13. Flows(k, more, start, 0)'
    BY <1>10, <1>11, <1>12 DEF Flows
  <1> QED
    BY <1>1, <1>13 DEF Flowing

\* One more byte: what it does to the wire, to what is left to write, and to
\* what was sent.
PutsByte(k, l, rest, N) ==
    LET x == From[k] IN
    /\ l = Len(wire[k]) /\ rest + 1 = Len(data[x]) /\ N = Len(sent[k])
    /\ Len(wire'[k]) = l + 1 /\ Grown(wire[k], l, wire'[k], data[x][1])
    /\ Len(data'[x]) = rest /\ (data'[x] = <<>> <=> rest = 0)
    /\ \A j \in 1 .. rest : data'[x][j] = data[x][j + 1]
    /\ rest # 0 => sent'[k] = sent[k]
    /\ rest = 0 => /\ Len(sent'[k]) = N + 1 /\ sent'[k][N + 1] = body[x]
                   /\ \A i \in 1 .. N : sent'[k][i] = sent[k][i]

LEMMA NextByte ==
    ASSUME NEW a \in Nat, NEW b \in Nat, NEW j \in 1 .. b
    PROVE  a + (j + 1) = (a + 1) + j
  OBVIOUS

LEMMA LastOrBefore ==
    ASSUME NEW N \in Nat, NEW i \in 1 .. N + 1
    PROVE  i = N + 1 \/ i \in 1 .. N
  OBVIOUS

LEMMA PutOn ==
    ASSUME NEW k \in Wire, Types, WireInv(k), torn'[k] = torn[k], got'[k] = got[k],
           From[k] \in Actor, Puts(From[k], k), From[k] \in Relays => sent[k] = <<>>,
           body'[From[k]] = body[From[k]], doing'[From[k]] = "write", on'[From[k]] = k,
           ReaderSame(k), ~Closed(To[k]), NEW l \in Nat, NEW rest \in Nat, NEW N \in Nat,
           PutsByte(k, l, rest, N)
    PROVE  WireInv(k)'
  <1> DEFINE x == From[k]
  <1> SUFFICES ASSUME ~torn'[k] PROVE Prefix(k)' /\ (doing'[To[k]] # "closed" => Flowing(k)')
    BY DEF WireInv, Closed
  <1>1. PICK n \in Nat : n = Len(got[k]) /\ n <= N
    BY DEF WireInv, Prefix, Types, WireTypes, PutsByte
  <1>2. n <= N /\ n <= N + 1 /\ \A i \in 1 .. n : i \in 1 .. N
    <2>1. n <= N
      BY <1>1
    <2> QED
      BY <2>1
  <1>3. Prefix(k)'
    <2>1. \A i \in 1 .. n : got[k][i] = sent[k][i]
      BY <1>1 DEF WireInv, Prefix
    <2>2. CASE rest # 0
      <3>1. sent'[k] = sent[k]
        BY <2>2 DEF PutsByte
      <3> QED
        BY <3>1 DEF WireInv, Prefix
    <2>3. CASE rest = 0
      <3>1. Len(sent'[k]) = N + 1 /\ \A i \in 1 .. N : sent'[k][i] = sent[k][i]
        BY <2>3 DEF PutsByte
      <3>2. \A i \in 1 .. n : got'[k][i] = sent'[k][i]
        BY <1>2, <2>1, <3>1
      <3>3. Len(got'[k]) = n /\ n <= Len(sent'[k])
        BY <1>1, <1>2, <3>1
      <3> QED
        BY <3>2, <3>3 DEF Prefix
    <2> QED
      BY <2>2, <2>3
  <1> SUFFICES ASSUME doing'[To[k]] # "closed" PROVE Flowing(k)'
    BY <1>3
  <1>4. Flowing(k)
    BY DEF WireInv, Refused
  <1>5. PICK frames \in [Nat -> Short], start \in [Nat -> Int], a \in Nat :
              Flows(k, frames, start, a)
    BY <1>4 DEF Flowing
  <1>6. PICK size, bytes : size = Sizes(frames) /\ bytes = Bytes(frames)
    OBVIOUS
  <1>7. /\ frames[N + 1] = body[x] /\ a + (rest + 1) = HeaderBytes + Len(body[x])
        /\ \A j \in 1 .. rest + 1 : data[x][j] = Frame(body[x])[a + j]
    BY <1>5 DEF Flows, Writer, PutsByte
  <1>8. bytes[N + 1] = Frame(body[x]) /\ EndsAt(l, N, size, start, a, rest)
    <2>1. Sizes(frames)[N + 1] = HeaderBytes + Len(frames[N + 1])
          /\ Bytes(frames)[N + 1] = Frame(frames[N + 1])
      <3>1. PICK i \in Nat : i = N + 1
        OBVIOUS
      <3> QED
        BY <3>1, SizeIs
    <2>2. l = start[N + 1] + a
      BY <1>5 DEF Flows, Laid, Closed, Puts, PutsByte
    <2>3. size[N + 1] = HeaderBytes + Len(frames[N + 1]) /\ bytes[N + 1] = Frame(frames[N + 1])
      BY <1>6, <2>1
    <2>4. size[N + 1] = a + (rest + 1) /\ bytes[N + 1] = Frame(body[x])
      BY <1>7, <2>3
    <2> QED
      BY <2>2, <2>4 DEF EndsAt
  <1>9. /\ \A i \in 1 .. N : frames[i] = sent[k][i]
        /\ Layout(wire[k], l, n, N, bytes, size, start)
    BY <1>1, <1>5, <1>6 DEF Flows, Laid, PutsByte
  <1>10. Grown(wire[k], l, wire'[k], bytes[N + 1][a + 1])
    <2>1. 1 \in 1 .. rest + 1
      OBVIOUS
    <2>2. data[x][1] = Frame(body[x])[a + 1]
      BY <1>7, <2>1
    <2> QED
      BY <1>8, <2>2 DEF PutsByte
  <1>11. Lays(wire[k], l, n, N, bytes, size, start, a, rest, wire'[k])
    BY <1>8, <1>9, <1>10 DEF Lays
  <1>12. CASE rest # 0
    <2>1. /\ Layout(wire'[k], l + 1, n, N, bytes, size, start)
          /\ a + 1 < size[N + 1] /\ l + 1 = start[N + 1] + (a + 1)
          /\ l + 1 <= start[N + 1] + (a + 1)
      <3>1. Longer(wire'[k], l, n, N, bytes, size, start, a)
        BY <1>12, <1>11, LayByte
      <3> QED
        BY <3>1 DEF Longer
    <2>2. sent'[k] = sent[k] /\ Len(sent[k]) = N /\ Len(wire'[k]) = l + 1
      BY <1>12 DEF PutsByte
    <2>3. Laid(k, frames, start, a + 1)'
      BY <1>1, <1>6, <1>9, <2>1, <2>2 DEF Laid
    <2>4. Writer(k, frames, a + 1)'
      <3>1. (a + 1) + rest = a + (rest + 1)
        OBVIOUS
      <3>2. ASSUME NEW j \in 1 .. rest
            PROVE  data'[x][j] = Frame(body[x])[(a + 1) + j]
        <4>1. j + 1 \in 1 .. rest + 1
          BY SMTT(30)
        <4>2. a + (j + 1) = (a + 1) + j
          BY NextByte
        <4>3. data'[x][j] = data[x][j + 1]
          BY DEF PutsByte
        <4>4. data[x][j + 1] = Frame(body[x])[a + (j + 1)]
          BY <1>7, <4>1
        <4> QED
          BY <4>2, <4>3, <4>4
      <3>3. Len(data'[x]) = rest
        BY DEF PutsByte
      <3>4. sent[k] # <<>> => x \notin Relays
        OBVIOUS
      <3> QED
        BY <1>7, <1>12, <2>2, <3>1, <3>2, <3>3, <3>4 DEF Writer, Puts, PutsByte
    <2>5. Reader(k, frames, start)'
      BY <1>5 DEF Flows, Reader, ReaderSame, Reads
    <2>6. Flows(k, frames, start, a + 1)' /\ a + 1 \in Nat
      BY <2>3, <2>4, <2>5 DEF Flows
    <2> QED
      BY <2>6 DEF Flowing
  <1>13. CASE rest = 0
    <2>1. PICK moved \in [Nat -> Int] :
                /\ moved[n + 1] = start[n + 1]
                /\ Layout(wire'[k], l + 1, n, N + 1, bytes, size, moved)
                /\ 0 < size[(N + 1) + 1] /\ l + 1 = moved[(N + 1) + 1] + 0
                /\ l + 1 <= moved[(N + 1) + 1] + 0
      BY <1>13, <1>11, LayByte
    <2>2. /\ Len(sent'[k]) = N + 1 /\ sent'[k][N + 1] = body[x] /\ Len(wire'[k]) = l + 1
          /\ \A i \in 1 .. N : sent'[k][i] = sent[k][i]
      BY <1>13 DEF PutsByte
    <2>3. Laid(k, frames, moved, 0)'
      <3>1. \A i \in 1 .. N + 1 : frames[i] = sent'[k][i]
        <4> TAKE i \in 1 .. N + 1
        <4>1. i = N + 1 \/ i \in 1 .. N
          BY LastOrBefore
        <4> QED
          BY <1>7, <1>9, <2>2, <4>1
      <3> QED
        BY <1>1, <1>6, <2>1, <2>2, <3>1 DEF Laid
    <2>4. Writer(k, frames, 0)'
      BY <1>13 DEF Writer, Puts, PutsByte
    <2>5. Reader(k, frames, moved)'
      BY <1>1, <1>5, <2>1 DEF Flows, Reader, ReaderSame, Reads
    <2>6. Flows(k, frames, moved, 0)'
      BY <2>3, <2>4, <2>5 DEF Flows
    <2> QED
      BY <2>6 DEF Flowing
  <1> QED
    BY <1>12, <1>13

\* The byte that is next on the wire, p bytes of whose frame are gone, is taken.
Taken(w, n, N, bytes, start, p, moved) ==
    /\ moved[n + 1] = - (p + 1) /\ moved[N + 1] = start[N + 1] - 1
    /\ w[1] = bytes[n + 1][p + 1]

LEMMA TakeByte ==
    ASSUME NEW w, NEW l, NEW n, NEW N, NEW bytes, NEW size, NEW start, NEW new, NEW p \in Nat,
           Layout(w, l, n, N, bytes, size, start), l # 0, Shifted(w, l, new),
           start[n + 1] = - p, p < size[n + 1]
    PROVE  \E moved \in [Nat -> Int] :
               /\ Taken(w, n, N, bytes, start, p, moved)
               /\ Layout(new, l - 1, n, N, bytes, size, moved)
  <1>1. /\ n \in Nat /\ N \in Nat /\ l \in Nat /\ n <= N
        /\ start \in [Nat -> Int] /\ size \in [Nat -> Nat \ {0}]
    BY DEF Layout
  <1>2. n + 1 \in n + 1 .. N + 1 /\ p + 1 \in 1 .. size[n + 1]
    BY <1>1
  <1>3. start[n + 1] + (p + 1) = 1 /\ 1 \in 1 .. l
    BY <1>1
  <1>4. w[1] = bytes[n + 1][p + 1]
    BY <1>2, <1>3 DEF Layout
  <1>5. PICK moved \in [Nat -> Int] :
              /\ moved[n + 1] = start[n + 1] - 1 /\ moved[N + 1] = start[N + 1] - 1
              /\ Layout(new, l - 1, n, N, bytes, size, moved)
    BY OneByteLess
  <1>6. moved[n + 1] = - (p + 1)
    BY <1>1, <1>5
  <1> QED
    BY <1>4, <1>5, <1>6 DEF Taken

\* What is read of the frame of d: m bytes of its header, or of d.
Has(text, m, f) == \A j \in 1 .. m : text[j] = f[j]

Progress(where, text, m, d, p, needs) ==
    \/ where = "head" /\ p = m /\ Has(text, m, Frame(d)) /\ needs = HeaderBytes
    \/ where = "body" /\ p = HeaderBytes + m /\ Has(text, m, d) /\ needs = Len(d)

LEMMA HasMore ==
    ASSUME NEW text, NEW m \in Nat, NEW f, NEW more, Has(text, m, f),
           more[m + 1] = f[m + 1], Has(more, m, text)
    PROVE  Has(more, m + 1, f)
  <1> SUFFICES ASSUME NEW j \in 1 .. m + 1 PROVE more[j] = f[j]
    BY DEF Has
  <1>1. j = m + 1 \/ j \in 1 .. m
    BY LastOrBefore
  <1> QED
    BY <1>1 DEF Has

LEMMA ProgressMore ==
    ASSUME NEW where, NEW text, NEW m \in Nat, NEW d \in Short, NEW p, NEW needs, NEW more,
           Progress(where, text, m, d, p, needs), m < needs, Has(more, m, text)
    PROVE  /\ p \in Nat /\ p < Len(Frame(d))
           /\ more[m + 1] = Frame(d)[p + 1] => Progress(where, more, m + 1, d, p + 1, needs)
  <1>1. Len(d) \in Nat /\ HeaderBytes \in Nat /\ Len(Frame(d)) = HeaderBytes + Len(d)
    BY FramesAssumption, ShortFrame
  <1>2. CASE where = "head" /\ p = m /\ Has(text, m, Frame(d)) /\ needs = HeaderBytes
    <2>1. p \in Nat /\ p < Len(Frame(d))
      BY <1>1, <1>2
    <2>2. ASSUME more[m + 1] = Frame(d)[p + 1] PROVE Has(more, m + 1, Frame(d))
      BY <1>2, <2>2, HasMore
    <2> QED
      BY <1>2, <2>1, <2>2 DEF Progress
  <1>3. CASE where = "body" /\ p = HeaderBytes + m /\ Has(text, m, d) /\ needs = Len(d)
    <2>1. p \in Nat /\ p < Len(Frame(d)) /\ p + 1 = HeaderBytes + (m + 1)
      BY <1>1, <1>3
    <2>2. ASSUME more[m + 1] = Frame(d)[p + 1] PROVE Has(more, m + 1, d)
      <3>1. m + 1 \in 1 .. Len(d)
        BY <1>1, <1>3
      <3>2. Frame(d)[HeaderBytes + (m + 1)] = d[m + 1]
        BY <3>1, FrameBytes DEF Short
      <3>3. more[m + 1] = d[m + 1]
        BY <2>1, <2>2, <3>2
      <3> QED
        BY <1>3, <3>3, HasMore
    <2> QED
      BY <1>3, <2>1, <2>2 DEF Progress
  <1> QED
    BY <1>2, <1>3 DEF Progress

\* One byte is read: what it does to the wire and to what is read.
TakesByte(k, l, m) ==
    LET y == To[k] IN
    /\ l = Len(wire[k]) /\ l # 0 /\ m = Len(data[y])
    /\ Len(wire'[k]) = l - 1 /\ Shifted(wire[k], l, wire'[k])
    /\ Len(data'[y]) = m + 1 /\ data'[y][m + 1] = wire[k][1]
    /\ Has(data'[y], m, data[y]) /\ m < need[y]

LEMMA ReaderProgress ==
    ASSUME NEW k \in Wire, NEW frames, NEW start, Reads(To[k], k),
           doing[To[k]] = "head" => need[To[k]] = HeaderBytes,
           Reader(k, frames, start), NEW n, NEW m, n = Len(got[k]), m = Len(data[To[k]])
    PROVE  \E p : /\ start[n + 1] = - p
                  /\ Progress(doing[To[k]], data[To[k]], m, frames[n + 1], p, need[To[k]])
  <1>1. CASE doing[To[k]] = "head"
    BY <1>1 DEF Reader, Progress, Has
  <1>2. CASE doing[To[k]] = "body"
    BY <1>2 DEF Reader, Progress, Has
  <1> QED
    BY <1>1, <1>2 DEF Reads

LEMMA TakeOn ==
    ASSUME NEW k \in Wire, Types, WireInv(k), torn'[k] = torn[k], got'[k] = got[k],
           sent'[k] = sent[k], To[k] \in Actor, Reads(To[k], k),
           doing'[To[k]] = doing[To[k]], on'[To[k]] = k, need'[To[k]] = need[To[k]],
           WriterSame(k), NEW l \in Nat, NEW m \in Nat, TakesByte(k, l, m),
           doing[To[k]] = "head" => need[To[k]] = HeaderBytes
    PROVE  WireInv(k)'
  <1> DEFINE y == To[k]
  <1> SUFFICES ASSUME ~torn'[k] PROVE Prefix(k)' /\ Flowing(k)'
    BY DEF WireInv
  <1>1. Prefix(k) /\ Prefix(k)'
    BY DEF WireInv, Prefix
  <1>2. Flowing(k)
    <2>1. ~Closed(y)
      BY DEF Closed, Reads
    <2>2. ~Refused(k)
      BY DEF Refused, TakesByte
    <2> QED
      BY <2>1, <2>2 DEF WireInv
  <1>3. PICK frames \in [Nat -> Short], start \in [Nat -> Int], a \in Nat :
              Flows(k, frames, start, a)
    BY <1>2 DEF Flowing
  <1>4. PICK n \in Nat, N \in Nat : n = Len(got[k]) /\ N = Len(sent[k]) /\ n <= N
    BY <1>1, <1>3, FlowFacts DEF Flows
  <1>5. PICK size, bytes : size = Sizes(frames) /\ bytes = Bytes(frames)
    OBVIOUS
  <1>6. Layout(wire[k], l, n, N, bytes, size, start)
    BY <1>3, <1>4, <1>5 DEF Flows, Laid, TakesByte
  <1>7. PICK d \in Short : /\ d = frames[n + 1] /\ bytes[n + 1] = Frame(d)
                           /\ size[n + 1] = Len(Frame(d))
    <2>1. PICK i \in Nat : i = n + 1
      OBVIOUS
    <2>2. frames[i] \in Short
      OBVIOUS
    <2>3. bytes[i] = Frame(frames[i]) /\ size[i] = Len(Frame(frames[i]))
      BY <1>5 DEF Sizes, Bytes
    <2> QED
      BY <2>1, <2>2, <2>3
  <1>8. PICK p : start[n + 1] = - p /\ Progress(doing[y], data[y], m, d, p, need[y])
    <2>1. Reader(k, frames, start) /\ m = Len(data[y])
      BY <1>3 DEF Flows, TakesByte
    <2> QED
      BY <1>4, <1>7, <2>1, ReaderProgress
  <1>9. /\ p \in Nat /\ p < Len(Frame(d))
        /\ data'[y][m + 1] = Frame(d)[p + 1] =>
              Progress(doing[y], data'[y], m + 1, d, p + 1, need[y])
    <2>1. m < need[y] /\ Has(data'[y], m, data[y])
      BY DEF TakesByte
    <2> QED
      BY <1>8, <2>1, ProgressMore
  <1>10. PICK moved \in [Nat -> Int] :
              /\ Taken(wire[k], n, N, bytes, start, p, moved)
              /\ Layout(wire'[k], l - 1, n, N, bytes, size, moved)
    <2>1. l # 0 /\ Shifted(wire[k], l, wire'[k])
      BY DEF TakesByte
    <2>2. p \in Nat /\ start[n + 1] = - p /\ p < size[n + 1]
      BY <1>7, <1>8, <1>9
    <2> QED
      BY <1>6, <2>1, <2>2, TakeByte
  <1>11. Laid(k, frames, moved, a)'
    <2>1. /\ \A i \in 1 .. N : frames[i] = sent[k][i]
          /\ a < size[N + 1] /\ l <= start[N + 1] + a
          /\ ~Closed(From[k]) => l = start[N + 1] + a
      BY <1>3, <1>4, <1>5 DEF Flows, Laid, TakesByte
    <2>2. moved[N + 1] = start[N + 1] - 1 /\ start[N + 1] \in Int
      BY <1>10 DEF Taken
    <2>3. l - 1 <= moved[N + 1] + a
      BY <2>1, <2>2
    <2>4. doing'[From[k]] # "closed" => l - 1 = moved[N + 1] + a
      <3>1. doing'[From[k]] # "closed" => ~Closed(From[k])
        BY DEF WriterSame
      <3> QED
        BY <2>1, <2>2, <3>1
    <2>5. Len(wire'[k]) = l - 1
      BY DEF TakesByte
    <2> QED
      BY <1>4, <1>5, <1>10, <2>1, <2>3, <2>4, <2>5 DEF Laid, Closed
  <1>12. Writer(k, frames, a)'
    BY <1>3 DEF Flows, Writer, WriterSame, Puts, Closed
  <1>13. Reader(k, frames, moved)'
    <2>1. Progress(doing[y], data'[y], m + 1, d, p + 1, need[y])
      <3>1. wire[k][1] = Frame(d)[p + 1]
        BY <1>7, <1>10 DEF Taken
      <3> QED
        BY <1>9, <3>1 DEF TakesByte
    <2>2. moved[n + 1] = - (p + 1)
      BY <1>10 DEF Taken
    <2>3. Len(data'[y]) = m + 1
      BY DEF TakesByte
    <2>4. CASE doing[y] = "head"
      BY <1>4, <1>7, <2>1, <2>2, <2>3, <2>4 DEF Reader, Reads, Progress, Has
    <2>5. CASE doing[y] = "body"
      BY <1>4, <1>7, <2>1, <2>2, <2>3, <2>5 DEF Reader, Reads, Progress, Has
    <2> QED
      BY <2>4, <2>5 DEF Reads
  <1>14. Flows(k, frames, moved, a)'
    BY <1>11, <1>12, <1>13 DEF Flows
  <1> QED
    BY <1>1, <1>14 DEF Flowing

\* A frame is read to its last byte: it was sent, and is the next one.
Through(l, n, N, size, start, a) ==
    /\ a \in Nat /\ start[n + 1] = - size[n + 1]
    /\ l <= start[N + 1] + a /\ a < size[N + 1]

FrameLess(w, l, n, N, bytes, size, start) ==
    /\ n + 1 \in 1 .. N /\ start[(n + 1) + 1] = 0
    /\ Layout(w, l, n + 1, N, bytes, size, start)

LEMMA WholeFrame ==
    ASSUME NEW w, NEW l, NEW n, NEW N, NEW bytes, NEW size, NEW start, NEW a,
           Layout(w, l, n, N, bytes, size, start), Through(l, n, N, size, start, a)
    PROVE  FrameLess(w, l, n, N, bytes, size, start)
  <1>1. /\ n \in Nat /\ N \in Nat /\ l \in Nat /\ n <= N
        /\ start \in [Nat -> Int] /\ size \in [Nat -> Nat \ {0}]
    BY DEF Layout
  <1>2. n # N
    BY <1>1 DEF Through
  <1>3. /\ start[(n + 1) + 1] = start[n + 1] + size[n + 1]
        /\ Layout(w, l, n + 1, N, bytes, size, start)
    BY <1>2, OneFrameLess
  <1>4. start[n + 1] \in Int /\ size[n + 1] \in Int
    BY <1>1
  <1>5. start[(n + 1) + 1] = 0
    BY <1>3, <1>4 DEF Through
  <1> QED
    BY <1>1, <1>2, <1>3, <1>5 DEF FrameLess

Whole(k, frames, start, n, N) ==
    /\ n + 1 \in 1 .. N /\ start[(n + 1) + 1] = 0
    /\ data[To[k]] = sent[k][n + 1]
    /\ Layout(wire[k], Len(wire[k]), n + 1, N, Bytes(frames), Sizes(frames), start)

LEMMA ReadWhole ==
    ASSUME NEW k \in Wire, Types, To[k] \in Actor, Reads(To[k], k), doing[To[k]] = "body",
           Len(data[To[k]]) = need[To[k]],
           NEW frames \in [Nat -> Short], NEW start \in [Nat -> Int], NEW a \in Nat,
           Flows(k, frames, start, a),
           NEW n \in Nat, NEW N \in Nat, n = Len(got[k]), N = Len(sent[k])
    PROVE  Whole(k, frames, start, n, N)
  <1>1. PICK size, bytes : size = Sizes(frames) /\ bytes = Bytes(frames)
    OBVIOUS
  <1>2. PICK d \in Short : d = frames[n + 1] /\ size[n + 1] = HeaderBytes + Len(d)
    <2>1. PICK i \in Nat : i = n + 1
      OBVIOUS
    <2>2. frames[i] \in Short /\ size[i] = HeaderBytes + Len(frames[i])
      BY <1>1, SizeIs
    <2> QED
      BY <2>1, <2>2
  <1>3. /\ start[n + 1] = - (HeaderBytes + Len(data[To[k]]))
        /\ need[To[k]] = Len(d)
        /\ \A j \in 1 .. Len(data[To[k]]) : data[To[k]][j] = d[j]
    BY <1>2 DEF Flows, Reader
  <1>4. data[To[k]] = d /\ start[n + 1] = - size[n + 1]
    <2>1. data[To[k]] \in Text /\ d \in Text
      BY ShortFrame DEF Types, ActorTypes
    <2> QED
      BY <1>2, <1>3, <2>1, SameBytes, ZenonT(30)
  <1>5. PICK l \in Nat : l = Len(wire[k])
    BY DEF Types, WireTypes, Text
  <1>6. /\ Layout(wire[k], l, n, N, bytes, size, start) /\ a < size[N + 1]
        /\ l <= start[N + 1] + a /\ \A i \in 1 .. N : frames[i] = sent[k][i]
    BY <1>1, <1>5 DEF Flows, Laid
  <1>7. FrameLess(wire[k], l, n, N, bytes, size, start)
    <2>1. Through(l, n, N, size, start, a)
      BY <1>4, <1>6 DEF Through
    <2> QED
      BY <1>6, <2>1, WholeFrame
  <1> QED
    BY <1>1, <1>2, <1>4, <1>5, <1>6, <1>7 DEF Whole, FrameLess

TakesFrame(k, n) ==
    /\ n = Len(got[k]) /\ Len(got'[k]) = n + 1 /\ got'[k][n + 1] = data[To[k]]
    /\ \A i \in 1 .. n : got'[k][i] = got[k][i]

\* The frame is taken: it is the next of those that were sent.
LEMMA TakeFrameOn ==
    ASSUME NEW k \in Wire, Types, WireInv(k), torn'[k] = torn[k], wire'[k] = wire[k],
           sent'[k] = sent[k], To[k] \in Actor, Reads(To[k], k), doing[To[k]] = "body",
           Len(data[To[k]]) = need[To[k]], doing'[To[k]] \in {"idle", "write"},
           WriterSame(k), NEW n \in Nat, TakesFrame(k, n)
    PROVE  WireInv(k)'
  <1> SUFFICES ASSUME ~torn'[k] PROVE Prefix(k)' /\ Flowing(k)'
    BY DEF WireInv
  <1>1. Flowing(k)
    BY DEF WireInv, Refused, Reads, Closed
  <1>2. PICK frames \in [Nat -> Short], start \in [Nat -> Int], a \in Nat :
              Flows(k, frames, start, a)
    BY <1>1 DEF Flowing
  <1>3. PICK N \in Nat : N = Len(sent[k])
    BY DEF Types, WireTypes
  <1>4. Whole(k, frames, start, n, N)
    <2>1. n = Len(got[k])
      BY DEF TakesFrame
    <2> QED
      BY <1>2, <1>3, <2>1, ReadWhole
  <1>5. Len(got'[k]) = n + 1 /\ n + 1 \in 1 .. N
    BY <1>4 DEF TakesFrame, Whole
  <1>6. Prefix(k)'
    <2>1. \A i \in 1 .. n : got'[k][i] = sent[k][i]
      BY DEF WireInv, Prefix, TakesFrame
    <2>2. got'[k][n + 1] = sent[k][n + 1]
      BY <1>4 DEF Whole, TakesFrame
    <2>3. \A i \in 1 .. n + 1 : got'[k][i] = sent[k][i]
      BY <2>1, <2>2, LastOrBefore
    <2>4. n + 1 <= N
      BY <1>5
    <2> QED
      BY <1>3, <1>5, <2>3, <2>4 DEF Prefix
  <1>7. Laid(k, frames, start, a)'
    <2>1. Layout(wire[k], Len(wire[k]), n + 1, N, Bytes(frames), Sizes(frames), start)
      BY <1>4 DEF Whole
    <2>2. /\ \A i \in 1 .. N : frames[i] = sent[k][i]
          /\ a < Sizes(frames)[N + 1] /\ Len(wire[k]) <= start[N + 1] + a
          /\ ~Closed(From[k]) => Len(wire[k]) = start[N + 1] + a
      BY <1>2, <1>3 DEF Flows, Laid
    <2>3. doing'[From[k]] # "closed" => ~Closed(From[k])
      BY DEF WriterSame
    <2> QED
      BY <1>3, <1>5, <2>1, <2>2, <2>3 DEF Laid, Closed
  <1>8. Writer(k, frames, a)'
    BY <1>2 DEF Flows, Writer, WriterSame, Puts, Closed
  <1>9. Reader(k, frames, start)'
    <2>1. start[(n + 1) + 1] = 0
      BY <1>4 DEF Whole
    <2> QED
      BY <1>5, <2>1 DEF Reader, Reads
  <1>10. Flows(k, frames, start, a)'
    BY <1>7, <1>8, <1>9 DEF Flows
  <1> QED
    BY <1>6, <1>10 DEF Flowing

\* A peer refuses a frame: it came from a relay, and it was the only one.
LEMMA RefuseOn ==
    ASSUME NEW k \in Wire, Types, WireInv(k), Speaks(k), torn'[k] = torn[k],
           wire'[k] = wire[k], sent'[k] = sent[k], got'[k] = got[k],
           From[k] \in Actor, To[k] \in Actor, Reads(To[k], k), doing[To[k]] = "body",
           Len(data[To[k]]) = need[To[k]], data[To[k]] \notin Bodies,
           doing'[To[k]] = "idle"
    PROVE  WireInv(k)'
  <1> SUFFICES ASSUME ~torn'[k] PROVE Prefix(k)' /\ Refused(k)'
    BY DEF WireInv
  <1>1. Prefix(k)'
    BY DEF WireInv, Prefix
  <1>2. Flowing(k)
    BY DEF WireInv, Refused, Reads, Closed
  <1>3. PICK frames \in [Nat -> Short], start \in [Nat -> Int], a \in Nat :
              Flows(k, frames, start, a)
    BY <1>2 DEF Flowing
  <1>4. PICK n \in Nat, N \in Nat, l \in Nat : n = Len(got[k]) /\ N = Len(sent[k]) /\ l = Len(wire[k])
    BY DEF Types, WireTypes, Text
  <1>5. Whole(k, frames, start, n, N)
    BY <1>3, <1>4, ReadWhole
  <1>6. From[k] \in Relays
    <2>1. From[k] \notin Peer
      <3>1. SUFFICES ASSUME From[k] \in Peer PROVE FALSE
        OBVIOUS
      <3>2. sent[k] \in Seq(Bodies)
        BY <3>1 DEF Speaks
      <3>3. \A i \in 1 .. N : sent[k][i] \in Bodies
        BY <1>4, <3>2
      <3> QED
        BY <1>5, <3>3 DEF Whole
    <2> QED
      BY <2>1 DEF Actor
  <1>7. N <= 1
    BY <1>4, <1>6 DEF Speaks
  <1>8. n + 1 \in 1 .. N /\ start[(n + 1) + 1] = 0
    BY <1>5 DEF Whole
  <1>9. n = 0 /\ N = 1
    BY <1>7, <1>8
  <1>10. got[k] = <<>> /\ sent[k] # <<>>
    <2>1. Len(got[k]) = 0 /\ got[k] \in Seq(Text)
      BY <1>4, <1>9 DEF Types, WireTypes
    <2>2. Len(sent[k]) # 0
      BY <1>4, <1>9
    <2> QED
      BY <2>1, <2>2, NoLength
  <1>11. a = 0 /\ l <= start[N + 1] + a
    BY <1>3, <1>4, <1>6, <1>10 DEF Flows, Writer, Laid
  <1>12. l = 0
    BY <1>8, <1>9, <1>11
  <1>13. wire[k] = <<>>
    <2>1. Len(wire[k]) = 0 /\ wire[k] \in Seq(Byte)
      BY <1>4, <1>12 DEF Types, WireTypes, Text
    <2> QED
      BY <2>1, NoLength
  <1> QED
    BY <1>1, <1>6, <1>10, <1>13 DEF Refused, Reads

\* A byte for a program that has closed its end is lost.
LEMMA PutLostOn ==
    ASSUME NEW k \in Wire, Types, WireInv(k), torn'[k] = torn[k], got'[k] = got[k],
           doing'[To[k]] = "closed",
           \/ sent'[k] = sent[k]
           \/ \E d : sent'[k] = Append(sent[k], d)
    PROVE  WireInv(k)'
  <1> SUFFICES ASSUME ~torn'[k] PROVE Prefix(k)'
    BY DEF WireInv, Closed
  <1>1. CASE sent'[k] = sent[k]
    BY <1>1 DEF WireInv, Prefix
  <1>2. CASE \E d : sent'[k] = Append(sent[k], d)
    <2>1. PICK d : sent'[k] = Append(sent[k], d)
      BY <1>2
    <2>2. sent[k] \in Seq(Short) /\ got[k] \in Seq(Text)
      BY DEF Types, WireTypes
    <2>3. /\ Len(sent'[k]) = Len(sent[k]) + 1
          /\ \A i \in 1 .. Len(sent[k]) : sent'[k][i] = sent[k][i]
      BY <2>1, <2>2
    <2>4. PICK n \in Nat, N \in Nat : n = Len(got[k]) /\ N = Len(sent[k])
      BY <2>2
    <2>5. n <= N /\ \A i \in 1 .. n : got[k][i] = sent[k][i]
      BY <2>4 DEF WireInv, Prefix
    <2>6. n <= N + 1 /\ \A i \in 1 .. n : got'[k][i] = sent'[k][i]
      BY <2>3, <2>4, <2>5
    <2> QED
      BY <2>3, <2>4, <2>6 DEF Prefix
  <1> QED
    BY <1>1, <1>2

-----------------------------------------------------------------------------
(* The control of the programs.                                            *)

\* A step of x is about x and its wires.
MineOnly(x) ==
    /\ OthersSame(x)
    /\ \A k \in Wire : /\ To[k] # x => got'[k] = got[k]
                       /\ From[k] # x => sent'[k] = sent[k]
    /\ \A r \in Relays \ {x} : leg'[r] = leg[r]

MineHolds(x) ==
    /\ Ends(x)'
    /\ x \in Relays => AtLeg(x)' /\ Carried(x, 2)' /\ Carried(x, 4)'
    /\ \A k \in Wire : From[k] = x => Speaks(k)'

LEMMA RelayLegs ==
    ASSUME NEW r \in Relays
    PROVE  /\ Legs[1] \in Wire /\ Legs[2] \in Wire /\ Legs[3] \in Wire /\ Legs[4] \in Wire
           /\ To[Legs[1]] = r /\ To[Legs[3]] = r /\ From[Legs[2]] = r /\ From[Legs[4]] = r
           /\ \A i, j \in {1, 2, 3, 4} : Legs[i] = Legs[j] => i = j
           /\ r \in Actor /\ r \notin Peer
  <1>1. 1 .. 4 = {1, 2, 3, 4}
    OBVIOUS
  <1>2. /\ Legs \in [1 .. 4 -> Wire] /\ \A i, j \in 1 .. 4 : Legs[i] = Legs[j] => i = j
        /\ To[Legs[1]] = r /\ To[Legs[3]] = r
        /\ From[Legs[2]] = r /\ From[Legs[4]] = r
    BY TopologyAssumption
  <1>3. r \in Actor /\ r \notin Peer
    BY TopologyAssumption DEF Actor
  <1> QED
    BY <1>1, <1>2, <1>3

LEMMA CarriedSame ==
    ASSUME NEW r \in Relays, NEW i \in {2, 4}, Carried(r, i),
           got'[Legs[i - 1]] = got[Legs[i - 1]], sent'[Legs[i]] = sent[Legs[i]],
           leg'[r] < i => leg[r] < i,
           doing'[r] = "write" =>
               /\ doing[r] = "write" /\ leg'[r] = leg[r] /\ body'[r] = body[r]
               /\ data'[r] # <<>> => data[r] # <<>>
    PROVE  Carried(r, i)'
  <1> DEFINE in == Legs[i - 1]
             out == Legs[i]
  <1>1. /\ leg[r] < i => got[in] = <<>> /\ sent[out] = <<>>
        /\ leg[r] = i /\ doing[r] = "write" =>
              got[in] = <<body[r]>> /\ (data[r] # <<>> => sent[out] = <<>>)
        /\ sent[out] = <<>> \/ sent[out] = got[in]
        /\ Len(got[in]) <= 1
    BY DEF Carried
  <1>2. leg'[r] < i => got'[in] = <<>> /\ sent'[out] = <<>>
    BY <1>1
  <1>3. leg'[r] = i /\ doing'[r] = "write" =>
            got'[in] = <<body'[r]>> /\ (data'[r] # <<>> => sent'[out] = <<>>)
    BY <1>1
  <1>4. (sent'[out] = <<>> \/ sent'[out] = got'[in]) /\ Len(got'[in]) <= 1
    BY <1>1
  <1> QED
    BY <1>2, <1>3, <1>4 DEF Carried

LEMMA ControlKept ==
    ASSUME Control, Types', NEW x \in Actor, MineOnly(x), MineHolds(x)
    PROVE  Control'
  <1>1. ASSUME NEW z \in Actor PROVE Ends(z)'
    <2>1. CASE z = x
      BY <2>1 DEF MineHolds
    <2>2. CASE z # x
      <3>1. /\ doing'[z] = doing[z] /\ on'[z] = on[z] /\ data'[z] = data[z] /\ need'[z] = need[z]
        BY <2>2 DEF MineOnly, OthersSame
      <3>2. Ends(z)
        BY DEF Control
      <3> QED
        BY <3>1, <3>2 DEF Ends
    <2> QED
      BY <2>1, <2>2
  <1>2. ASSUME NEW r \in Relays PROVE AtLeg(r)' /\ Carried(r, 2)' /\ Carried(r, 4)'
    <2>1. CASE r = x
      BY <2>1 DEF MineHolds
    <2>2. CASE r # x
      <3>1. /\ doing'[r] = doing[r] /\ on'[r] = on[r] /\ data'[r] = data[r]
            /\ body'[r] = body[r] /\ leg'[r] = leg[r]
        BY <2>2, RelayLegs DEF MineOnly, OthersSame
      <3>2. AtLeg(r) /\ Carried(r, 2) /\ Carried(r, 4)
        BY DEF Control
      <3>3. AtLeg(r)'
        BY <3>1, <3>2 DEF AtLeg
      <3>4. /\ got'[Legs[1]] = got[Legs[1]] /\ got'[Legs[3]] = got[Legs[3]]
            /\ sent'[Legs[2]] = sent[Legs[2]] /\ sent'[Legs[4]] = sent[Legs[4]]
        BY <2>2, RelayLegs DEF MineOnly
      <3>5. 2 - 1 = 1 /\ 4 - 1 = 3
        OBVIOUS
      <3>6. Carried(r, 2)'
        BY <3>1, <3>2, <3>4, <3>5, CarriedSame
      <3>7. Carried(r, 4)'
        BY <3>1, <3>2, <3>4, <3>5, CarriedSame
      <3> QED
        BY <3>3, <3>6, <3>7
    <2> QED
      BY <2>1, <2>2
  <1>3. ASSUME NEW k \in Wire PROVE Speaks(k)'
    <2>1. CASE From[k] = x
      BY <2>1 DEF MineHolds
    <2>2. CASE From[k] # x
      <3>1. From[k] \in Actor
        BY FramesAssumption
      <3>2. /\ doing'[From[k]] = doing[From[k]] /\ on'[From[k]] = on[From[k]]
            /\ body'[From[k]] = body[From[k]] /\ sent'[k] = sent[k]
        BY <2>2, <3>1 DEF MineOnly, OthersSame
      <3>3. Speaks(k)
        BY DEF Control
      <3> QED
        BY <3>2, <3>3 DEF Speaks
    <2> QED
      BY <2>1, <2>2
  <1> QED
    BY <1>1, <1>2, <1>3 DEF Control

\* A step that sends and takes nothing, and begins no writing.
LEMMA SilentMine ==
    ASSUME Control, NEW x \in Actor, got' = got, sent' = sent, Ends(x)',
           x \in Relays => AtLeg(x)' /\ (leg'[x] < 2 => leg[x] < 2) /\ (leg'[x] < 4 => leg[x] < 4),
           doing'[x] = "write" =>
               /\ doing[x] = "write" /\ on'[x] = on[x] /\ body'[x] = body[x]
               /\ data'[x] # <<>> => data[x] # <<>>
               /\ x \in Relays => leg'[x] = leg[x]
    PROVE  MineHolds(x)
  <1>1. ASSUME x \in Relays PROVE Carried(x, 2)' /\ Carried(x, 4)'
    <2>1. Carried(x, 2) /\ Carried(x, 4)
      BY <1>1 DEF Control
    <2>2. Carried(x, 2)'
      BY <1>1, <2>1, CarriedSame
    <2>3. Carried(x, 4)'
      BY <1>1, <2>1, CarriedSame
    <2> QED
      BY <2>2, <2>3
  <1>2. ASSUME NEW k \in Wire, From[k] = x PROVE Speaks(k)'
    <2>1. Speaks(k)
      BY DEF Control
    <2> QED
      BY <1>2, <2>1 DEF Speaks
  <1> QED
    BY <1>1, <1>2 DEF MineHolds

-----------------------------------------------------------------------------
(* Each step keeps the invariant.                                          *)

LEMMA ElsewhereSame ==
    ASSUME NEW x \in Actor, OthersSame(x), NEW k \in Wire
    PROVE  /\ From[k] # x => WriterSame(k)
           /\ To[k] # x => ReaderSame(k)
  <1>1. From[k] \in Actor /\ To[k] \in Actor
    BY FramesAssumption
  <1>2. ASSUME From[k] # x PROVE WriterSame(k)
    BY <1>1, <1>2 DEF OthersSame, WriterSame, Puts, Closed
  <1>3. ASSUME To[k] # x PROVE ReaderSame(k)
    BY <1>1, <1>3 DEF OthersSame, ReaderSame, Reads, Closed
  <1> QED
    BY <1>2, <1>3

\* x is not on the wire, before the step and after it.
Off(x, k) ==
    /\ ~Closed(x) /\ doing'[x] # "closed"
    /\ ~Puts(x, k) /\ ~(doing'[x] = "write" /\ on'[x] = k)
    /\ ~Reads(x, k) /\ ~(doing'[x] \in {"head", "body"} /\ on'[x] = k)

LEMMA OffSame ==
    ASSUME NEW x \in Actor, OthersSame(x), NEW k \in Wire, Off(x, k)
    PROVE  WriterSame(k) /\ ReaderSame(k)
  <1>1. CASE From[k] # x
    <2>1. WriterSame(k)
      BY <1>1, ElsewhereSame
    <2>2. CASE To[k] # x
      BY <2>1, <2>2, ElsewhereSame
    <2>3. CASE To[k] = x
      BY <2>1, <2>3 DEF Off, ReaderSame
    <2> QED
      BY <2>2, <2>3
  <1>2. CASE From[k] = x
    <2>1. WriterSame(k)
      BY <1>2 DEF Off, WriterSame
    <2>2. CASE To[k] # x
      BY <2>1, <2>2, ElsewhereSame
    <2>3. CASE To[k] = x
      BY <2>1, <2>3 DEF Off, ReaderSame
    <2> QED
      BY <2>2, <2>3
  <1> QED
    BY <1>1, <1>2

LEMMA NotOn ==
    ASSUME NEW x \in Actor, OthersSame(x), NEW k \in Wire, Types, WireInv(k), Off(x, k),
           torn[k] => torn'[k], got'[k] = got[k], sent'[k] = sent[k], wire'[k] = wire[k]
    PROVE  WireInv(k)'
  <1>1. WriterSame(k) /\ ReaderSame(k)
    BY OffSame
  <1>2. WireSame(k)
    BY DEF WireSame
  <1> QED
    BY <1>1, <1>2, Quiet

\* A relay that fails or is done, a program that ends: the streams are dropped.
LEMMA DropKeeps ==
    ASSUME IInv, NEW x \in Actor, Drop(x), got' = got, sent' = sent, leg' = leg,
           torn' \in [Wire -> BOOLEAN], \A k \in Wire : torn[k] => torn'[k]
    PROVE  IInv'
  <1>1. Types /\ Control
    BY DEF IInv, Control
  <1>2. /\ ActorTypes' /\ OthersSame(x)
        /\ doing'[x] = "closed" /\ on'[x] = None /\ data'[x] = <<>>
        /\ wire' \in [Wire -> Text]
        /\ \A k \in Wire :
              wire'[k] = wire[k] \/ (wire'[k] = <<>> /\ x \in {From[k], To[k]})
    BY <1>1, DropSays DEF Types
  <1>3. Types'
    BY <1>1, <1>2 DEF Types, WireTypes
  <1>4. Ends(x)' /\ (x \in Relays => AtLeg(x)')
    BY <1>2 DEF Ends, AtLeg
  <1>5. MineOnly(x)
    BY <1>2 DEF MineOnly
  <1>6. MineHolds(x)
    BY <1>1, <1>2, <1>4, SilentMine
  <1>7. Control'
    BY <1>1, <1>3, <1>5, <1>6, ControlKept
  <1>8. ASSUME NEW k \in Wire PROVE WireInv(k)'
    <2>1. WireInv(k)
      BY DEF IInv
    <2>2. WriterSame(k)
      <3>1. CASE From[k] = x
        BY <1>2, <3>1 DEF WriterSame
      <3> QED
        BY <1>2, <3>1, ElsewhereSame
    <2>3. ReaderSame(k)
      <3>1. CASE To[k] = x
        BY <1>2, <3>1 DEF ReaderSame
      <3> QED
        BY <1>2, <3>1, ElsewhereSame
    <2>4. WireSame(k)
      BY <1>2 DEF WireSame
    <2> QED
      BY <1>1, <2>1, <2>2, <2>3, <2>4, Quiet
  <1> QED
    BY <1>7, <1>8 DEF IInv

\* A peer's word ends.
LEMMA RestControl ==
    ASSUME IInv, NEW x \in Peer, Rest(x, "idle"), got' = got, sent' = sent, leg' = leg,
           wire' = wire, torn' \in [Wire -> BOOLEAN]
    PROVE  Control' /\ OthersSame(x) /\ doing'[x] = "idle"
  <1>1. Types /\ Control /\ x \in Actor /\ x \notin Relays
    BY TopologyAssumption DEF IInv, Control, Actor
  <1>2. /\ ActorTypes' /\ OthersSame(x) /\ doing'[x] = "idle" /\ on'[x] = None /\ data'[x] = <<>>
    BY <1>1, RestSays DEF Types
  <1>3. Types'
    BY <1>1, <1>2 DEF Types, WireTypes
  <1>4. Ends(x)'
    BY <1>2 DEF Ends
  <1>5. MineOnly(x)
    BY <1>2 DEF MineOnly
  <1>6. MineHolds(x)
    BY <1>1, <1>2, <1>4, SilentMine
  <1> QED
    BY <1>1, <1>2, <1>3, <1>5, <1>6, ControlKept

\* A program reads.
LEMMA ReadKeeps ==
    ASSUME IInv, NEW x \in Actor, NEW k \in Wire, To[k] = x, BeginRead(x, k),
           doing[x] = "idle" \/ (doing[x] = "write" /\ data[x] = <<>>),
           UNCHANGED <<wire, sent, got, torn>>, leg' \in [Relays -> 0 .. 4],
           \A r \in Relays \ {x} : leg'[r] = leg[r],
           x \in Relays => /\ leg'[x] \in {1, 3} /\ k = Legs[leg'[x]]
                           /\ (leg'[x] < 2 => leg[x] < 2) /\ (leg'[x] < 4 => leg[x] < 4)
    PROVE  IInv'
  <1>1. Types /\ Control
    BY DEF IInv, Control
  <1>2. /\ ActorTypes' /\ OthersSame(x)
        /\ doing'[x] = "head" /\ on'[x] = k /\ data'[x] = <<>> /\ need'[x] = HeaderBytes
    BY <1>1, BeginReadSays DEF Types
  <1>3. Types'
    BY <1>1, <1>2 DEF Types, WireTypes
  <1>4. Ends(x)' /\ (x \in Relays => AtLeg(x)')
    BY <1>2, FramesAssumption DEF Ends, AtLeg
  <1>5. MineOnly(x)
    BY <1>2 DEF MineOnly
  <1>6. MineHolds(x)
    BY <1>1, <1>2, <1>4, SilentMine
  <1>7. Control'
    BY <1>1, <1>3, <1>5, <1>6, ControlKept
  <1>8. ~Closed(x) /\ \A j \in Wire : ~Puts(x, j) /\ ~Reads(x, j)
    BY DEF Closed, Puts, Reads
  <1>9. ASSUME NEW j \in Wire PROVE WireInv(j)'
    <2>1. WireInv(j)
      BY DEF IInv
    <2>2. CASE j # k
      <3>1. Off(x, j)
        BY <1>2, <1>8, <2>2 DEF Off
      <3> QED
        BY <1>1, <1>2, <2>1, <3>1, NotOn
    <2>3. CASE j = k
      <3>1. WriterSame(k)
        <4>1. CASE From[k] = x
          BY <1>2, <1>8, <4>1 DEF WriterSame
        <4> QED
          BY <1>2, <4>1, ElsewhereSame
      <3> QED
        BY <1>1, <1>2, <1>8, <2>1, <2>3, <3>1, BeginReadOn
    <2> QED
      BY <2>2, <2>3
  <1> QED
    BY <1>7, <1>9 DEF IInv

\* A peer's word ends, on a wire it does nothing to, or whose frames it tore.
LEMMA RestKeeps ==
    ASSUME IInv, NEW x \in Peer, Rest(x, "idle"), ~Closed(x), UNCHANGED <<leg, wire, sent, got>>,
           torn' \in [Wire -> BOOLEAN], \A k \in Wire : torn[k] => torn'[k],
           \A k \in Wire : Puts(x, k) \/ Reads(x, k) => WireInv(k)'
    PROVE  IInv'
  <1>1. Control' /\ OthersSame(x) /\ doing'[x] = "idle"
    BY RestControl
  <1>2. Types /\ x \in Actor
    BY DEF IInv, Control, Actor
  <1>3. ASSUME NEW k \in Wire PROVE WireInv(k)'
    <2>1. CASE Puts(x, k) \/ Reads(x, k)
      BY <2>1
    <2>2. CASE ~(Puts(x, k) \/ Reads(x, k))
      <3>1. Off(x, k)
        BY <1>1, <2>2 DEF Off
      <3>2. WireInv(k)
        BY DEF IInv
      <3> QED
        BY <1>1, <1>2, <3>1, <3>2, NotOn
    <2> QED
      BY <2>1, <2>2
  <1> QED
    BY <1>1, <1>3 DEF IInv

LEMMA RecvStreamKeeps ==
    ASSUME IInv, NEW x \in Peer, NEW k \in Wire, RecvStream(x, k) PROVE IInv'
  <1>1. x \in Actor /\ x \notin Relays
    BY TopologyAssumption DEF Actor
  <1>2. leg' = leg /\ leg \in [Relays -> 0 .. 4]
    BY DEF RecvStream, IInv, Control, Types
  <1> QED
    BY <1>1, <1>2, ReadKeeps DEF RecvStream, history

LEMMA RelayKeeps ==
    ASSUME IInv, NEW x \in Relays, Relay(x) PROVE IInv'
  <1>1. x \in Actor /\ Legs[1] \in Wire /\ To[Legs[1]] = x
    BY RelayLegs
  <1>2. leg \in [Relays -> 0 .. 4] /\ (doing[x] = "idle" => leg[x] = 0)
    BY DEF IInv, Control, Types, AtLeg
  <1>3. /\ doing[x] = "idle" /\ BeginRead(x, Legs[1]) /\ leg' = [leg EXCEPT ![x] = 1]
        /\ UNCHANGED <<wire, sent, got, torn>>
    BY DEF Relay, history
  <1>4. leg' \in [Relays -> 0 .. 4] /\ leg'[x] = 1 /\ \A r \in Relays \ {x} : leg'[r] = leg[r]
    BY <1>2, <1>3
  <1>5. leg[x] < 2 /\ leg[x] < 4
    BY <1>2, <1>3
  <1> QED
    BY <1>1, <1>3, <1>4, <1>5, ReadKeeps

LEMMA DropsKeep ==
    ASSUME IInv, NEW x \in Actor, Drop(x), UNCHANGED <<leg, history>>
    PROVE  IInv'
  <1>1. torn \in [Wire -> BOOLEAN]
    BY DEF IInv, Control, Types, WireTypes
  <1> QED
    BY <1>1, DropKeeps DEF history

LEMMA WroteKeeps ==
    ASSUME IInv, NEW x \in Actor, Wrote(x) PROVE IInv'
  <1>1. CASE x \in Peer
    <2>1. /\ doing[x] = "write" /\ data[x] = <<>> /\ Rest(x, "idle")
          /\ UNCHANGED <<leg, wire, sent, got>> /\ torn' = torn
      BY <1>1 DEF Wrote, history
    <2>2. torn \in [Wire -> BOOLEAN]
      BY DEF IInv, Control, Types, WireTypes
    <2>3. ~Closed(x) /\ \A k \in Wire : ~(Puts(x, k) \/ Reads(x, k))
      BY <2>1 DEF Closed, Puts, Reads
    <2> QED
      BY <1>1, <2>1, <2>2, <2>3, RestKeeps
  <1>2. CASE x \notin Peer /\ leg[x] = 4
    BY <1>2, DropsKeep DEF Wrote
  <1>3. CASE x \notin Peer /\ leg[x] # 4
    <2>1. x \in Relays
      BY <1>3 DEF Actor
    <2>2. Legs[3] \in Wire /\ To[Legs[3]] = x
      BY <2>1, RelayLegs
    <2>3. /\ doing[x] = "write" /\ data[x] = <<>> /\ BeginRead(x, Legs[3])
          /\ leg' = [leg EXCEPT ![x] = 3] /\ UNCHANGED <<wire, sent, got, torn>>
      BY <1>3 DEF Wrote, history
    <2>4. leg \in [Relays -> 0 .. 4] /\ leg[x] = 2
      BY <1>3, <2>1, <2>3 DEF IInv, Control, Types, AtLeg
    <2>5. leg' \in [Relays -> 0 .. 4] /\ leg'[x] = 3 /\ \A r \in Relays \ {x} : leg'[r] = leg[r]
      BY <2>1, <2>3, <2>4
    <2>6. /\ leg'[x] \in {1, 3} /\ Legs[3] = Legs[leg'[x]]
          /\ leg'[x] < 2 => leg[x] < 2
          /\ leg'[x] < 4 => leg[x] < 4
      BY <2>4, <2>5
    <2> QED
      BY <2>2, <2>3, <2>5, <2>6, ReadKeeps
  <1> QED
    BY <1>1, <1>2, <1>3

\* A word fails: what it did to the wire it was on is shown where it fails.
LEMMA FailsKeeps ==
    ASSUME IInv, NEW x \in Actor, NEW k \in Wire, NEW inside \in BOOLEAN,
           Fails(x), Tear(k, inside), ~Closed(x),
           x \in Peer => \A j \in Wire : Puts(x, j) \/ Reads(x, j) => WireInv(j)'
    PROVE  IInv'
  <1>1. torn' \in [Wire -> BOOLEAN] /\ \A j \in Wire : torn[j] => torn'[j]
    BY DEF IInv, Control, Types, WireTypes, Tear
  <1>2. CASE x \in Peer
    <2>1. Rest(x, "idle") /\ UNCHANGED <<leg, wire, sent, got>>
      BY <1>2 DEF Fails
    <2> QED
      BY <1>1, <1>2, <2>1, RestKeeps
  <1>3. CASE x \notin Peer
    <2>1. Drop(x) /\ leg' = leg /\ sent' = sent /\ got' = got
      BY <1>3 DEF Fails
    <2> QED
      BY <1>1, <2>1, DropKeeps
  <1> QED
    BY <1>2, <1>3

\* Where the word that fails is: on one wire, that it writes or reads.
LEMMA PeerRests ==
    ASSUME IInv, NEW x \in Peer, Fails(x), NEW j \in Wire
    PROVE  /\ doing'[x] = "idle" /\ x \in Actor
           /\ got'[j] = got[j] /\ sent'[j] = sent[j] /\ wire'[j] = wire[j]
           /\ From[j] # x => WriterSame(j)
           /\ To[j] # x => ReaderSame(j)
  <1>1. x \in Actor /\ ActorTypes
    BY DEF IInv, Control, Types, Actor
  <1>2. Rest(x, "idle") /\ UNCHANGED <<leg, wire, sent, got>>
    BY DEF Fails
  <1>3. OthersSame(x) /\ doing'[x] = "idle"
    BY <1>1, <1>2, RestSays
  <1> QED
    BY <1>1, <1>2, <1>3, ElsewhereSame

LEMMA WriteFailsKeeps ==
    ASSUME IInv, NEW x \in Actor, WriteFails(x) PROVE IInv'
  <1>1. /\ doing[x] = "write" /\ data[x] # <<>> /\ Fails(x)
        /\ Tear(on[x], Len(data[x]) < HeaderBytes + Len(body[x]))
    BY DEF WriteFails
  <1>2. PICK k \in Wire : k = on[x] /\ From[k] = x
    BY <1>1 DEF IInv, Control, Ends
  <1>3. PICK inside \in BOOLEAN : inside <=> Len(data[x]) < HeaderBytes + Len(body[x])
    <2>1. \E inside \in BOOLEAN : inside <=> Len(data[x]) < HeaderBytes + Len(body[x])
      <3>1. CASE Len(data[x]) < HeaderBytes + Len(body[x])
        <4> WITNESS TRUE \in BOOLEAN
        <4> QED
          BY <3>1
      <3>2. CASE ~(Len(data[x]) < HeaderBytes + Len(body[x]))
        <4> WITNESS FALSE \in BOOLEAN
        <4> QED
          BY <3>2
      <3> QED
        BY <3>1, <3>2
    <2> QED
      BY <2>1
  <1>4. Tear(k, inside) /\ ~Closed(x)
    BY <1>1, <1>2, <1>3 DEF Closed
  <1>5. torn \in [Wire -> BOOLEAN] /\ Types
    BY DEF IInv, Control, Types, WireTypes
  <1>6. torn'[k] = (torn[k] \/ inside)
    BY <1>4, <1>5 DEF Tear
  <1>7. ASSUME x \in Peer, NEW j \in Wire, Puts(x, j) \/ Reads(x, j) PROVE WireInv(j)'
    <2>1. j = k /\ Puts(x, k)
      BY <1>1, <1>2, <1>7 DEF Puts, Reads
    <2>2. CASE inside
      BY <1>6, <2>1, <2>2 DEF WireInv
    <2>3. CASE ~inside
      <3>1. /\ doing'[x] = "idle" /\ got'[k] = got[k] /\ sent'[k] = sent[k] /\ wire'[k] = wire[k]
            /\ To[k] # x => ReaderSame(k)
        BY <1>1, <1>7, PeerRests
      <3>2. ReaderSame(k)
        BY <1>1, <3>1 DEF ReaderSame, Reads, Closed
      <3>3. WireInv(k) /\ (torn[k] => torn'[k])
        BY <1>6 DEF IInv
      <3> QED
        BY <1>2, <1>3, <1>5, <2>1, <2>3, <3>1, <3>2, <3>3, StopWriteOn
    <2> QED
      BY <2>2, <2>3
  <1> QED
    BY <1>1, <1>4, <1>7, FailsKeeps

LEMMA TooLongKeeps ==
    ASSUME IInv, NEW x \in Actor, TooLong(x) PROVE IInv'
  <1>1. doing[x] = "head" /\ Fails(x) /\ Tear(on[x], TRUE)
    BY DEF TooLong
  <1>2. PICK k \in Wire : k = on[x]
    BY <1>1 DEF IInv, Control, Ends
  <1>3. Tear(k, TRUE) /\ ~Closed(x) /\ torn'[k]
    BY <1>1, <1>2 DEF Closed, Tear, IInv, Control, Types, WireTypes
  <1>4. ASSUME x \in Peer, NEW j \in Wire, Puts(x, j) \/ Reads(x, j) PROVE WireInv(j)'
    BY <1>1, <1>2, <1>3, <1>4 DEF Puts, Reads, WireInv
  <1> QED
    BY <1>1, <1>3, <1>4, FailsKeeps

LEMMA ReadFailsKeeps ==
    ASSUME IInv, NEW x \in Actor, ReadFails(x) PROVE IInv'
  <1>1. /\ doing[x] \in {"head", "body"} /\ Fails(x)
        /\ Tear(on[x], doing[x] = "body" \/ data[x] # <<>>)
    BY DEF ReadFails
  <1>2. PICK k \in Wire : k = on[x] /\ To[k] = x
    BY <1>1 DEF IInv, Control, Ends
  <1>3. PICK inside \in BOOLEAN : inside = (doing[x] = "body" \/ data[x] # <<>>)
    OBVIOUS
  <1>4. Tear(k, inside) /\ ~Closed(x)
    BY <1>1, <1>2, <1>3 DEF Closed
  <1>5. torn \in [Wire -> BOOLEAN] /\ Types
    BY DEF IInv, Control, Types, WireTypes
  <1>6. torn'[k] = (torn[k] \/ inside)
    BY <1>4, <1>5 DEF Tear
  <1>7. ASSUME x \in Peer, NEW j \in Wire, Puts(x, j) \/ Reads(x, j) PROVE WireInv(j)'
    <2>1. j = k /\ Reads(x, k)
      BY <1>1, <1>2, <1>7 DEF Puts, Reads
    <2>2. CASE inside
      BY <1>6, <2>1, <2>2 DEF WireInv
    <2>3. CASE ~inside
      <3>1. /\ doing'[x] = "idle" /\ got'[k] = got[k] /\ sent'[k] = sent[k] /\ wire'[k] = wire[k]
            /\ From[k] # x => WriterSame(k)
        BY <1>1, <1>7, PeerRests
      <3>2. WriterSame(k)
        BY <1>1, <3>1 DEF WriterSame, Puts, Closed
      <3>3. WireInv(k) /\ (torn[k] => torn'[k])
        BY <1>6 DEF IInv
      <3>4. doing[x] = "head" /\ data[x] = <<>>
        BY <1>1, <1>3, <2>3
      <3> QED
        BY <1>2, <1>5, <2>1, <3>1, <3>2, <3>3, <3>4, StopReadOn
    <2> QED
      BY <2>2, <2>3
  <1> QED
    BY <1>1, <1>4, <1>7, FailsKeeps

LEMMA RefuseKeeps ==
    ASSUME IInv, NEW x \in Actor, Refuse(x) PROVE IInv'
  <1>1. /\ x \in Peer /\ doing[x] = "body" /\ Len(data[x]) = need[x] /\ data[x] \notin Bodies
        /\ Rest(x, "idle") /\ UNCHANGED <<leg, wire, sent, got>> /\ torn' = torn
    BY DEF Refuse, history
  <1>2. torn \in [Wire -> BOOLEAN] /\ Types
    BY DEF IInv, Control, Types, WireTypes
  <1>3. ASSUME NEW k \in Wire, Puts(x, k) \/ Reads(x, k) PROVE WireInv(k)'
    <2>1. Reads(x, k) /\ To[k] = x
      BY <1>1, <1>3 DEF Puts, Reads, IInv, Control, Ends
    <2>2. doing'[x] = "idle"
      BY <1>1, <1>2, RestSays DEF Types
    <2>3. WireInv(k) /\ Speaks(k) /\ From[k] \in Actor
      BY FramesAssumption DEF IInv, Control
    <2> QED
      BY <1>1, <1>2, <2>1, <2>2, <2>3, RefuseOn
  <1>4. ~Closed(x)
    BY <1>1 DEF Closed
  <1> QED
    BY <1>1, <1>2, <1>3, <1>4, RestKeeps

\* A step on one wire: the rest follows from what it does there.
LEMMA OneWire ==
    ASSUME IInv, Control', NEW x \in Actor, OthersSame(x), NEW k \in Wire, on[x] = k,
           doing[x] \in Busy, doing'[x] \in Busy, on'[x] = k, torn' = torn,
           \A j \in Wire \ {k} : got'[j] = got[j] /\ sent'[j] = sent[j] /\ wire'[j] = wire[j],
           WireInv(k)'
    PROVE  IInv'
  <1>1. ASSUME NEW j \in Wire \ {k} PROVE WireInv(j)'
    <2>1. Off(x, j)
      BY DEF Off, Puts, Reads, Closed, Busy
    <2>2. WireInv(j) /\ Types
      BY DEF IInv, Control
    <2> QED
      BY <2>1, <2>2, NotOn
  <1> QED
    BY <1>1 DEF IInv

\* The other end of the wire that x reads, and of the wire that it writes.
LEMMA OtherEnd ==
    ASSUME NEW x \in Actor, NEW k \in Wire, OthersSame(x), doing'[x] # "closed"
    PROVE  /\ To[k] = x /\ doing[x] \in {"head", "body"}
                /\ ~(doing'[x] = "write" /\ on'[x] = k) => WriterSame(k)
           /\ From[k] = x /\ doing[x] = "write" /\ doing'[x] = "write" => ReaderSame(k)
  <1>1. From[k] # x => WriterSame(k)
    BY ElsewhereSame
  <1>2. To[k] # x => ReaderSame(k)
    BY ElsewhereSame
  <1>3. ASSUME From[k] = x, doing[x] \in {"head", "body"}, ~(doing'[x] = "write" /\ on'[x] = k)
        PROVE  WriterSame(k)
    BY <1>3 DEF WriterSame, Puts, Closed
  <1>4. ASSUME To[k] = x, doing[x] = "write", doing'[x] = "write" PROVE ReaderSame(k)
    BY <1>4 DEF ReaderSame, Reads, Closed
  <1> QED
    BY <1>1, <1>2, <1>3, <1>4

LEMMA HeadedKeeps ==
    ASSUME IInv, NEW x \in Actor, Headed(x) PROVE IInv'
  <1>1. PICK n \in Lengths(data[x]) \ {Longest + 1} : need' = [need EXCEPT ![x] = n]
    BY DEF Headed
  <1>2. /\ doing[x] = "head" /\ Len(data[x]) = need[x]
        /\ doing' = [doing EXCEPT ![x] = "body"] /\ data' = [data EXCEPT ![x] = <<>>]
        /\ UNCHANGED <<on, body, leg, wire, sent, got, torn>>
    BY DEF Headed, history
  <1>3. Types /\ Control /\ Ends(x)
    BY DEF IInv, Control
  <1>4. PICK k \in Wire : k = on[x] /\ To[k] = x
    BY <1>2, <1>3 DEF Ends
  <1>5. n \in Nat /\ n <= Longest + HeaderBytes /\ need[x] = HeaderBytes
    BY <1>1, <1>2, <1>3, LengthsBound DEF Ends
  <1>6. /\ doing'[x] = "body" /\ data'[x] = <<>> /\ need'[x] = n /\ on'[x] = k /\ OthersSame(x)
    BY <1>1, <1>2, <1>3, <1>4 DEF Types, ActorTypes, OthersSame
  <1>7. Types'
    BY <1>1, <1>2, <1>3, <1>5, EmptyText DEF Types, ActorTypes, WireTypes, Busy
  <1>8. Ends(x)' /\ (x \in Relays => AtLeg(x)')
    <2>1. Len(<<>>) <= n
      BY <1>5
    <2>2. Ends(x)'
      BY <1>4, <1>5, <1>6, <2>1 DEF Ends
    <2>3. x \in Relays => AtLeg(x)
      BY <1>3 DEF Control
    <2>4. x \in Relays => AtLeg(x)'
      BY <1>2, <1>4, <1>6, <2>3 DEF AtLeg
    <2> QED
      BY <2>2, <2>4
  <1>9. Control'
    <2>1. MineOnly(x)
      BY <1>2, <1>6 DEF MineOnly
    <2>2. MineHolds(x)
      BY <1>2, <1>3, <1>6, <1>8, SilentMine
    <2> QED
      BY <1>3, <1>7, <2>1, <2>2, ControlKept
  <1>10. WireInv(k)'
    <2>1. WriterSame(k)
      BY <1>2, <1>4, <1>6, OtherEnd
    <2>2. WireInv(k) /\ Reads(x, k)
      BY <1>2, <1>4 DEF IInv, Reads
    <2> QED
      BY <1>1, <1>2, <1>3, <1>4, <1>5, <1>6, <2>1, <2>2, HeadedOn
  <1> QED
    BY <1>2, <1>4, <1>6, <1>9, <1>10, OneWire DEF Busy

\* read_exact takes the first byte of the wire.
Moved(w, d, w2, d2) ==
    /\ Len(w) \in Nat /\ Len(w) # 0 /\ Len(d) \in Nat
    /\ w2 \in Text /\ Len(w2) = Len(w) - 1 /\ Shifted(w, Len(w), w2)
    /\ d2 \in Text /\ Len(d2) = Len(d) + 1
    /\ d2[Len(d) + 1] = w[1] /\ Has(d2, Len(d), d)

LEMMA Moves ==
    ASSUME NEW w \in Text, w # <<>>, NEW d \in Text
    PROVE  Moved(w, d, Tail(w), Append(d, Head(w)))
  <1>1. w \in Seq(Byte) /\ d \in Seq(Byte)
    BY DEF Text
  <1>2. Len(w) \in Nat /\ Len(w) # 0 /\ Len(d) \in Nat /\ Head(w) = w[1] /\ w[1] \in Byte
    BY <1>1, NoLength
  <1>3. Tail(w) \in Seq(Byte) /\ Len(Tail(w)) = Len(w) - 1
        /\ \A p \in 1 .. Len(w) - 1 : Tail(w)[p] = w[p + 1]
    BY <1>1
  <1>4. /\ Append(d, w[1]) \in Seq(Byte) /\ Len(Append(d, w[1])) = Len(d) + 1
        /\ Append(d, w[1])[Len(d) + 1] = w[1]
        /\ \A j \in 1 .. Len(d) : Append(d, w[1])[j] = d[j]
    BY <1>1, <1>2
  <1> QED
    BY <1>2, <1>3, <1>4 DEF Text, Shifted, Has, Moved

LEMMA TakeKeeps ==
    ASSUME IInv, NEW x \in Actor, Take(x) PROVE IInv'
  <1>1. /\ doing[x] \in {"head", "body"} /\ Len(data[x]) < need[x] /\ wire[on[x]] # <<>>
        /\ data' = [data EXCEPT ![x] = Append(@, Head(wire[on[x]]))]
        /\ wire' = [wire EXCEPT ![on[x]] = Tail(@)]
        /\ UNCHANGED <<doing, on, body, need, leg, sent, got, torn>>
    BY DEF Take, history
  <1>2. Types /\ Control /\ Ends(x) /\ need[x] \in Nat
    BY DEF IInv, Control, Types, ActorTypes
  <1>3. PICK k \in Wire : k = on[x] /\ To[k] = x
    BY <1>1, <1>2 DEF Ends
  <1>4. wire[k] \in Text /\ data[x] \in Text /\ wire[k] # <<>>
    BY <1>1, <1>2, <1>3 DEF Types, WireTypes, ActorTypes
  <1>5. /\ data'[x] = Append(data[x], Head(wire[k])) /\ wire'[k] = Tail(wire[k])
        /\ \A j \in Wire \ {k} : wire'[j] = wire[j]
        /\ OthersSame(x)
    BY <1>1, <1>2, <1>3 DEF Types, WireTypes, ActorTypes, OthersSame
  <1>6. Moved(wire[k], data[x], wire'[k], data'[x])
    BY <1>4, <1>5, Moves
  <1>7. PICK l \in Nat, m \in Nat : /\ l = Len(wire[k]) /\ m = Len(data[x])
                                  /\ Moved(wire[k], data[x], wire'[k], data'[x])
    BY <1>6 DEF Moved
  <1>8. m < need[x] /\ (doing[x] = "head" => need[x] = HeaderBytes)
    BY <1>1, <1>2, <1>7 DEF Ends
  <1>9. TakesByte(k, l, m)
    BY <1>3, <1>7, <1>8 DEF TakesByte, Moved
  <1>10. Types'
    <2>1. data' \in [Actor -> Text] /\ wire' \in [Wire -> Text]
      BY <1>1, <1>2, <1>3, <1>5, <1>6 DEF Types, WireTypes, ActorTypes, Moved
    <2> QED
      BY <1>1, <1>2, <2>1 DEF Types, WireTypes, ActorTypes
  <1>11. Ends(x)' /\ (x \in Relays => AtLeg(x)')
    <2>1. m + 1 <= need[x]
      BY <1>2, <1>8
    <2>2. Ends(x)'
      BY <1>1, <1>2, <1>7, <2>1 DEF Ends, Moved
    <2>3. x \in Relays => AtLeg(x)
      BY <1>2 DEF Control
    <2>4. x \in Relays => AtLeg(x)'
      BY <1>1, <2>3 DEF AtLeg
    <2> QED
      BY <2>2, <2>4
  <1>12. Control'
    <2>1. MineOnly(x)
      BY <1>1, <1>5 DEF MineOnly
    <2>2. doing'[x] # "write"
      BY <1>1
    <2>3. MineHolds(x)
      BY <1>1, <1>2, <1>11, <2>2, SilentMine
    <2> QED
      BY <1>2, <1>10, <2>1, <2>3, ControlKept
  <1>13. WireInv(k)'
    <2>1. doing'[x] = doing[x] /\ on'[x] = k /\ need'[x] = need[x] /\ doing'[x] # "closed"
      BY <1>1, <1>3
    <2>2. WriterSame(k)
      BY <1>1, <1>3, <1>5, <2>1, OtherEnd
    <2>3. WireInv(k) /\ Reads(x, k)
      BY <1>1, <1>3 DEF IInv, Reads
    <2> QED
      BY <1>1, <1>2, <1>3, <1>8, <1>9, <2>1, <2>2, <2>3, TakeOn
  <1> QED
    BY <1>1, <1>3, <1>5, <1>12, <1>13, OneWire DEF Busy

LEMMA SendStreamKeeps ==
    ASSUME IInv, NEW x \in Peer, NEW k \in Wire, NEW m \in Msg, SendStream(x, k, m) PROVE IInv'
  <1>1. PICK d \in Short : d = Body(m) /\ d \in Bodies
    BY BodyIsShort
  <1>2. /\ doing[x] = "idle" /\ From[k] = x /\ BeginWrite(x, k, d)
        /\ leg' = leg /\ wire' = wire /\ sent' = sent /\ got' = got /\ torn' = torn
    BY <1>1 DEF SendStream
  <1>3. Types /\ Control /\ x \in Actor /\ x \notin Relays
    BY TopologyAssumption DEF IInv, Control, Actor
  <1>4. /\ ActorTypes' /\ OthersSame(x)
        /\ doing'[x] = "write" /\ on'[x] = k /\ data'[x] = Frame(d) /\ body'[x] = d
    BY <1>2, <1>3, BeginWriteSays DEF Types
  <1>5. Types'
    BY <1>2, <1>3, <1>4 DEF Types, WireTypes
  <1>6. Control'
    <2>1. MineOnly(x)
      BY <1>2, <1>4 DEF MineOnly
    <2>2. Ends(x)'
      BY <1>2, <1>4 DEF Ends
    <2>3. ASSUME NEW j \in Wire, From[j] = x PROVE Speaks(j)'
      <3>1. Speaks(j)
        BY <1>3 DEF Control
      <3> QED
        BY <1>1, <1>2, <1>3, <1>4, <2>3, <3>1 DEF Speaks
    <2>4. MineHolds(x)
      BY <1>3, <2>2, <2>3 DEF MineHolds
    <2> QED
      BY <1>3, <1>5, <2>1, <2>4, ControlKept
  <1>7. ~Closed(x) /\ \A j \in Wire : ~Puts(x, j) /\ ~Reads(x, j)
    BY <1>2 DEF Closed, Puts, Reads
  <1>8. ASSUME NEW j \in Wire PROVE WireInv(j)'
    <2>1. WireInv(j) /\ To[j] \in Actor
      BY FramesAssumption DEF IInv
    <2>2. CASE j # k
      <3>1. Off(x, j)
        BY <1>4, <1>7, <2>2 DEF Off
      <3> QED
        BY <1>2, <1>3, <1>4, <2>1, <3>1, NotOn
    <2>3. CASE j = k
      <3>1. ReaderSame(k)
        <4>1. CASE To[k] = x
          BY <1>4, <1>7, <4>1 DEF ReaderSame
        <4> QED
          BY <1>3, <1>4, <4>1, ElsewhereSame
      <3>2. From[k] \notin Relays
        BY <1>2, <1>3
      <3> QED
        BY <1>2, <1>3, <1>4, <1>7, <2>1, <2>3, <3>1, <3>2, BeginWriteOn
    <2> QED
      BY <2>2, <2>3
  <1> QED
    BY <1>6, <1>8 DEF IInv

LEMMA TakesFrameBy ==
    ASSUME NEW k \in Wire, Types, To[k] \in Actor, got'[k] = Append(got[k], data[To[k]])
    PROVE  got'[k] \in Seq(Text) /\ \E n \in Nat : TakesFrame(k, n)
  <1>1. got[k] \in Seq(Text) /\ data[To[k]] \in Text
    BY DEF Types, WireTypes, ActorTypes
  <1> DEFINE n == Len(got[k])
  <1>2. /\ n \in Nat /\ got'[k] \in Seq(Text) /\ Len(got'[k]) = n + 1
        /\ got'[k][n + 1] = data[To[k]] /\ \A i \in 1 .. n : got'[k][i] = got[k][i]
    BY <1>1
  <1> QED
    BY <1>2 DEF TakesFrame

\* A leg that the relay is not on, before the step and after it.
LEMMA CarriedKept ==
    ASSUME NEW r \in Relays, NEW i \in {2, 4}, Carried(r, i),
           got'[Legs[i - 1]] = got[Legs[i - 1]], sent' = sent,
           leg'[r] < i => leg[r] < i, leg'[r] # i
    PROVE  Carried(r, i)'
  <1> DEFINE in == Legs[i - 1]
             out == Legs[i]
  <1>1. /\ leg[r] < i => got[in] = <<>> /\ sent[out] = <<>>
        /\ sent[out] = <<>> \/ sent[out] = got[in]
        /\ Len(got[in]) <= 1
    BY DEF Carried
  <1>2. leg'[r] < i => got'[in] = <<>> /\ sent'[out] = <<>>
    BY <1>1
  <1>3. (sent'[out] = <<>> \/ sent'[out] = got'[in]) /\ Len(got'[in]) <= 1
    BY <1>1
  <1> QED
    BY <1>2, <1>3 DEF Carried

LEMMA TakeFrameKeeps ==
    ASSUME IInv, NEW x \in Actor, TakeFrame(x) PROVE IInv'
  <1>1. /\ doing[x] = "body" /\ Len(data[x]) = need[x]
        /\ got' = [got EXCEPT ![on[x]] = Append(@, data[x])]
        /\ wire' = wire /\ sent' = sent /\ torn' = torn
    BY DEF TakeFrame
  <1>2. Types /\ Control /\ Ends(x)
    BY DEF IInv, Control
  <1>3. PICK k \in Wire : k = on[x] /\ To[k] = x
    BY <1>1, <1>2 DEF Ends
  <1>4. /\ got'[k] = Append(got[k], data[x]) /\ \A j \in Wire \ {k} : got'[j] = got[j]
        /\ got' = [got EXCEPT ![k] = got'[k]]
    BY <1>1, <1>2, <1>3 DEF Types, WireTypes
  <1>5. PICK n \in Nat : TakesFrame(k, n)
    BY <1>2, <1>3, <1>4, TakesFrameBy
  <1>6. WireTypes'
    <2>1. got'[k] \in Seq(Text)
      BY <1>2, <1>3, <1>4, TakesFrameBy
    <2>2. got' \in [Wire -> Seq(Text)]
      BY <1>2, <1>4, <2>1 DEF Types, WireTypes
    <2> QED
      BY <1>1, <1>2, <2>2 DEF Types, WireTypes
  <1>7. ~Closed(x) /\ Reads(x, k) /\ (\A j \in Wire : ~Puts(x, j))
        /\ \A j \in Wire \ {k} : ~Reads(x, j)
    BY <1>1, <1>3 DEF Closed, Puts, Reads
  <1>8. ASSUME OthersSame(x), doing'[x] \in {"idle", "write"}, on'[x] # k PROVE WireInv(k)'
    <2>1. WriterSame(k)
      BY <1>1, <1>3, <1>8, OtherEnd
    <2> QED
      BY <1>1, <1>2, <1>3, <1>5, <1>7, <1>8, <2>1, TakeFrameOn DEF IInv
  <1>9. CASE x \in Peer
    <2>1. Rest(x, "idle") /\ leg' = leg /\ x \notin Relays
      BY <1>9, TopologyAssumption DEF TakeFrame
    <2>2. /\ ActorTypes' /\ OthersSame(x) /\ doing'[x] = "idle" /\ on'[x] = None
      BY <1>2, <2>1, RestSays DEF Types
    <2>3. Types'
      BY <1>2, <1>6, <2>1, <2>2 DEF Types
    <2>4. Control'
      <3>1. MineOnly(x)
        BY <1>1, <1>3, <1>4, <2>1, <2>2 DEF MineOnly
      <3>2. ASSUME NEW j \in Wire, From[j] = x PROVE Speaks(j)'
        BY <1>1, <1>2, <2>2, <3>2 DEF Speaks, Control
      <3>3. Ends(x)'
        BY <2>2 DEF Ends
      <3>4. MineHolds(x)
        BY <2>1, <3>2, <3>3 DEF MineHolds
      <3> QED
        BY <1>2, <2>3, <3>1, <3>4, ControlKept
    <2>5. ASSUME NEW j \in Wire PROVE WireInv(j)'
      <3>1. CASE j = k
        BY <1>8, <2>2, <3>1, FramesAssumption
      <3>2. CASE j # k
        <4>1. Off(x, j)
          BY <1>7, <2>2, <3>2 DEF Off
        <4>2. WireInv(j)
          BY DEF IInv
        <4> QED
          BY <1>1, <1>2, <1>4, <2>2, <3>2, <4>1, <4>2, NotOn
      <3> QED
        BY <3>1, <3>2
    <2> QED
      BY <2>4, <2>5 DEF IInv
  <1>10. CASE x \notin Peer
    <2>1. x \in Relays
      BY <1>10 DEF Actor
    <2>2. AtLeg(x) /\ Carried(x, 2) /\ Carried(x, 4) /\ leg \in [Relays -> 0 .. 4]
      BY <1>2, <2>1 DEF Control, Types
    <2>3. PICK i \in {2, 4} : leg[x] + 1 = i /\ leg[x] = i - 1 /\ k = Legs[i - 1]
      <3>1. leg[x] \in {1, 3} /\ k = Legs[leg[x]]
        BY <1>1, <1>3, <2>2 DEF AtLeg
      <3>2. CASE leg[x] = 1
        BY <3>1, <3>2
      <3>3. CASE leg[x] = 3
        BY <3>1, <3>3
      <3> QED
        BY <3>1, <3>2, <3>3
    <2>4. PICK out \in Wire : out = Legs[i] /\ From[out] = x /\ out # k
      BY <2>1, <2>3, RelayLegs
    <2>5. PICK d \in Short : d = data[x]
      BY <1>1, <1>2 DEF Ends, Types, ActorTypes, Short
    <2>6. BeginWrite(x, out, d) /\ leg' = [leg EXCEPT ![x] = i]
      BY <1>10, <2>3, <2>4, <2>5 DEF TakeFrame, Forwarded
    <2>7. /\ ActorTypes' /\ OthersSame(x)
          /\ doing'[x] = "write" /\ on'[x] = out /\ data'[x] = Frame(d) /\ body'[x] = d
      BY <1>2, <2>6, BeginWriteSays DEF Types
    <2>8. leg'[x] = i /\ leg' \in [Relays -> 0 .. 4] /\ \A r \in Relays \ {x} : leg'[r] = leg[r]
      BY <2>1, <2>2, <2>6
    <2>9. Types'
      BY <1>6, <2>7, <2>8 DEF Types
    <2>10. got[k] = <<>> /\ sent[out] = <<>>
      <3>1. Carried(x, i) /\ leg[x] < i
        BY <2>2, <2>3
      <3> QED
        BY <2>3, <2>4, <3>1 DEF Carried
    <2>11. Carried(x, 2)' /\ Carried(x, 4)'
      <3>1. got'[k] = <<d>> /\ Len(got'[k]) = 1
        BY <1>4, <2>5, <2>10
      <3>2. Carried(x, i)'
        BY <1>1, <2>3, <2>4, <2>7, <2>8, <2>10, <3>1 DEF Carried
      <3>3. CASE i = 2
        <4>1. got'[Legs[4 - 1]] = got[Legs[4 - 1]]
          BY <1>4, <2>1, <2>3, <3>3, RelayLegs
        <4>2. leg'[x] = 2 /\ leg[x] = 1 /\ Carried(x, 4)
          BY <2>2, <2>3, <2>8, <3>3
        <4>3. Carried(x, 4)'
          BY <1>1, <2>1, <4>1, <4>2, CarriedKept
        <4> QED
          BY <3>2, <3>3, <4>3
      <3>4. CASE i = 4
        <4>1. got'[Legs[2 - 1]] = got[Legs[2 - 1]]
          BY <1>4, <2>1, <2>3, <3>4, RelayLegs
        <4>2. leg'[x] = 4 /\ leg[x] = 3 /\ Carried(x, 2)
          BY <2>2, <2>3, <2>8, <3>4
        <4>3. Carried(x, 2)'
          BY <1>1, <2>1, <4>1, <4>2, CarriedKept
        <4> QED
          BY <3>2, <3>4, <4>3
      <3> QED
        BY <3>3, <3>4
    <2>12. Control'
      <3>1. MineOnly(x)
        BY <1>1, <1>3, <1>4, <2>7, <2>8 DEF MineOnly
      <3>2. ASSUME NEW j \in Wire, From[j] = x PROVE Speaks(j)'
        BY <1>1, <1>2, <2>1, <3>2, TopologyAssumption DEF Speaks, Control
      <3>3. Ends(x)' /\ AtLeg(x)'
        BY <2>4, <2>7, <2>8 DEF Ends, AtLeg
      <3>4. MineHolds(x)
        BY <2>11, <3>2, <3>3 DEF MineHolds
      <3> QED
        BY <1>2, <2>9, <3>1, <3>4, ControlKept
    <2>13. ASSUME NEW j \in Wire PROVE WireInv(j)'
      <3>1. CASE j = k
        BY <1>8, <2>4, <2>7, <3>1
      <3>2. CASE j = out
        <4>1. ReaderSame(out)
          <5>1. CASE To[out] = x
            BY <1>7, <2>4, <2>7, <5>1 DEF ReaderSame
          <5> QED
            BY <2>7, <5>1, ElsewhereSame
        <4>2. WireInv(out) /\ To[out] \in Actor
          BY FramesAssumption DEF IInv
        <4> QED
          BY <1>1, <1>2, <1>4, <1>7, <2>4, <2>7, <2>10, <3>2, <4>1, <4>2, BeginWriteOn
      <3>3. CASE j # k /\ j # out
        <4>1. Off(x, j)
          BY <1>7, <2>7, <3>3 DEF Off
        <4>2. WireInv(j)
          BY DEF IInv
        <4> QED
          BY <1>1, <1>2, <1>4, <2>7, <3>3, <4>1, <4>2, NotOn
      <3> QED
        BY <3>1, <3>2, <3>3
    <2> QED
      BY <2>12, <2>13 DEF IInv
  <1> QED
    BY <1>9, <1>10

\* What write_all does to the wires.
PutWire(x, k) ==
    /\ wire' \in [Wire -> Text]
    /\ ~Closed(To[k]) => /\ wire'[k] = Append(wire[k], Head(data[x]))
                         /\ \A j \in Wire \ {k} : wire'[j] = wire[j]
    /\ Closed(To[k]) => \A j \in Wire : wire'[j] = wire[j] \/ (wire'[j] = <<>> /\ From[j] = To[k])

LEMMA PutWires ==
    ASSUME Types, NEW x \in Actor, NEW k \in Wire, k = on[x], From[k] = x, Put(x)
    PROVE  PutWire(x, k)
  <1>1. /\ doing[x] = "write" /\ data[x] # <<>>
        /\ \E lost \in BOOLEAN :
              wire' = [j \in Wire |->
                          CASE j = k /\ ~Closed(To[k]) -> Append(wire[j], Head(data[x]))
                            [] j = Back(k) /\ Closed(To[k]) /\ lost -> <<>>
                            [] OTHER -> wire[j]]
    BY DEF Put
  <1>2. PICK lost \in BOOLEAN :
              wire' = [j \in Wire |->
                          CASE j = k /\ ~Closed(To[k]) -> Append(wire[j], Head(data[x]))
                            [] j = Back(k) /\ Closed(To[k]) /\ lost -> <<>>
                            [] OTHER -> wire[j]]
    BY <1>1
  <1>3. From[Back(k)] = To[k] /\ To[Back(k)] = From[k]
    <2>1. \E j \in Wire : From[j] = To[k] /\ To[j] = From[k]
      BY TopologyAssumption
    <2> QED
      BY <2>1 DEF Back
  <1>4. Append(wire[k], Head(data[x])) \in Text
    <2>1. wire[k] \in Seq(Byte) /\ data[x] \in Seq(Byte)
      BY DEF Types, ActorTypes, WireTypes, Text
    <2>2. Head(data[x]) \in Byte
      BY <1>1, <2>1
    <2> QED
      BY <2>1, <2>2 DEF Text
  <1>5. CASE ~Closed(To[k])
    <2>1. wire' = [j \in Wire |-> IF j = k THEN Append(wire[j], Head(data[x])) ELSE wire[j]]
      BY <1>2, <1>5
    <2>2. wire' \in [Wire -> Text]
      BY <1>4, <2>1 DEF Types, WireTypes
    <2> QED
      BY <1>5, <2>1, <2>2 DEF PutWire
  <1>6. CASE Closed(To[k])
    <2>1. ASSUME NEW j \in Wire
          PROVE  wire'[j] = wire[j] \/ (wire'[j] = <<>> /\ From[j] = To[k])
      <3>1. CASE j = Back(k) /\ lost
        BY <1>2, <1>3, <1>6, <3>1
      <3>2. CASE ~(j = Back(k) /\ lost)
        BY <1>2, <1>6, <3>2
      <3> QED
        BY <3>1, <3>2
    <2>2. wire' \in [Wire -> Text]
      <3>1. DOMAIN wire' = Wire /\ wire' = [j \in Wire |-> wire'[j]]
        BY <1>2
      <3>2. \A j \in Wire : wire[j] \in Text
        BY DEF Types, WireTypes
      <3>3. \A j \in Wire : wire'[j] \in Text
        BY <2>1, <3>2, EmptyText
      <3> QED
        BY <3>1, <3>3
    <2> QED
      BY <1>6, <2>1, <2>2 DEF PutWire
  <1> QED
    BY <1>5, <1>6

\* What it does to what is left, and to what was sent.
PutSent(x, k) ==
    /\ data'[x] \in Text /\ (Len(data[x]) = 1 <=> data'[x] = <<>>)
    /\ sent'[k] \in Seq(Short)
    /\ Len(data[x]) = 1 => sent'[k] = Append(sent[k], body[x])
    /\ Len(data[x]) # 1 => sent'[k] = sent[k]
    /\ \A j \in Wire \ {k} : sent'[j] = sent[j]

LEMMA LastByte ==
    ASSUME NEW S, NEW s \in Seq(S), s # <<>>
    PROVE  Tail(s) \in Seq(S) /\ (Len(s) = 1 <=> Tail(s) = <<>>)
  <1>1. Tail(s) \in Seq(S) /\ Len(Tail(s)) = Len(s) - 1 /\ Len(s) \in Nat
    OBVIOUS
  <1>2. ASSUME Len(s) = 1 PROVE Tail(s) = <<>>
    <2>1. Len(Tail(s)) = 0
      BY <1>1, <1>2
    <2> QED
      BY <1>1, <2>1, NoLength
  <1>3. ASSUME Tail(s) = <<>> PROVE Len(s) = 1
    <2>1. Len(Tail(s)) = 0
      BY <1>3, EmptyLength
    <2>2. PICK n \in Nat : n = Len(s)
      BY <1>1
    <2>3. n - 1 = 0
      BY <1>1, <2>1, <2>2
    <2>4. n = 1
      BY <2>3
    <2> QED
      BY <2>2, <2>4
  <1> QED
    BY <1>1, <1>2, <1>3

LEMMA LastCount == ASSUME NEW a \in Nat, NEW b, a + 1 = b PROVE a = 0 <=> b = 1
  OBVIOUS

LEMMA PutSends ==
    ASSUME Types, NEW x \in Actor, NEW k \in Wire, k = on[x], Put(x)
    PROVE  PutSent(x, k) /\ data'[x] = Tail(data[x]) /\ sent' \in [Wire -> Seq(Short)]
  <1>1. /\ data[x] # <<>> /\ data' = [data EXCEPT ![x] = Tail(@)]
        /\ sent' = IF Len(data[x]) = 1 THEN [sent EXCEPT ![k] = Append(@, body[x])] ELSE sent
    BY DEF Put
  <1>2. data[x] \in Seq(Byte) /\ data'[x] = Tail(data[x]) /\ body[x] \in Short
    BY <1>1 DEF Types, ActorTypes, Text
  <1>3. data'[x] \in Text /\ (Len(data[x]) = 1 <=> data'[x] = <<>>)
    <2>1. Tail(data[x]) \in Seq(Byte) /\ (Len(data[x]) = 1 <=> Tail(data[x]) = <<>>)
      BY <1>1, <1>2, LastByte
    <2> QED
      BY <1>2, <2>1 DEF Text
  <1>4. sent \in [Wire -> Seq(Short)]
    BY DEF Types, WireTypes
  <1>5. CASE Len(data[x]) = 1
    <2>1. sent' = [sent EXCEPT ![k] = Append(@, body[x])]
      BY <1>1, <1>5
    <2>2. Append(sent[k], body[x]) \in Seq(Short)
      BY <1>2, <1>4
    <2> QED
      BY <1>2, <1>3, <1>4, <1>5, <2>1, <2>2 DEF PutSent
  <1>6. CASE Len(data[x]) # 1
    BY <1>1, <1>2, <1>3, <1>4, <1>6 DEF PutSent
  <1> QED
    BY <1>5, <1>6

LEMMA PutByte ==
    ASSUME Types, NEW k \in Wire, From[k] \in Actor, data[From[k]] # <<>>,
           ~Closed(To[k]), PutWire(From[k], k), PutSent(From[k], k),
           data'[From[k]] = Tail(data[From[k]])
    PROVE  \E l \in Nat, rest \in Nat, N \in Nat : PutsByte(k, l, rest, N)
  <1> DEFINE x == From[k]
  <1>1. data[x] \in Seq(Byte) /\ wire[k] \in Seq(Byte) /\ sent[k] \in Seq(Short) /\ body[x] \in Short
    BY DEF Types, ActorTypes, WireTypes, Text
  <1>2. PICK rest \in Nat : rest + 1 = Len(data[x])
    <2>1. Len(data[x]) \in Nat /\ Len(data[x]) # 0
      BY <1>1, NoLength
    <2>2. Len(data[x]) - 1 \in Nat /\ (Len(data[x]) - 1) + 1 = Len(data[x])
      BY <2>1
    <2> QED
      BY <2>2
  <1>3. PICK l \in Nat, N \in Nat : l = Len(wire[k]) /\ N = Len(sent[k])
    BY <1>1
  <1>4. Len(wire'[k]) = l + 1 /\ Grown(wire[k], l, wire'[k], data[x][1])
    <2>1. data[x][1] \in Byte /\ Head(data[x]) = data[x][1]
      BY <1>1, NoLength
    <2>2. wire'[k] = Append(wire[k], data[x][1])
      BY <2>1 DEF PutWire
    <2> QED
      BY <1>1, <1>3, <2>1, <2>2 DEF Grown
  <1>5. Len(data'[x]) = rest /\ \A j \in 1 .. rest : data'[x][j] = data[x][j + 1]
    <2>1. data[x] # <<>>
      OBVIOUS
    <2>2. /\ Len(Tail(data[x])) = Len(data[x]) - 1
          /\ \A j \in 1 .. Len(data[x]) - 1 : Tail(data[x])[j] = data[x][j + 1]
      BY <1>1, <2>1
    <2>3. Len(data[x]) - 1 = rest
      BY <1>2
    <2> QED
      BY <2>2, <2>3
  <1>6. rest = 0 <=> Len(data[x]) = 1
    BY <1>2, LastCount
  <1>7. data'[x] = <<>> <=> rest = 0
    BY <1>6 DEF PutSent
  <1>8. rest # 0 => sent'[k] = sent[k]
    BY <1>6 DEF PutSent
  <1>9. ASSUME rest = 0
        PROVE  /\ Len(sent'[k]) = N + 1 /\ sent'[k][N + 1] = body[x]
               /\ \A i \in 1 .. N : sent'[k][i] = sent[k][i]
    <2>1. sent'[k] = Append(sent[k], body[x])
      BY <1>6, <1>9 DEF PutSent
    <2> QED
      BY <1>1, <1>3, <2>1
  <1>10. PutsByte(k, l, rest, N)
    BY <1>2, <1>3, <1>4, <1>5, <1>7, <1>8, <1>9 DEF PutsByte
  <1> QED
    BY <1>10

LEMMA PutControl ==
    ASSUME IInv, NEW x \in Actor, Put(x), NEW k \in Wire, k = on[x], From[k] = x,
           PutWire(x, k), PutSent(x, k), OthersSame(x), Types'
    PROVE  Control' /\ (x \in Relays => sent[k] = <<>>)
  <1>1. /\ doing[x] = "write" /\ data[x] # <<>>
        /\ doing' = doing /\ on' = on /\ body' = body /\ leg' = leg /\ got' = got
    BY DEF Put
  <1>2. Control /\ Types /\ body[x] \in Short
    BY DEF IInv, Control, Types, ActorTypes
  <1>3. sent'[k] = sent[k] \/ (data'[x] = <<>> /\ sent'[k] = Append(sent[k], body[x]))
    BY DEF PutSent
  <1>4. MineOnly(x)
    BY <1>1 DEF MineOnly, PutSent
  <1>5. Ends(x)'
    BY <1>1 DEF Ends
  <1>6. CASE x \in Peer
    <2>1. x \notin Relays
      BY <1>6, TopologyAssumption
    <2>2. ASSUME NEW j \in Wire, From[j] = x PROVE Speaks(j)'
      <3>1. Speaks(j)
        BY <1>2 DEF Control
      <3>2. CASE j # k
        BY <1>1, <2>1, <2>2, <3>1, <3>2 DEF Speaks, PutSent
      <3>3. CASE j = k
        <4>1. sent[k] \in Seq(Bodies) /\ body[x] \in Bodies
          BY <1>1, <1>6, <2>2, <3>1, <3>3 DEF Speaks
        <4>2. sent'[k] \in Seq(Bodies)
          BY <1>3, <4>1, Appended
        <4> QED
          BY <1>1, <2>1, <2>2, <3>3, <4>1, <4>2 DEF Speaks
      <3> QED
        BY <3>2, <3>3
    <2>3. MineHolds(x)
      BY <1>5, <2>1, <2>2 DEF MineHolds
    <2> QED
      BY <1>2, <1>4, <2>1, <2>3, ControlKept
  <1>7. CASE x \notin Peer
    <2>1. x \in Relays
      BY <1>7 DEF Actor
    <2>2. AtLeg(x) /\ Carried(x, 2) /\ Carried(x, 4)
      BY <1>2, <2>1 DEF Control
    <2>3. PICK i \in {2, 4} : leg[x] = i /\ k = Legs[i]
      BY <1>1, <2>2 DEF AtLeg
    <2>4. got[Legs[i - 1]] = <<body[x]>> /\ sent[k] = <<>>
      BY <1>1, <2>2, <2>3 DEF Carried
    <2>5. sent'[k] = <<>> \/ (data'[x] = <<>> /\ sent'[k] = <<body[x]>>)
      BY <1>3, <2>4
    <2>6. ASSUME NEW j \in {2, 4} PROVE Carried(x, j)'
      <3>1. CASE j = i
        <4>1. got'[Legs[j - 1]] = <<body'[x]>> /\ leg'[x] = j /\ sent'[k] = sent'[Legs[j]]
          BY <1>1, <2>3, <2>4, <3>1
        <4>2. Len(got'[Legs[j - 1]]) <= 1
          BY <4>1
        <4>3. data'[x] # <<>> => sent'[Legs[j]] = <<>>
          BY <2>5, <4>1
        <4>4. sent'[Legs[j]] = <<>> \/ sent'[Legs[j]] = got'[Legs[j - 1]]
          BY <1>1, <2>5, <4>1
        <4>5. ~(leg'[x] < j)
          BY <4>1
        <4> QED
          BY <4>1, <4>2, <4>3, <4>4, <4>5 DEF Carried
      <3>2. CASE j # i
        <4>1. Legs[j] # k /\ Legs[j] \in Wire
          BY <2>1, <2>3, <3>2, RelayLegs
        <4>2. sent'[Legs[j]] = sent[Legs[j]]
          BY <4>1 DEF PutSent
        <4>3. /\ leg'[x] = i /\ leg[x] = i
              /\ got'[Legs[j - 1]] = got[Legs[j - 1]]
          BY <1>1, <2>3
        <4>4. Carried(x, j)
          BY <2>2
        <4>5. /\ leg[x] < j => got[Legs[j - 1]] = <<>> /\ sent[Legs[j]] = <<>>
              /\ sent[Legs[j]] = <<>> \/ sent[Legs[j]] = got[Legs[j - 1]]
              /\ Len(got[Legs[j - 1]]) <= 1
          BY <4>4 DEF Carried
        <4> QED
          BY <3>2, <4>2, <4>3, <4>5 DEF Carried
      <3> QED
        BY <3>1, <3>2
    <2>7. ASSUME NEW j \in Wire, From[j] = x PROVE Speaks(j)'
      <3>1. Speaks(j) /\ From[j] \notin Peer
        BY <1>2, <1>7, <2>7 DEF Control
      <3>2. CASE j # k
        BY <3>1, <3>2 DEF Speaks, PutSent
      <3>3. CASE j = k
        <4>1. Len(sent'[k]) <= 1
          BY <2>5, OneLength
        <4> QED
          BY <3>1, <3>3, <4>1 DEF Speaks
      <3> QED
        BY <3>2, <3>3
    <2>8. AtLeg(x)'
      BY <1>1, <2>2 DEF AtLeg
    <2>9. MineHolds(x)
      BY <1>5, <2>6, <2>7, <2>8 DEF MineHolds
    <2> QED
      BY <1>2, <1>4, <2>4, <2>9, ControlKept
  <1> QED
    BY <1>6, <1>7

LEMMA PutKeeps ==
    ASSUME IInv, NEW x \in Actor, Put(x) PROVE IInv'
  <1>1. /\ doing[x] = "write" /\ data[x] # <<>>
        /\ doing' = doing /\ on' = on /\ body' = body /\ need' = need /\ leg' = leg
        /\ got' = got /\ torn' = torn /\ data' = [data EXCEPT ![x] = Tail(@)]
    BY DEF Put
  <1>2. Control /\ Types /\ Ends(x)
    BY DEF IInv, Control
  <1>3. PICK k \in Wire : k = on[x] /\ From[k] = x
    BY <1>1, <1>2 DEF Ends
  <1>4. PutWire(x, k)
    BY <1>2, <1>3, PutWires
  <1>5. PutSent(x, k) /\ data'[x] = Tail(data[x]) /\ sent' \in [Wire -> Seq(Short)]
    BY <1>2, <1>3, PutSends
  <1>6. OthersSame(x)
    BY <1>1, <1>2 DEF OthersSame, Types, ActorTypes
  <1>7. Types'
    <2>1. data' \in [Actor -> Text]
      BY <1>1, <1>2, <1>5 DEF PutSent, Types, ActorTypes
    <2>2. wire' \in [Wire -> Text]
      BY <1>4 DEF PutWire
    <2> QED
      BY <1>1, <1>2, <1>5, <2>1, <2>2 DEF Types, ActorTypes, WireTypes
  <1>8. Control' /\ (x \in Relays => sent[k] = <<>>)
    BY <1>3, <1>4, <1>5, <1>6, <1>7, PutControl
  <1>9. Puts(x, k) /\ WireInv(k)
    BY <1>1, <1>3 DEF Puts, IInv
  <1>10. CASE ~Closed(To[k])
    <2>1. PICK l \in Nat, rest \in Nat, N \in Nat : PutsByte(k, l, rest, N)
      BY <1>1, <1>2, <1>3, <1>4, <1>5, <1>10, PutByte
    <2>2. ReaderSame(k)
      <3>1. doing'[x] # "closed" /\ doing'[x] = "write"
        BY <1>1
      <3> QED
        BY <1>1, <1>3, <1>6, <3>1, OtherEnd
    <2>3. body'[x] = body[x] /\ doing'[x] = "write" /\ on'[x] = k
      BY <1>1, <1>3
    <2>4. WireInv(k)'
      BY <1>1, <1>2, <1>3, <1>8, <1>9, <1>10, <2>1, <2>2, <2>3, PutOn
    <2>5. \A j \in Wire \ {k} : got'[j] = got[j] /\ sent'[j] = sent[j] /\ wire'[j] = wire[j]
      BY <1>1, <1>4, <1>5, <1>10 DEF PutWire, PutSent
    <2> QED
      BY <1>1, <1>3, <1>6, <1>8, <2>4, <2>5, OneWire DEF Busy
  <1>11. CASE Closed(To[k])
    <2>1. ASSUME NEW j \in Wire PROVE WireInv(j)'
      <3>1. CASE j = k
        <4>1. doing'[To[k]] = "closed"
          BY <1>1, <1>11 DEF Closed
        <4>2. sent'[k] = sent[k] \/ \E d : sent'[k] = Append(sent[k], d)
          BY <1>5 DEF PutSent
        <4> QED
          BY <1>1, <1>2, <1>9, <3>1, <4>1, <4>2, PutLostOn
      <3>2. CASE j # k
        <4>1. Off(x, j)
          BY <1>1, <1>3, <3>2 DEF Off, Puts, Reads, Closed
        <4>2. WriterSame(j) /\ ReaderSame(j)
          BY <1>6, <4>1, OffSame
        <4>3. WireSame(j)
          BY <1>1, <1>4, <1>11 DEF PutWire, WireSame, Closed
        <4>4. WireInv(j) /\ sent'[j] = sent[j]
          BY <1>5, <3>2 DEF IInv, PutSent
        <4> QED
          BY <1>1, <1>2, <4>2, <4>3, <4>4, Quiet
      <3> QED
        BY <3>1, <3>2
    <2> QED
      BY <1>8, <2>1 DEF IInv
  <1> QED
    BY <1>10, <1>11

-----------------------------------------------------------------------------
(* The theorems.                                                           *)

\* Nothing has been written, and nothing is on the wires.
LEMMA InitHolds == Init => IInv
  <1> SUFFICES ASSUME Init PROVE IInv
    OBVIOUS
  <1>1. Types
    <2>1. \A S : <<>> \in Seq(S)
      OBVIOUS
    <2> QED
      BY <2>1, EmptyText DEF Init, Types, ActorTypes, WireTypes
  <1>2. ASSUME NEW x \in Actor PROVE doing[x] = "idle" /\ Ends(x)
    BY DEF Init, Ends
  <1>3. ASSUME NEW r \in Relays PROVE AtLeg(r) /\ Carried(r, 2) /\ Carried(r, 4)
    <2>1. doing[r] = "idle" /\ leg[r] = 0
      BY RelayLegs DEF Init
    <2>2. \A k \in Wire : got[k] = <<>> /\ sent[k] = <<>>
      BY DEF Init
    <2>3. \A i \in {2, 4} : Legs[i] \in Wire /\ Legs[i - 1] \in Wire
      BY RelayLegs
    <2>4. \A s : s = <<>> => Len(s) <= 1
      BY OneLength
    <2>5. \A i \in {2, 4} : Carried(r, i)
      BY <2>1, <2>2, <2>3, <2>4 DEF Carried
    <2> QED
      BY <2>1, <2>5 DEF AtLeg
  <1>4. ASSUME NEW k \in Wire PROVE Speaks(k)
    <2>1. From[k] \in Actor /\ sent[k] = <<>> /\ <<>> \in Seq(Bodies)
      BY FramesAssumption DEF Init
    <2>2. doing[From[k]] = "idle"
      BY <1>2, <2>1
    <2> QED
      BY <2>1, <2>2, OneLength DEF Speaks
  <1>5. ASSUME NEW k \in Wire PROVE WireInv(k)
    <2>1. PICK d \in Short : TRUE
      BY EmptyText
    <2>2. PICK frames \in [Nat -> Short] : frames = [i \in Nat |-> d]
      OBVIOUS
    <2>3. PICK start \in [Nat -> Int] : start = [i \in Nat |-> 0]
      <3>1. [i \in Nat |-> 0] \in [Nat -> Int]
        OBVIOUS
      <3> QED
        BY <3>1
    <2>4. From[k] \in Actor /\ To[k] \in Actor
      BY FramesAssumption
    <2>5. doing[From[k]] = "idle" /\ doing[To[k]] = "idle"
      BY <1>2, <2>4
    <2>6. /\ Len(got[k]) = 0 /\ Len(sent[k]) = 0 /\ Len(wire[k]) = 0
          /\ sent[k] = <<>>
      BY EmptyLength DEF Init
    <2>7. PICK bytes, size : bytes = Bytes(frames) /\ size = Sizes(frames)
      OBVIOUS
    <2>8. size \in [Nat -> Nat \ {0}] /\ start[0 + 1] = 0
      BY <2>3, <2>7, SizesNat
    <2>9. Layout(wire[k], 0, 0, 0, bytes, size, start)
      <3>1. (\A i : i \notin 0 + 1 .. 0) /\ (\A i \in 0 + 1 .. 0 + 1 : i = 1)
        OBVIOUS
      <3> QED
        BY <2>8, <3>1 DEF Layout
    <2>10. 0 < size[0 + 1] /\ 0 = start[0 + 1] + 0 /\ 0 <= start[0 + 1] + 0
      BY <2>8
    <2>11. Laid(k, frames, start, 0)
      <3>1. \A i : i \notin 1 .. 0
        OBVIOUS
      <3> QED
        BY <2>6, <2>7, <2>9, <2>10, <3>1 DEF Laid
    <2>12. Writer(k, frames, 0)
      BY <2>5 DEF Writer, Puts
    <2>13. Reader(k, frames, start)
      BY <2>5, <2>6, <2>8 DEF Reader, Reads
    <2>14. Flowing(k)
      BY <2>11, <2>12, <2>13 DEF Flows, Flowing
    <2>15. Prefix(k)
      <3>1. \A i : i \notin 1 .. 0
        OBVIOUS
      <3>2. 0 <= 0
        OBVIOUS
      <3> QED
        BY <2>6, <3>1, <3>2 DEF Prefix
    <2> QED
      BY <2>14, <2>15 DEF WireInv
  <1> QED
    BY <1>1, <1>2, <1>3, <1>4, <1>5 DEF IInv, Control

LEMMA StutterHolds == IInv /\ UNCHANGED vars => IInv'
  <1> SUFFICES ASSUME IInv, UNCHANGED vars PROVE IInv'
    OBVIOUS
  <1>1. Control'
    BY DEF IInv, Control, Types, ActorTypes, WireTypes, Ends, AtLeg, Carried, Speaks, vars
  <1>2. ASSUME NEW k \in Wire PROVE WireInv(k)'
    <2>1. WriterSame(k) /\ ReaderSame(k) /\ WireSame(k)
      BY DEF WriterSame, ReaderSame, WireSame, Puts, Reads, Closed, vars
    <2>2. got'[k] = got[k] /\ sent'[k] = sent[k] /\ torn'[k] = torn[k]
      BY DEF vars
    <2> QED
      BY <2>1, <2>2, Quiet DEF IInv, Control
  <1> QED
    BY <1>1, <1>2 DEF IInv

LEMMA StepHolds ==
    ASSUME IInv, NEW x \in Actor, Step(x) \/ Kill(x) PROVE IInv'
  <1>1. CASE Put(x)
    BY <1>1, PutKeeps
  <1>2. CASE Wrote(x)
    BY <1>2, WroteKeeps
  <1>3. CASE WriteFails(x)
    BY <1>3, WriteFailsKeeps
  <1>4. CASE Take(x)
    BY <1>4, TakeKeeps
  <1>5. CASE Headed(x)
    BY <1>5, HeadedKeeps
  <1>6. CASE TooLong(x)
    BY <1>6, TooLongKeeps
  <1>7. CASE TakeFrame(x)
    BY <1>7, TakeFrameKeeps
  <1>8. CASE Refuse(x)
    BY <1>8, RefuseKeeps
  <1>9. CASE ReadFails(x)
    BY <1>9, ReadFailsKeeps
  <1>10. CASE Kill(x)
    BY <1>10, DropsKeep DEF Kill
  <1> QED
    BY <1>1, <1>2, <1>3, <1>4, <1>5, <1>6, <1>7, <1>8, <1>9, <1>10 DEF Step

LEMMA NextHolds == IInv /\ Next => IInv'
  <1> SUFFICES ASSUME IInv, Next PROVE IInv'
    OBVIOUS
  <1>1. CASE \E x \in Actor : Step(x) \/ Kill(x)
    BY <1>1, StepHolds
  <1>2. CASE \E x \in Peer, k \in Wire : RecvStream(x, k)
    BY <1>2, RecvStreamKeeps
  <1>3. CASE \E x \in Peer, k \in Wire, m \in Msg : SendStream(x, k, m)
    BY <1>3, SendStreamKeeps
  <1>4. CASE \E x \in Peer : Close(x)
    BY <1>4, DropsKeep DEF Close, Actor
  <1>5. CASE \E w \in Relays : Relay(w)
    BY <1>5, RelayKeeps
  <1> QED
    BY <1>1, <1>2, <1>3, <1>4, <1>5 DEF Next

LEMMA Invariance == Spec => []IInv
  <1>1. IInv /\ [Next]_vars => IInv'
    BY NextHolds, StutterHolds
  <1> QED
    BY <1>1, InitHolds, PTL DEF Spec

\* A sequence whose elements are the first of another's is its prefix.
LEMMA PrefixIs ==
    ASSUME NEW S, NEW s \in Seq(S), NEW t \in Seq(S), Len(s) <= Len(t),
           \A i \in 1 .. Len(s) : s[i] = t[i]
    PROVE  IsPrefix(s, t)
  <1>1. SubSeq(s, 1, Len(s)) = SubSeq(t, 1, Len(s))
    OBVIOUS
  <1> QED
    BY <1>1 DEF IsPrefix

\* The frames read from a stream are those written on it, in order, each once,
\* while no word failed inside a frame: whatever the sizes of the messages and
\* of the socket buffer, and however the bytes were moved.
THEOREM InOrderTheorem == Spec => []InOrder
  <1>1. IInv => InOrder
    <2> SUFFICES ASSUME IInv, NEW k \in Wire, ~torn[k] PROVE IsPrefix(got[k], sent[k])
      BY DEF InOrder
    <2>1. Prefix(k)
      BY DEF IInv, WireInv
    <2>2. Seq(Short) \subseteq Seq(Text)
      BY DEF Short
    <2>3. got[k] \in Seq(Text) /\ sent[k] \in Seq(Text)
      BY <2>2 DEF IInv, Control, Types, WireTypes
    <2> QED
      BY <2>1, <2>3, PrefixIs DEF Prefix
  <1> QED
    BY <1>1, Invariance, PTL

LEMMA CarriedOn ==
    ASSUME IInv, NEW r \in Relays, NEW i \in {2, 4}, ~torn[Legs[i - 1]], ~torn[Legs[i]]
    PROVE  IsPrefix(got[Legs[i]], sent[Legs[i - 1]]) /\ Len(got[Legs[i]]) <= 1
  <1>1. PICK in \in Wire, out \in Wire : in = Legs[i - 1] /\ out = Legs[i]
    BY RelayLegs
  <1>2. Prefix(in) /\ Prefix(out)
    BY <1>1 DEF IInv, WireInv
  <1>3. Carried(r, i)
    BY DEF IInv, Control
  <1>4. (sent[out] = <<>> \/ sent[out] = got[in]) /\ Len(got[in]) <= 1
    BY <1>1, <1>3 DEF Carried
  <1>5. Seq(Short) \subseteq Seq(Text)
    BY DEF Short
  <1>6. /\ got[in] \in Seq(Text) /\ sent[in] \in Seq(Text) /\ got[out] \in Seq(Text)
        /\ sent[out] \in Seq(Text)
    BY <1>5 DEF IInv, Control, Types, WireTypes
  <1>7. PICK p \in Nat, q \in Nat, s \in Nat, t \in Nat :
              p = Len(got[out]) /\ q = Len(sent[out]) /\ s = Len(got[in]) /\ t = Len(sent[in])
    BY <1>6
  <1>8. /\ p <= q /\ \A j \in 1 .. p : got[out][j] = sent[out][j]
        /\ s <= t /\ \A j \in 1 .. s : got[in][j] = sent[in][j]
        /\ s <= 1
    BY <1>2, <1>4, <1>7 DEF Prefix
  <1>9. CASE sent[out] = <<>>
    <2>1. q = 0
      BY <1>7, <1>9, EmptyLength
    <2>2. p = 0 /\ p <= t /\ p <= 1 /\ \A j : j \notin 1 .. p
      BY <1>8, <2>1
    <2> QED
      BY <1>1, <1>6, <1>7, <2>2, PrefixIs
  <1>10. CASE sent[out] = got[in]
    <2>1. q = s
      BY <1>7, <1>10
    <2>2. p <= s /\ p <= t /\ p <= 1 /\ \A j \in 1 .. p : j \in 1 .. s
      BY <1>8, <2>1
    <2>3. \A j \in 1 .. p : got[out][j] = sent[in][j]
      BY <1>8, <1>10, <2>2
    <2> QED
      BY <1>1, <1>6, <1>7, <2>2, <2>3, PrefixIs
  <1> QED
    BY <1>4, <1>9, <1>10

\* What comes out of a relay is what went in, and at most one frame.
THEOREM RelayTheorem ==
    ASSUME NEW r \in Relays
    PROVE  Spec => []RelayInOrder
  <1>1. IInv => RelayInOrder
    <2> SUFFICES ASSUME IInv, NEW i \in {2, 4}, ~torn[Legs[i - 1]], ~torn[Legs[i]]
                 PROVE  IsPrefix(got[Legs[i]], sent[Legs[i - 1]]) /\ Len(got[Legs[i]]) <= 1
      BY DEF RelayInOrder
    <2> QED
      BY CarriedOn
  <1> QED
    BY <1>1, Invariance, PTL
=============================================================================
