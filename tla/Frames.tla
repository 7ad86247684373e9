------------------------------- MODULE Frames -------------------------------
(***************************************************************************)
(* Frames on a stream (zown-vm/src/stream.rs): `~s` writes the length of a *)
(* message and then its bytes, `~r` reads one frame, `~w` is a relay that  *)
(* forwards one frame each way and drops both streams.  A write waits      *)
(* while the socket buffer is full, a read while there is nothing to read; *)
(* each wait ends after WAIT (one second), the word fails and the stream   *)
(* stays with the program, which may use it again.  Bytes that a failed    *)
(* word moved stay moved.                                                  *)
(*                                                                         *)
(* A byte is <<n, i>>, byte i of the header of a frame of length n, or     *)
(* <<m, i>>, byte i of message m.  The trace and the wants in front of the *)
(* text are part of the message.                                           *)
(***************************************************************************)
EXTENDS Naturals, Sequences, SequencesExt

CONSTANTS
    Peer,           \* programs with a stream
    Relays,         \* programs in ~w: one, or none
    Wire,           \* the two directions of every stream
    From, To,       \* the ends of each wire
    Legs,           \* what a relay does: <<left in, right out, right in, left out>>
    Msg,            \* messages
    Size,           \* the length of each message
    HeaderBytes,    \* 4 in the code
    Room,           \* bytes a socket buffer holds
    MaxSent,        \* bound: frames begun on each wire
    None            \* no wire

Actor == Peer \cup Relays

ASSUME FramesAssumption ==
    /\ From \in [Wire -> Actor] /\ To \in [Wire -> Actor]
    /\ Size \in [Msg -> Nat \ {0}]
    /\ \E m \in Msg : \A n \in Msg : Size[n] <= Size[m]
    /\ HeaderBytes \in Nat \ {0} /\ Room \in Nat \ {0} /\ MaxSent \in [Wire -> Nat]
    /\ None \notin Wire

\* A stream has two directions; a relay is at one end of both its streams.
ASSUME TopologyAssumption ==
    /\ Peer \cap Relays = {}
    /\ \A k \in Wire : \E j \in Wire : From[j] = To[k] /\ To[j] = From[k]
    /\ \A r \in Relays :
          /\ Legs \in [1 .. 4 -> Wire] /\ \A i, j \in 1 .. 4 : Legs[i] = Legs[j] => i = j
          /\ To[Legs[1]] = r /\ To[Legs[3]] = r
          /\ From[Legs[2]] = r /\ From[Legs[4]] = r

VARIABLES
    doing,      \* where each program is in write_frame or read_frame
    on,         \* the wire it uses
    body,       \* write: the data of the frame
    data,       \* write: bytes still to write; read: bytes read
    need,       \* read: bytes to read
    leg,        \* the leg a relay is on
    wire,       \* bytes on each wire
    begun,      \* frames begun on each wire
    sent,       \* history: the data of the frames written to the last byte
    got,        \* history: the data of the frames that ~r, or ~w, took
    torn        \* history: a word failed on the wire inside a frame

vars == <<doing, on, body, data, need, leg, wire, begun, sent, got, torn>>
words == <<on, body, data, need>>
history == <<begun, sent, got, torn>>

Body(m) == [i \in 1 .. Size[m] |-> <<m, i>>]
Bodies == {Body(m) : m \in Msg}

Longest == CHOOSE n \in {Size[m] : m \in Msg} : \A m \in Msg : Size[m] <= n

\* Mutated form of Header: the length counts the header too.
HeaderCounted(n) == [i \in 1 .. HeaderBytes |-> <<n + HeaderBytes, i>>]

Header(n) == [i \in 1 .. HeaderBytes |-> <<n, i>>]

\* The lengths that bytes in the place of a header may mean: other bytes than
\* a header's may mean any, one past BUF_MAX (here Longest + 1) included.
Lengths(h) ==
    LET exact == {n \in 0 .. Longest + HeaderBytes : \A i \in 1 .. HeaderBytes : h[i] = <<n, i>>}
    IN  IF exact # {} THEN exact ELSE 0 .. Longest + 1

Back(k) == CHOOSE j \in Wire : From[j] = To[k] /\ To[j] = From[k]

Init ==
    /\ doing = [x \in Actor |-> "idle"]
    /\ on = [x \in Actor |-> None]
    /\ body = [x \in Actor |-> <<>>]
    /\ data = [x \in Actor |-> <<>>]
    /\ need = [x \in Actor |-> 0]
    /\ leg = [x \in Relays |-> 0]
    /\ wire = [k \in Wire |-> <<>>]
    /\ begun = [k \in Wire |-> 0]
    /\ sent = [k \in Wire |-> <<>>]
    /\ got = [k \in Wire |-> <<>>]
    /\ torn = [k \in Wire |-> FALSE]

-----------------------------------------------------------------------------
Busy == {"write", "head", "body"}
Closed(x) == doing[x] = "closed"

\* Entry into write_frame(k, d) and into read_frame(k), and the end of a word.
BeginWrite(x, k, d) ==
    /\ doing' = [doing EXCEPT ![x] = "write"]
    /\ on' = [on EXCEPT ![x] = k]
    /\ body' = [body EXCEPT ![x] = d]
    /\ data' = [data EXCEPT ![x] = Header(Len(d)) \o d]
    /\ need' = [need EXCEPT ![x] = 0]
    /\ begun' = [begun EXCEPT ![k] = @ + 1]

BeginRead(x, k) ==
    /\ doing' = [doing EXCEPT ![x] = "head"]
    /\ on' = [on EXCEPT ![x] = k]
    /\ body' = [body EXCEPT ![x] = <<>>]
    /\ data' = [data EXCEPT ![x] = <<>>]
    /\ need' = [need EXCEPT ![x] = HeaderBytes]

Rest(x, where) ==
    /\ doing' = [doing EXCEPT ![x] = where]
    /\ on' = [on EXCEPT ![x] = None]
    /\ body' = [body EXCEPT ![x] = <<>>]
    /\ data' = [data EXCEPT ![x] = <<>>]
    /\ need' = [need EXCEPT ![x] = 0]

\* A stream is dropped: what its reader left is gone.  If it left anything the
\* connection is reset, and what the other side has not read may be gone too.
Dropped(x, k, lost) ==
    IF To[k] = x \/ (lost /\ From[k] = x /\ wire[Back(k)] # <<>>) THEN <<>> ELSE wire[k]

Drop(x) ==
    /\ Rest(x, "closed")
    /\ \E lost \in BOOLEAN : wire' = [k \in Wire |-> Dropped(x, k, lost)]

\* ~s, ~r, and ~w once it has accepted two peers.
SendStream(x, k, m) ==
    /\ doing[x] = "idle" /\ From[k] = x /\ begun[k] < MaxSent[k]
    /\ BeginWrite(x, k, Body(m))
    /\ UNCHANGED <<leg, wire, sent, got, torn>>

RecvStream(x, k) ==
    /\ doing[x] = "idle" /\ To[k] = x
    /\ BeginRead(x, k)
    /\ UNCHANGED <<leg, wire, history>>

Relay(w) ==
    /\ doing[w] = "idle"
    /\ leg' = [leg EXCEPT ![w] = 1]
    /\ BeginRead(w, Legs[1])
    /\ UNCHANGED <<wire, history>>

\* A program drops its stream, or ends.
Close(x) ==
    /\ doing[x] = "idle"
    /\ Drop(x)
    /\ UNCHANGED <<leg, history>>

\* A process is killed inside a word.
Kill(x) ==
    /\ doing[x] \in Busy
    /\ Drop(x)
    /\ UNCHANGED <<leg, history>>

-----------------------------------------------------------------------------
\* write_all: one more byte in the socket buffer.  If the other side has gone
\* the byte is lost and the answer is a reset.
Put(x) ==
    LET k == on[x] IN
    /\ doing[x] = "write" /\ data[x] # <<>> /\ Len(wire[k]) < Room
    /\ \E lost \in BOOLEAN :
          wire' = [j \in Wire |->
                      CASE j = k /\ ~Closed(To[k]) -> Append(wire[j], Head(data[x]))
                        [] j = Back(k) /\ Closed(To[k]) /\ lost -> <<>>
                        [] OTHER -> wire[j]]
    /\ data' = [data EXCEPT ![x] = Tail(@)]
    /\ sent' = IF Len(data[x]) = 1 THEN [sent EXCEPT ![k] = Append(@, body[x])] ELSE sent
    /\ UNCHANGED <<doing, on, body, need, leg, begun, got, torn>>

\* The word returns; a relay goes on with its next leg and drops both streams
\* after the last.
Wrote(x) ==
    /\ doing[x] = "write" /\ data[x] = <<>>
    /\ IF x \in Peer THEN Rest(x, "idle") /\ UNCHANGED <<leg, wire>>
       ELSE IF leg[x] = 4 THEN Drop(x) /\ UNCHANGED leg
       ELSE /\ leg' = [leg EXCEPT ![x] = 3]
            /\ BeginRead(x, Legs[3])
            /\ UNCHANGED wire
    /\ UNCHANGED history

\* A word fails: the stream stays with the program; a relay drops both.
Fails(x) ==
    /\ IF x \in Peer THEN Rest(x, "idle") /\ UNCHANGED wire ELSE Drop(x)
    /\ UNCHANGED <<leg, begun, sent, got>>

Tear(k, inside) == torn' = [torn EXCEPT ![k] = @ \/ inside]

\* The buffer was full for WAIT, or the other side has gone.
WriteFails(x) ==
    /\ doing[x] = "write" /\ data[x] # <<>>
    /\ Len(wire[on[x]]) = Room \/ Closed(To[on[x]])
    /\ Tear(on[x], Len(data[x]) < HeaderBytes + Len(body[x]))
    /\ Fails(x)

-----------------------------------------------------------------------------
\* read_exact: one more byte.
Take(x) ==
    LET k == on[x] IN
    /\ doing[x] \in {"head", "body"} /\ Len(data[x]) < need[x] /\ wire[k] # <<>>
    /\ data' = [data EXCEPT ![x] = Append(@, Head(wire[k]))]
    /\ wire' = [wire EXCEPT ![k] = Tail(@)]
    /\ UNCHANGED <<doing, on, body, need, leg, history>>

\* The header is read and the length is not past BUF_MAX.
Headed(x) ==
    /\ doing[x] = "head" /\ Len(data[x]) = need[x]
    /\ \E n \in Lengths(data[x]) \ {Longest + 1} : need' = [need EXCEPT ![x] = n]
    /\ doing' = [doing EXCEPT ![x] = "body"]
    /\ data' = [data EXCEPT ![x] = <<>>]
    /\ UNCHANGED <<on, body, leg, wire, history>>

TooLong(x) ==
    /\ doing[x] = "head" /\ Len(data[x]) = need[x]
    /\ Longest + 1 \in Lengths(data[x])
    /\ Tear(on[x], TRUE)
    /\ Fails(x)

\* Mutated form of Forwarded: the relay drops the first byte.
ForwardedTail(d) == Tail(d)

\* What a relay writes: the data as it came, not unpacked.
Forwarded(d) == d

\* The frame is read: ~r returns its message, a relay writes it on.
TakeFrame(x) ==
    /\ doing[x] = "body" /\ Len(data[x]) = need[x]
    /\ got' = [got EXCEPT ![on[x]] = Append(@, data[x])]
    /\ IF x \in Peer
       THEN Rest(x, "idle") /\ UNCHANGED <<leg, begun>>
       ELSE /\ leg' = [leg EXCEPT ![x] = @ + 1]
            /\ BeginWrite(x, Legs[leg[x] + 1], Forwarded(data[x]))
    /\ UNCHANGED <<wire, sent, torn>>

\* unpack_frame: bytes that are not a message may be refused.
Refuse(x) ==
    /\ x \in Peer
    /\ doing[x] = "body" /\ Len(data[x]) = need[x] /\ data[x] \notin Bodies
    /\ Rest(x, "idle")
    /\ UNCHANGED <<leg, wire, history>>

\* Mutated form of ReadFails: no read timeout.
ReadWaits(x) ==
    /\ doing[x] \in {"head", "body"} /\ Len(data[x]) < need[x] /\ wire[on[x]] = <<>>
    /\ Closed(From[on[x]])
    /\ Tear(on[x], doing[x] = "body" \/ data[x] # <<>>)
    /\ Fails(x)

\* Nothing came for WAIT, or the other side has gone.
ReadFails(x) ==
    /\ doing[x] \in {"head", "body"} /\ Len(data[x]) < need[x] /\ wire[on[x]] = <<>>
    /\ Tear(on[x], doing[x] = "body" \/ data[x] # <<>>)
    /\ Fails(x)

Step(x) ==
    \/ Put(x) \/ Wrote(x) \/ WriteFails(x)
    \/ Take(x) \/ Headed(x) \/ TooLong(x) \/ TakeFrame(x) \/ Refuse(x) \/ ReadFails(x)

Next ==
    \/ \E x \in Actor : Step(x) \/ Kill(x)
    \/ \E x \in Peer :
          \/ \E k \in Wire : RecvStream(x, k) \/ \E m \in Msg : SendStream(x, k, m)
          \/ Close(x)
    \/ \E w \in Relays : Relay(w)

Spec == Init /\ [][Next]_vars

\* A program inside a word goes on: the operating system schedules it and the
\* socket timeouts end its waits.
FairSpec == Spec /\ \A x \in Actor : WF_vars(Step(x))

-----------------------------------------------------------------------------
(* Properties.                                                             *)

\* Type invariant.
TypeOK ==
    /\ doing \in [Actor -> Busy \cup {"idle", "closed"}]
    /\ \A x \in Actor : (on[x] # None) = (doing[x] \in Busy)
    /\ \A k \in Wire : Len(wire[k]) <= Room /\ torn[k] \in BOOLEAN
    /\ leg \in [Relays -> 0 .. 4]

\* Until a word fails inside a frame, the frames that are read are the frames
\* that were written, each once and in order, however writes and reads were cut
\* into pieces, and a timeout between two frames changes nothing.
InOrder == \A k \in Wire : torn[k] \/ IsPrefix(got[k], sent[k])

\* What comes out of a relay is what went in, and at most one frame.
RelayInOrder ==
    \A leg2 \in {2, 4} :
        LET in == Legs[leg2 - 1]
            out == Legs[leg2]
        IN  torn[in] \/ torn[out] \/ (IsPrefix(got[out], sent[in]) /\ Len(got[out]) <= 1)

\* Every word ends, also when both sides wait for each other to write, or to
\* read.
WordsEnd == \A x \in Actor : doing[x] \in Busy ~> doing[x] \notin Busy

\* What ~r returns is a message that ~s sent (docs/SPEC.md:611, "reads one frame
\* and pushes the string").  After a word failed inside a frame the next ~r on
\* that stream takes message bytes for a length.
ReadsOneFrame == \A k \in Wire : To[k] \in Peer => IsPrefix(got[k], sent[k])
=============================================================================
