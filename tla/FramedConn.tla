------------------------------ MODULE FramedConn ------------------------------
(***************************************************************************)
(* One direction of a FramedConn: goroutines that call SendPacket, the     *)
(* byte stream of the connection, and the goroutine that calls             *)
(* ReceivePacket and Unmarshal in a loop.  SendPacket makes two calls of   *)
(* net.Conn.Write and holds no lock; each Write is indivisible, other      *)
(* writers run between the two.  In the command line client one goroutine  *)
(* writes to a connection; in the relay every handler that routes a packet *)
(* to a client writes to that client's connection.                         *)
(***************************************************************************)
EXTENDS Frames, SequencesExt

CONSTANTS Writers,   \* the goroutines that call SendPacket
          Outgoing,  \* the packets they may send
          MaxSends   \* bound: calls of SendPacket, over all writers

ASSUME FramedConnAssumption == MaxSends \in Nat /\ Outgoing \subseteq Packets

VARIABLES
    link,     \* "up", or "down" once it was closed or reset
    stream,   \* the bytes written and not yet read
    pending,  \* the packet whose length a writer has written, NoPacket if none
    sends,    \* calls of SendPacket so far
    need,     \* the reader: the length it has read, or -1 if it waits for one
    reading,  \* whether the reader is still in its loop
    sent,     \* history: packets whose SendPacket returned nil, in that order
    got       \* history: what Unmarshal made of the frames read, in order

vars == <<link, stream, pending, sends, need, reading, sent, got>>

NoPacket == <<>>

Init ==
    /\ link = "up"
    /\ stream = <<>>
    /\ pending = [w \in Writers |-> NoPacket]
    /\ sends = 0
    /\ need = -1
    /\ reading = TRUE
    /\ sent = <<>>
    /\ got = <<>>

-----------------------------------------------------------------------------
\* Mutated form: only Marshal looks at the size.
WriteLengthAsMarshalled(w) ==
    /\ link = "up" /\ pending[w] = NoPacket /\ sends < MaxSends
    /\ \E p \in Outgoing :
        /\ Len(p.payload) <= SizeLimit
        /\ stream' = stream \o PutUint(Len(Marshal(p)))
        /\ pending' = [pending EXCEPT ![w] = p]
    /\ sends' = sends + 1
    /\ UNCHANGED <<link, need, reading, sent, got>>

\* The first Write of SendPacket, of a packet that Marshal and SendPacket let through.
\* The limit of Marshal is on the payload, that of SendPacket on the whole packet.
WriteLength(w) ==
    /\ link = "up" /\ pending[w] = NoPacket /\ sends < MaxSends
    /\ \E p \in Outgoing :
        /\ Len(p.payload) <= SizeLimit
        /\ Len(Marshal(p)) <= SizeLimit
        /\ stream' = stream \o PutUint(Len(Marshal(p)))
        /\ pending' = [pending EXCEPT ![w] = p]
    /\ sends' = sends + 1
    /\ UNCHANGED <<link, need, reading, sent, got>>

\* Marshal or SendPacket returns an error before anything is written.
Refuse(w) ==
    /\ pending[w] = NoPacket /\ sends < MaxSends
    /\ \/ link = "down"
       \/ \E p \in Outgoing : Len(p.payload) > SizeLimit \/ Len(Marshal(p)) > SizeLimit
    /\ sends' = sends + 1
    /\ UNCHANGED <<link, stream, pending, need, reading, sent, got>>

\* The second Write; SendPacket returns nil.
WritePayload(w) ==
    /\ link = "up" /\ pending[w] # NoPacket
    /\ stream' = stream \o Marshal(pending[w])
    /\ sent' = Append(sent, pending[w])
    /\ pending' = [pending EXCEPT ![w] = NoPacket]
    /\ UNCHANGED <<link, sends, need, reading, got>>

\* The second Write fails: the length is in the stream and its payload is not.
WriteFails(w) ==
    /\ link = "down" /\ pending[w] # NoPacket
    /\ pending' = [pending EXCEPT ![w] = NoPacket]
    /\ UNCHANGED <<link, stream, sends, need, reading, sent, got>>

-----------------------------------------------------------------------------
\* Mutated form: a frame of exactly the limit is refused.
ReadLengthBelowLimit ==
    /\ reading /\ need = -1 /\ Len(stream) >= LengthWidth
    /\ stream' = SubSeq(stream, LengthWidth + 1, Len(stream))
    /\ need' = Uint(SubSeq(stream, 1, LengthWidth))
    /\ reading' = (need' < SizeLimit)
    /\ UNCHANGED <<link, pending, sends, sent, got>>

\* ReceivePacket, the first ReadFull; a length above the limit is an error, which
\* ends the reader's loop.
ReadLength ==
    /\ reading /\ need = -1 /\ Len(stream) >= LengthWidth
    /\ stream' = SubSeq(stream, LengthWidth + 1, Len(stream))
    /\ need' = Uint(SubSeq(stream, 1, LengthWidth))
    /\ reading' = (need' <= SizeLimit)
    /\ UNCHANGED <<link, pending, sends, sent, got>>

\* Mutated form: one Read in place of ReadFull, which takes what is there.
ReadShort ==
    /\ reading /\ need # -1 /\ stream # <<>>
    /\ LET n == IF Len(stream) < need THEN Len(stream) ELSE need
       IN  /\ got' = Append(got, Unmarshal(SubSeq(stream, 1, n)))
           /\ stream' = SubSeq(stream, n + 1, Len(stream))
    /\ need' = -1
    /\ UNCHANGED <<link, pending, sends, reading, sent>>

\* The second ReadFull, and Unmarshal of what was read; the loop goes on when
\* Unmarshal fails.
ReadPayload ==
    /\ reading /\ need # -1 /\ Len(stream) >= need
    /\ got' = Append(got, Unmarshal(SubSeq(stream, 1, need)))
    /\ stream' = SubSeq(stream, need + 1, Len(stream))
    /\ need' = -1
    /\ UNCHANGED <<link, pending, sends, reading, sent>>

\* ReadFull meets the end of the stream too early; the loop ends.
ReadFails ==
    /\ reading /\ link = "down"
    /\ Len(stream) < (IF need = -1 THEN LengthWidth ELSE need)
    /\ reading' = FALSE
    /\ UNCHANGED <<link, stream, pending, sends, need, sent, got>>

-----------------------------------------------------------------------------
\* The Write a goroutine makes next.
NextWrites(w) ==
    IF pending[w] = NoPacket
    THEN {PutUint(n) : n \in MinHeaderSize .. SizeLimit}
    ELSE {Marshal(pending[w])}

\* The connection is closed or lost: of the bytes under way the reader still gets
\* some first part, or all of them and a part of a Write that fails half way.
Sever ==
    /\ link = "up"
    /\ link' = "down"
    /\ \E w \in Writers : \E rest \in NextWrites(w) :
        \E n \in 0 .. Len(stream) + Len(rest) - 1 : stream' = SubSeq(stream \o rest, 1, n)
    /\ UNCHANGED <<pending, sends, need, reading, sent, got>>

Reader == ReadLength \/ ReadPayload \/ ReadFails

Next ==
    \/ \E w \in Writers : WriteLength(w) \/ Refuse(w) \/ WritePayload(w) \/ WriteFails(w)
    \/ Reader
    \/ Sever

Spec == Init /\ [][Next]_vars

\* The reader's goroutine runs when it can; nobody is obliged to send.
FairSpec == Spec /\ WF_vars(Reader)

-----------------------------------------------------------------------------
\* The stream consists of bytes, a length that was read fits its field, SendPacket lets no
\* frame above the limit begin, and ReceivePacket allocates for none (transport.go:50, 72).
TypeOK ==
    /\ link \in {"up", "down"}
    /\ stream \in Seq(Bytes)
    /\ pending \in [Writers -> Outgoing \cup {NoPacket}]
    /\ sends \in 0 .. MaxSends
    /\ need \in -1 .. Power[LengthWidth] - 1
    /\ reading \in BOOLEAN
    /\ sent \in Seq(Outgoing)
    /\ \A w \in Writers : pending[w] # NoPacket => Len(Marshal(pending[w])) <= SizeLimit
    /\ reading => need <= SizeLimit

\* With one writer: the packets Unmarshal hands to the receiver are those SendPacket
\* reported as sent, in that order and unaltered, wherever the connection breaks.
ReceivedAsSent == IsPrefix(got, sent)

\* Whatever was sent on a connection that holds is read, up to the size limit; the
\* reader neither stops before it nor waits for bytes that do not come.
AllReceived ==
    \A n \in 1 .. MaxSends : Len(sent) = n ~> (Len(got) >= n \/ link = "down")

\* transport.go:65, "ReceivePacket reads the 4-byte length header and reads the exact
\* frame payload into memory": every frame that is read is a packet someone sent.
FramesWhole == \A i \in 1 .. Len(got) : got[i] \in Outgoing
=============================================================================
