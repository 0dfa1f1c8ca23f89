------------------------------ MODULE Framing ------------------------------
(***************************************************************************)
(* Marshall: messages over one direction of a socket.  A frame is a header  *)
(* of two bytes, least significant first, and as many bytes of data.  Both   *)
(* ends take whatever part of it the socket gives them at a time.           *)
(***************************************************************************)
EXTENDS Naturals, SequencesExt

CONSTANTS Base,     \* values of a byte
          BUFSIZE,  \* the largest frame
          Tag,      \* bytes that the encryption adds
          Sizes,    \* bound: sizes of messages, the type byte included
          Room,     \* bytes the socket buffers hold
          MaxSent   \* bound: messages

ASSUME FrameAssumption ==
    /\ Base \in Nat \ {0} /\ BUFSIZE \in 1 .. Base * Base - 1
    /\ Tag \in Nat /\ Sizes \subseteq Nat \ {0}
    /\ Room \in Nat \ {0} /\ MaxSent \in Nat

VARIABLES
    written,    \* data of the frames that write() began to send
    unsent,     \* what writeSize and writeData have still to send
    writer,     \* "idle", "busy", or "dead" after an exception
    stream,     \* bytes in the socket buffers
    header,     \* what readSize has received
    data,       \* what readData has received
    reader,     \* "size", "data" or "dead"
    delivered,  \* what read() handed to deserialize
    hungup,     \* the connection is closed
    stopping    \* the termination pipe is readable

frameVars == <<written, unsent, writer, stream, header, data, reader, delivered,
               hungup, stopping>>
output == <<written, unsent, writer>>
input == <<header, data, reader, delivered>>

FrameInit ==
    /\ written = <<>> /\ unsent = <<>> /\ writer = "idle"
    /\ stream = <<>>
    /\ header = <<>> /\ data = <<>> /\ reader = "size" /\ delivered = <<>>
    /\ hungup = FALSE /\ stopping = FALSE
-----------------------------------------------------------------------------
(* Writing *)

Header(size) == <<[digit |-> size % Base], [digit |-> size \div Base]>>

\* The data of the n-th message; it may look like a header.
Data(n, size) == [k \in 1 .. size |-> [msg |-> n, pos |-> k, digit |-> Base - 1]]

\* serialize and encrypt throw when the frame would not fit.
Fits(size) == size <= BUFSIZE /\ size + Tag <= BUFSIZE

WriteMessage(size) ==
    /\ writer = "idle" /\ Len(written) < MaxSent
    /\ IF Fits(size)
       THEN LET frame == Data(Len(written) + 1, size + Tag)
            IN  /\ written' = Append(written, frame)
                /\ unsent' = Header(size + Tag) \o frame
                /\ writer' = "busy"
       ELSE writer' = "dead" /\ UNCHANGED <<written, unsent>>
    /\ UNCHANGED <<stream, input, hungup, stopping>>

\* Mutant: the loop forgets how much it has sent.
Rest_All(bytes, n) == IF n = Len(bytes) THEN <<>> ELSE bytes
Rest(bytes, n) == SubSeq(bytes, n + 1, Len(bytes))

\* send() takes at least one byte, and perhaps not all.
SendSome ==
    /\ writer = "busy" /\ ~hungup
    /\ \E n \in 1 .. Len(unsent) :
        /\ Len(stream) + n <= Room
        /\ stream' = stream \o SubSeq(unsent, 1, n)
        /\ unsent' = Rest(unsent, n)
    /\ writer' = IF unsent' = <<>> THEN "idle" ELSE "busy"
    /\ UNCHANGED <<written, input, hungup, stopping>>

\* send() fails, or select returns for the termination pipe alone.
WriteThrows ==
    /\ writer = "busy"
    /\ hungup \/ (stopping /\ Len(stream) = Room)
    /\ writer' = "dead"
    /\ UNCHANGED <<written, unsent, stream, input, hungup, stopping>>
-----------------------------------------------------------------------------
(* Reading *)

Announced == header[1].digit + Base * header[2].digit

\* recv() in readSize.
ReadSize ==
    /\ reader = "size"
    /\ \E n \in 1 .. 2 - Len(header) :
        /\ n <= Len(stream)
        /\ header' = header \o SubSeq(stream, 1, n)
        /\ stream' = SubSeq(stream, n + 1, Len(stream))
    /\ reader' = IF Len(header') < 2 THEN "size"
                 ELSE IF Announced' > BUFSIZE THEN "dead" ELSE "data"
    /\ UNCHANGED <<output, data, delivered, hungup, stopping>>

\* recv() in readData; the whole frame goes to decrypt and deserialize.
ReadData ==
    /\ reader = "data"
    /\ \E n \in 1 .. Announced - Len(data) :
        /\ n <= Len(stream)
        /\ stream' = SubSeq(stream, n + 1, Len(stream))
        /\ LET got == data \o SubSeq(stream, 1, n)
           IN  IF Len(got) = Announced
               THEN /\ delivered' = Append(delivered, got)
                    /\ header' = <<>> /\ data' = <<>> /\ reader' = "size"
               ELSE data' = got /\ UNCHANGED <<header, reader, delivered>>
    /\ UNCHANGED <<output, hungup, stopping>>

\* recv() returns 0, or select returns for the termination pipe alone.
ReadThrows ==
    /\ reader # "dead" /\ stream = <<>>
    /\ hungup \/ stopping
    /\ reader' = "dead"
    /\ UNCHANGED <<output, stream, header, data, delivered, hungup, stopping>>
-----------------------------------------------------------------------------
Interrupt ==
    \/ ~hungup /\ hungup' = TRUE /\ UNCHANGED stopping
    \/ ~stopping /\ stopping' = TRUE /\ UNCHANGED hungup
Disturb == Interrupt /\ UNCHANGED <<output, stream, input>>

FrameNext ==
    \/ \E size \in Sizes : WriteMessage(size)
    \/ SendSome \/ WriteThrows \/ ReadSize \/ ReadData \/ ReadThrows \/ Disturb
FrameSpec == FrameInit /\ [][FrameNext]_frameVars
-----------------------------------------------------------------------------
(* Properties *)

\* What read() returns are the messages given to write(), whole, in order and
\* none twice, whatever parts send() and recv() move and wherever the
\* connection or the program is interrupted.
DeliveredInOrder == IsPrefix(delivered, written)
=============================================================================
