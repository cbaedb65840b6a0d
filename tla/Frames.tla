------------------------------ MODULE Frames ------------------------------
(***************************************************************************)
(* The inbound half of a session: a gateway's frames cross TCP as a byte   *)
(* stream that arrives in pieces of any size, and serve() cuts them from   *)
(* InBuf.  A frame is a header of HDR bytes under a rolling key and a      *)
(* payload, boxed under a rolling nonce when the header says "channel".    *)
(* Receiver and sender keep in step by counting: the key advances with     *)
(* each header, the nonce with each boxed payload that opens.              *)
(*                                                                         *)
(* The task that reads also writes: a handler's answer, a notification or  *)
(* a keepalive waits until the gateway takes it, and nothing is cut then.  *)
(*                                                                         *)
(* Bytes are places in the stream: byte x of InBuf is byte Base + x of     *)
(* what the gateway wrote.  Keys and nonces are their numbers in their     *)
(* sequences (feedback and bump_nonce are deterministic).  Cutting at a    *)
(* place where no header starts, or under another key, gives any header.   *)
(***************************************************************************)
EXTENDS Integers, Sequences

CONSTANTS
    Msgs,       \* frames, told apart by what matters here:
    LenOf,      \*   payload length
    Boxed,      \*   those whose payload is boxed on the channel
    Fatal,      \*   those handle_frame refuses (see HandleFrame)
    HDR,        \* Header::SIZE
    MaxLen,     \* longest payload (the length field has 22 bits)
    Chunk,      \* most bytes one read_buf returns
    MaxFrames,  \* bound: frames sent
    NoHeader    \* `pending` is None

ASSUME FramesAssumption ==
    /\ HDR \in Nat \ {0}
    /\ MaxLen \in Nat
    /\ Chunk \in Nat
    /\ MaxFrames \in Nat
    /\ LenOf \in [Msgs -> 0..MaxLen]
    /\ Boxed \subseteq Msgs
    /\ Fatal \subseteq Msgs
    /\ NoHeader \notin Msgs

VARIABLES
    sent,       \* every frame written: what, where, under which key and nonce
    written,    \* bytes written by the gateway
    send_key, send_nonce,
    arrived,    \* bytes that have come out of the socket
    data_len,   \* InBuf::data.len()
    pos,        \* InBuf::pos
    header,     \* the header whose payload is not complete yet, or NoHeader
    recv_key, recv_nonce,
    phase,      \* in select!, cutting frames, in a write of a handler's or of
                \* the loop's own, or ended
    handled     \* history: frames handed to their handlers

gateway == <<sent, written, send_key, send_nonce>>
inbuf == <<arrived, data_len, pos>>
streamVars == <<gateway, inbuf, header, recv_key, recv_nonce, phase, handled>>

Sent == [msg : Msgs, at : Nat, key : Nat, nonce : Nat]

StreamTypeOK ==
    /\ sent \in Seq(Sent)
    /\ written \in Nat /\ arrived \in 0..written
    /\ send_key \in Nat /\ send_nonce \in Nat
    /\ data_len \in 0..arrived
    /\ pos \in 0..data_len
    /\ header \in Msgs \cup {NoHeader}
    /\ recv_key \in Nat /\ recv_nonce \in Nat
    /\ phase \in {"select", "cut", "reply", "send", "ended"}
    /\ handled \in Seq(Msgs)

\* The hello has been answered: KeyStream::from_seed and session_nonces give
\* both sides the same start.
StreamInit ==
    /\ sent = << >> /\ written = 0
    /\ send_key = 0 /\ send_nonce = 0
    /\ arrived = 0 /\ data_len = 0 /\ pos = 0
    /\ header = NoHeader
    /\ recv_key = 0 /\ recv_nonce = 0
    /\ phase = "select"
    /\ handled = << >>

Bump(m, n) == IF m \in Boxed THEN n + 1 ELSE n

\* The gateway (external) writes a frame.
Send(m) ==
    /\ Len(sent) < MaxFrames
    /\ sent' = Append(sent, [msg |-> m, at |-> written, key |-> send_key,
                             nonce |-> send_nonce])
    /\ written' = written + HDR + LenOf[m]
    /\ send_key' = send_key + 1
    /\ send_nonce' = Bump(m, send_nonce)
    /\ UNCHANGED <<inbuf, header, recv_key, recv_nonce, phase, handled>>

-----------------------------------------------------------------------------
(* InBuf *)

\* Where in the stream the next byte to be cut stands.
Offset == arrived - data_len + pos

\* Mutant of Drained: room is made only when nothing is left over.
DrainedWhenEmpty == IF pos > 0 /\ pos >= data_len THEN pos ELSE 0

\* Bytes make_room drops from the front.
Drained == IF pos > 0 /\ pos >= data_len \div 2 THEN pos ELSE 0

Unread == data_len - pos

\* make_room, then read_buf returns the next n bytes of the stream.
Read(n) ==
    /\ phase = "select"
    /\ n <= written - arrived
    /\ arrived' = arrived + n
    /\ data_len' = data_len - Drained + n
    /\ pos' = pos - Drained
    /\ phase' = "cut"
    /\ UNCHANGED <<gateway, header, recv_key, recv_nonce, handled>>

\* What Header::decode makes of the bytes at o under key k.
Decoded(o, k) ==
    LET there == {i \in DOMAIN sent : sent[i].at = o /\ sent[i].key = k}
    IN  IF there = {} THEN Msgs ELSE {sent[i].msg : i \in there}

\* Mutant of CutHeader: a header is decoded again with the next read (its
\* bytes are not there any more).
CutHeaderForgets ==
    /\ phase = "cut"
    /\ header = NoHeader
    /\ IF Unread < HDR
       THEN /\ phase' = "select"
            /\ UNCHANGED <<pos, header, recv_key>>
       ELSE /\ pos' = pos + HDR
            /\ recv_key' = recv_key + 1
            /\ \E m \in Decoded(Offset, recv_key) :
                  IF Unread < HDR + LenOf[m]
                  THEN phase' = "select" /\ UNCHANGED header
                  ELSE header' = m /\ UNCHANGED phase
    /\ UNCHANGED <<gateway, arrived, data_len, recv_nonce, handled>>

\* A header is cut if its bytes are there, and kept in `pending`.
CutHeader ==
    /\ phase = "cut"
    /\ header = NoHeader
    /\ IF Unread < HDR
       THEN /\ phase' = "select"
            /\ UNCHANGED <<pos, header, recv_key>>
       ELSE /\ pos' = pos + HDR
            /\ recv_key' = recv_key + 1
            /\ header' \in Decoded(Offset, recv_key)
            /\ UNCHANGED phase
    /\ UNCHANGED <<gateway, arrived, data_len, recv_nonce, handled>>

\* The payload at o opens under the receiver's nonce: it is that frame's.
Opens(o, m) ==
    \E i \in DOMAIN sent :
        sent[i].at + HDR = o /\ sent[i].msg = m /\ sent[i].nonce = recv_nonce

\* handle_frame: a sealed frame, a box that does not open, a signature that
\* does not verify, a plaintext mining frame and a second hello end the
\* session; everything else goes to its handler, which may write an answer,
\* or is ignored.
HandleFrame(m) ==
    IF m \in Boxed /\ ~Opens(Offset, m)
    THEN phase' = "ended" /\ UNCHANGED <<recv_nonce, handled>>
    ELSE /\ recv_nonce' = Bump(m, recv_nonce)
         /\ IF m \in Fatal
            THEN phase' = "ended" /\ UNCHANGED handled
            ELSE handled' = Append(handled, m) /\ phase' \in {"cut", "reply"}

\* The payload is cut if its bytes are there, and handled.
CutPayload ==
    /\ phase = "cut"
    /\ header # NoHeader
    /\ IF Unread < LenOf[header]
       THEN /\ phase' = "select"
            /\ UNCHANGED <<pos, header, recv_nonce, handled>>
       ELSE /\ pos' = pos + LenOf[header]
            /\ header' = NoHeader
            /\ HandleFrame(header)
    /\ UNCHANGED <<gateway, arrived, data_len, recv_key>>

\* The loop's own writes: a block notification, or the tick's keepalive.
LoopWrites ==
    /\ phase = "select"
    /\ phase' = "send"
    /\ UNCHANGED <<gateway, inbuf, header, recv_key, recv_nonce, handled>>

\* The gateway has taken what write_frame had to send.
Written ==
    /\ phase \in {"reply", "send"}
    /\ phase' = IF phase = "reply" THEN "cut" ELSE "select"
    /\ UNCHANGED <<gateway, inbuf, header, recv_key, recv_nonce, handled>>

\* The connection is lost, the session times out or floods.
End ==
    /\ phase # "ended"
    /\ phase' = "ended"
    /\ UNCHANGED <<gateway, inbuf, header, recv_key, recv_nonce, handled>>

ReadSome == \E n \in 1..Chunk : Read(n)

Cut == CutHeader \/ CutPayload

StreamNext ==
    \/ \E m \in Msgs : Send(m)
    \/ ReadSome \/ Cut \/ LoopWrites \/ Written \/ End

\* TCP delivers what was written while the connection lasts, and select! takes
\* its ready branches in random order, so notifications do not keep bytes
\* waiting for ever; a task with bytes in hand goes on cutting. The gateway
\* owes nothing, not even to take what is written to it.
StreamFairness == SF_streamVars(ReadSome) /\ WF_streamVars(Cut)

StreamSpec == StreamInit /\ [][StreamNext]_streamVars /\ StreamFairness

-----------------------------------------------------------------------------
(* Properties *)

Waiting == [i \in 1..(Len(sent) - Len(handled)) |->
               sent[i + Len(handled)].msg]

Open == IF phase = "ended" THEN "no"
        ELSE IF phase \in {"reply", "send"} THEN "waits" ELSE "yes"

F == INSTANCE Fifo WITH queue <- Waiting, open <- Open

\* However the stream is cut into reads, the session handles the gateway's
\* frames once each, in order and, while it lasts and the gateway takes what
\* is written to it, all of them: no header is read at the wrong place or
\* under the wrong key, no box is opened under the wrong nonce, nothing in
\* InBuf is lost or cut twice. A gateway that sends and does not read stops
\* its own session: handle_frame waits in write_frame without a limit.
ImplementsFifo == F!FifoSpec

\* What InBuf holds stays within twice the longest part not yet complete and
\* one read, however the reads fall ("frames are cut from `inbuf`"): a
\* session's buffer does not grow with its traffic.
BufferBounded ==
    data_len <= 2 * (IF HDR > MaxLen THEN HDR ELSE MaxLen) + Chunk

-----------------------------------------------------------------------------
(* The inductive invariant: the receiver stands at the frame after those
   handled, and its key and nonce are that frame's. *)

\* Frames follow each other without gaps, keys and nonces counting along.
StreamInv ==
    /\ \A i \in DOMAIN sent :
          /\ sent[i].key = i - 1
          /\ sent[i].at + HDR + LenOf[sent[i].msg] =
                IF i = Len(sent) THEN written ELSE sent[i + 1].at
          /\ Bump(sent[i].msg, sent[i].nonce) =
                IF i = Len(sent) THEN send_nonce ELSE sent[i + 1].nonce
    /\ \A i, j \in DOMAIN sent : i < j => sent[i].at < sent[j].at
    /\ \A i \in DOMAIN sent : sent[i].at < written
    /\ send_key = Len(sent)
    /\ sent = << >> => written = 0 /\ send_nonce = 0

\* The frame the receiver is at.
At == Len(handled) + 1

\* Where the next frame starts and which nonce it will use.
StepInv ==
    phase # "ended" =>
        /\ Len(handled) <= Len(sent)
        /\ header = NoHeader =>
              /\ recv_key = Len(handled)
              /\ Offset = IF At <= Len(sent) THEN sent[At].at ELSE written
        /\ header # NoHeader =>
              /\ At <= Len(sent)
              /\ header = sent[At].msg
              /\ recv_key = At
              /\ Offset = sent[At].at + HDR
        /\ recv_nonce = IF At <= Len(sent) THEN sent[At].nonce ELSE send_nonce

\* What was handled is what was sent.
PrefixInv ==
    /\ Len(handled) <= Len(sent)
    /\ \A i \in DOMAIN handled : handled[i] = sent[i].msg

FrameInv == StreamTypeOK /\ StreamInv /\ StepInv /\ PrefixInv
=============================================================================
