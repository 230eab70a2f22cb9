----------------------------- MODULE MsgChannel -----------------------------
(***************************************************************************)
(* Both ends of a connection (class MsgChannel, services/comm.cpp), each   *)
(* of its own release: the exchange of protocol versions, the framing of   *)
(* messages over a byte stream that is cut anywhere, the buffers with      *)
(* their offsets, failing reads and writes, and the error state.           *)
(*                                                                         *)
(* A byte is <<kind, what, position>>.  A number takes Word bytes, a type  *)
(* and every member of a message (module Wire) one; a message is its       *)
(* length, its type and the members that its sender's protocol has.        *)
(***************************************************************************)
EXTENDS Wire

CONSTANTS
    End,                \* the two ends
    Versions,           \* the PROTOCOL_VERSIONs they may be built with
    Script,             \* the messages each has to send, in this order
    Word,               \* bytes of a number (4)
    Cheap,              \* bytes that are cheap to move in a buffer (16)
    Far,                \* an offset from which on a buffer is moved (8192)
    BulkFlush,          \* SendBulkOnly messages wait for this many bytes (4096)
    Faults              \* reads and writes may fail while both ends are there

ASSUME EndAssumption == \E e, o \in End : e # o /\ End = {e, o}
ASSUME VersionAssumption == Versions \subseteq Nat \ {0}
ASSUME ScriptAssumption == Script \in [End -> Seq(MsgTypes)]
ASSUME SizeAssumption ==
    /\ {Cheap, Far, BulkFlush} \subseteq Nat
    /\ Word \in Nat \ {0}
    /\ Cheap >= 2 * Word

VARIABLES
    ch,         \* the channels
    closed,     \* the ends that have deleted their channel
    sent,       \* the messages an end gave to send_msg
    received    \* the messages an end got from get_msg

vars == <<ch, closed, sent, received>>

Other(e) == CHOOSE o \in End : o # e
MinOf(a, b) == IF a <= b THEN a ELSE b

InStates == {"none", "NEED_PROTO", "NEED_LEN", "FILL_BUF", "HAS_MSG", "ERROR"}

\* A connected socket; the channel is yet to be made.  stream is what this end has
\* sent and the other has not read.
NewChannel(version) ==
    [version |-> version, instate |-> "none", protocol |-> -1, maximum_remote_protocol |-> -1,
     inbuf |-> <<>>, intogo |-> 0, inmsglen |-> 0,
     msgbuf |-> <<>>, msgofs |-> 0, msgtogo |-> 0, stream |-> <<>>,
     eof |-> FALSE, set_error_recursion |-> FALSE]

-----------------------------------------------------------------------------
(***************************************************************************)
(* Bytes and buffers.                                                      *)
(***************************************************************************)
Junk == <<"junk", 0, 0>>
ByteAt(buf, i) == IF i \in 1 .. Len(buf) THEN buf[i] ELSE Junk
Bytes(buf, ofs, n) == [i \in 1 .. n |-> ByteAt(buf, ofs + i)]

Number(n) == [i \in 1 .. Word |-> <<"number", n, i>>]
NumberAt(buf, ofs) ==
    IF \A i \in 1 .. Word : ByteAt(buf, ofs + i) = <<"number", ByteAt(buf, ofs + 1)[2], i>>
    THEN buf[ofs + 1][2]
    ELSE 0

Body(type, p) == [i \in 1 .. 1 + Len(Writes(p)[type]) |-> <<"body", type, i>>]

\* What is in the input buffer and not consumed (inofs - intogo).
Unread(c) == Len(c.inbuf) - c.intogo
has_msg(c) == c.eof \/ c.instate = "HAS_MSG"
at_eof(c) == c.instate # "HAS_MSG" /\ c.eof

chop_input(c) ==
    IF c.intogo > Far \/ Unread(c) <= Cheap
    THEN [c EXCEPT !.inbuf = Bytes(c.inbuf, c.intogo, Unread(c)), !.intogo = 0]
    ELSE c

\* Fault: the offset stays behind when everything is sent.
chop_output_keeps_offset(c) ==
    IF c.msgofs > Far \/ (c.msgtogo <= Cheap /\ c.msgtogo > 0)
    THEN [c EXCEPT !.msgbuf = Bytes(c.msgbuf, c.msgofs, c.msgtogo), !.msgofs = 0]
    ELSE c

chop_output(c) ==
    IF c.msgofs > Far \/ c.msgtogo <= Cheap
    THEN [c EXCEPT !.msgbuf = Bytes(c.msgbuf, c.msgofs, c.msgtogo), !.msgofs = 0]
    ELSE c

\* The offset of what is unsent is not regarded.
writefull(c, bytes) ==
    [c EXCEPT !.msgbuf = Bytes(c.msgbuf, 0, c.msgtogo) \o bytes, !.msgtogo = @ + Len(bytes)]

(***************************************************************************)
(* set_error first waits for a last message of the other end, which may    *)
(* be the text of its error, and drops it; what is read meanwhile goes     *)
(* through the same code (set_error_recursion).                            *)
(***************************************************************************)
Dead(c) == [c EXCEPT !.instate = "ERROR", !.eof = TRUE, !.set_error_recursion = FALSE]

set_error(c, silent) ==
    IF c.instate = "ERROR" THEN c
    ELSE IF silent \/ c.set_error_recursion THEN Dead(c)
    ELSE [c EXCEPT !.set_error_recursion = TRUE]

\* Between c and d set_error was called.
Failed(c, d) ==
    \/ d.instate = "ERROR"
    \/ d.set_error_recursion /\ ~c.set_error_recursion

\* send gets n bytes out before it fails or everything is sent.
flush_writebuf(c, n) ==
    LET k == MinOf(n, c.msgtogo)
        d == chop_output([c EXCEPT !.stream = @ \o Bytes(c.msgbuf, c.msgofs, k),
                                   !.msgtogo = @ - k, !.msgofs = @ + k])
    IN  IF k < c.msgtogo THEN set_error(d, FALSE) ELSE d

\* How many bytes of togo a flush of e may get out: all, unless the other end is gone or the
\* network fails (a non-blocking flush also fails on a full socket).
Outcomes(e, togo) == IF Faults \/ Other(e) \in closed THEN 0 .. togo ELSE {togo}

(***************************************************************************)
(* The two rounds of the exchange: each end sends its version, answers the *)
(* other's with the lower of the two, and must read the same.              *)
(***************************************************************************)
\* Fault: the version of the other end is taken as it comes.
FirstVersion_trusts(c, remote, n) ==
    LET d == flush_writebuf(writefull([c EXCEPT !.maximum_remote_protocol = remote], Number(remote)), n)
    IN  IF Failed(c, d) THEN d ELSE [d EXCEPT !.protocol = -1 - remote]

FirstVersion(c, remote, n) ==
    LET agreed == MinOf(remote, c.version)
        d == flush_writebuf(writefull([c EXCEPT !.maximum_remote_protocol = remote], Number(agreed)), n)
    IN  IF remote < MIN_PROTOCOL_VERSION \/ remote > 2 ^ 20 THEN set_error(c, FALSE)
        ELSE IF Failed(c, d) THEN d
        ELSE [d EXCEPT !.protocol = -1 - agreed]

SecondVersion(c, remote) ==
    IF remote = -(c.protocol + 1)
    THEN [c EXCEPT !.protocol = remote, !.instate = "NEED_LEN"]
    ELSE set_error([c EXCEPT !.protocol = 0], FALSE)

ReadVersion(c, n) ==
    LET remote == NumberAt(c.inbuf, c.intogo)
        d == [c EXCEPT !.intogo = @ + Word]
    IN  IF c.protocol = -1 THEN FirstVersion([d EXCEPT !.protocol = 0], remote, n)
        ELSE IF c.protocol < -1 THEN SecondVersion(d, remote)
        ELSE set_error(d, FALSE)

\* Fault: a message counts as complete with the first byte after it.
ReadLength_late(c) ==
    LET d == IF c.instate = "NEED_LEN" /\ Unread(c) >= Word
             THEN [c EXCEPT !.inmsglen = NumberAt(c.inbuf, c.intogo), !.intogo = @ + Word,
                            !.instate = "FILL_BUF"]
             ELSE c
    IN  IF d.instate = "FILL_BUF" /\ Unread(d) > d.inmsglen
        THEN [d EXCEPT !.instate = "HAS_MSG"]
        ELSE d

ReadLength(c) ==
    LET d == IF c.instate = "NEED_LEN" /\ Unread(c) >= Word
             THEN [c EXCEPT !.inmsglen = NumberAt(c.inbuf, c.intogo), !.intogo = @ + Word,
                            !.instate = "FILL_BUF"]
             ELSE c
    IN  IF d.instate = "FILL_BUF" /\ Unread(d) >= d.inmsglen
        THEN [d EXCEPT !.instate = "HAS_MSG"]
        ELSE d

update_state(c, n) ==
    LET Round(d) == IF /\ d.instate = "NEED_PROTO" /\ d.protocol # 0 /\ ~Failed(c, d)
                       /\ Unread(d) >= Word
                    THEN ReadVersion(d, n) ELSE d
        r == Round(Round(c))
    IN  IF Failed(c, r) THEN r
        ELSE IF r.instate = "NEED_PROTO" /\ r.protocol = 0 /\ Unread(r) >= Word THEN set_error(r, TRUE)
        ELSE ReadLength(r)

-----------------------------------------------------------------------------
(***************************************************************************)
(* What the owners of the channels do.  Own(e): the owner has the channel  *)
(* and is not inside set_error.                                            *)
(***************************************************************************)
Own(e) == ch[e].instate \notin {"none", "ERROR"} /\ ~ch[e].set_error_recursion

\* MsgChannel::MsgChannel
Create(e) ==
    LET c == writefull([ch[e] EXCEPT !.instate = "NEED_PROTO"], Number(ch[e].version))
    IN  /\ ch[e].instate = "none"
        /\ \E n \in Outcomes(e, c.msgtogo) : ch' = [ch EXCEPT ![e] = flush_writebuf(c, n)]
        /\ UNCHANGED <<closed, sent, received>>

\* read_a_bit, by the owner or by the get_msg in set_error: some bytes, the end of the stream,
\* or an error.  A connection closed with unread data is reset.
Readable(e) == ch[e].instate \notin {"none", "ERROR"} /\ ~ch[e].eof
               /\ (ch[e].set_error_recursion => ~has_msg(ch[e]))

Read(e) ==
    /\ Readable(e)
    /\ \E k \in 1 .. Len(ch[Other(e)].stream), n \in Outcomes(e, ch[e].msgtogo + Word) :
         LET c == chop_input(ch[e])
             in == ch[Other(e)].stream
         IN  ch' = [ch EXCEPT ![e] = update_state([c EXCEPT !.inbuf = @ \o SubSeq(in, 1, k)], n),
                              ![Other(e)].stream = SubSeq(in, k + 1, Len(in))]
    /\ UNCHANGED <<closed, sent, received>>

ReadEof(e) ==
    /\ Readable(e)
    /\ Other(e) \in closed /\ ch[Other(e)].stream = <<>>
    /\ ch' = [ch EXCEPT ![e].eof = TRUE]
    /\ UNCHANGED <<closed, sent, received>>

ReadError(e) ==
    /\ Readable(e)
    /\ Faults \/ (Other(e) \in closed /\ ch[e].stream # <<>>)
    /\ ch' = [ch EXCEPT ![e] = set_error(chop_input(@), @.instate = "NEED_PROTO")]
    /\ UNCHANGED <<closed, sent, received>>

\* wait_for_protocol gives up after 15 seconds
ProtocolTimeout(e) ==
    /\ Faults
    /\ Own(e) /\ ch[e].instate = "NEED_PROTO"
    /\ ch' = [ch EXCEPT ![e] = set_error(@, FALSE)]
    /\ UNCHANGED <<closed, sent, received>>

\* Fault: a message is looked at and left in the buffer.
get_msg_peeks(e) ==
    LET first == ByteAt(ch[e].inbuf, ch[e].intogo + 1)
    IN  /\ Own(e) /\ ch[e].instate = "HAS_MSG" /\ Len(received[e]) < 3
        /\ received' = [received EXCEPT ![e] = Append(@, first[2])]
        /\ UNCHANGED <<ch, closed, sent>>

\* get_msg with a complete message: what fill_from_channel reads must be all there is.
get_msg(e) ==
    LET c == ch[e]
        first == ByteAt(c.inbuf, c.intogo + 1)
        read == MinOf(1 + Len(Reads(c.protocol)[first[2]]), Unread(c))
    IN  /\ Own(e) /\ c.instate = "HAS_MSG"
        /\ IF first[1] # "body" \/ first[3] # 1 \/ read # c.inmsglen
           THEN /\ ch' = [ch EXCEPT ![e] = set_error(@, FALSE)]
                /\ UNCHANGED received
           ELSE /\ ch' = [ch EXCEPT ![e] = ReadLength([c EXCEPT !.intogo = @ + read,
                                                               !.instate = "NEED_LEN"])]
                /\ received' = [received EXCEPT ![e] = Append(@, first[2])]
        /\ UNCHANGED <<closed, sent>>

\* get_msg at the end of the stream
get_msg_eof(e) ==
    /\ Own(e) /\ at_eof(ch[e])
    /\ ch' = [ch EXCEPT ![e] = set_error(@, FALSE)]
    /\ UNCHANGED <<closed, sent, received>>

\* Fault: the length is that of the newest protocol.
send_msg_own_version(e, bulk) ==
    LET m == Script[e][Len(sent[e]) + 1]
        body == Body(m, ch[e].version)
        c == writefull(chop_output(ch[e]), Number(Len(body)) \o body)
    IN  /\ Own(e) /\ ch[e].instate # "NEED_PROTO"
        /\ Len(sent[e]) < Len(Script[e])
        /\ IF bulk /\ c.msgtogo < BulkFlush
           THEN ch' = [ch EXCEPT ![e] = c]
           ELSE \E n \in Outcomes(e, c.msgtogo) : ch' = [ch EXCEPT ![e] = flush_writebuf(c, n)]
        /\ sent' = [sent EXCEPT ![e] = Append(@, m)]
        /\ UNCHANGED <<closed, received>>

send_msg(e, bulk) ==
    LET m == Script[e][Len(sent[e]) + 1]
        body == Body(m, ch[e].protocol)
        c == writefull(chop_output(ch[e]), Number(Len(body)) \o body)
    IN  /\ Own(e) /\ ch[e].instate # "NEED_PROTO"
        /\ Len(sent[e]) < Len(Script[e])
        /\ IF bulk /\ c.msgtogo < BulkFlush
           THEN ch' = [ch EXCEPT ![e] = c]
           ELSE \E n \in Outcomes(e, c.msgtogo) : ch' = [ch EXCEPT ![e] = flush_writebuf(c, n)]
        /\ sent' = [sent EXCEPT ![e] = Append(@, m)]
        /\ UNCHANGED <<closed, received>>

\* The end of set_error: a message came and is dropped, or none came in two seconds.
SetErrorEnds(e) ==
    /\ ch[e].set_error_recursion
    /\ ch' = [ch EXCEPT ![e] = Dead(@)]
    /\ UNCHANGED <<closed, sent, received>>

\* MsgChannel::~MsgChannel, when the owner is done or has seen the error.
Close(e) ==
    /\ e \notin closed
    /\ ch[e].instate = "ERROR" \/ (Own(e) /\ ch[e].instate # "NEED_PROTO")
    /\ closed' = closed \cup {e}
    /\ ch' = [ch EXCEPT ![e] = Dead(@)]
    /\ UNCHANGED <<sent, received>>

-----------------------------------------------------------------------------
Init ==
    /\ ch \in [End -> {NewChannel(v) : v \in Versions}]
    /\ closed = {}
    /\ sent = [e \in End |-> <<>>]
    /\ received = [e \in End |-> <<>>]

Next ==
    \E e \in End :
        \/ Create(e) \/ Read(e) \/ ReadEof(e) \/ ReadError(e) \/ ProtocolTimeout(e)
        \/ get_msg(e) \/ get_msg_eof(e) \/ SetErrorEnds(e) \/ Close(e)
        \/ \E bulk \in BOOLEAN : send_msg(e, bulk)

Spec == Init /\ [][Next]_vars

-----------------------------------------------------------------------------
TypeOK ==
    /\ closed \subseteq End
    /\ \A e \in End :
         /\ ch[e].instate \in InStates
         /\ ch[e].intogo \in 0 .. Len(ch[e].inbuf)
         /\ ch[e].msgofs + ch[e].msgtogo <= Len(ch[e].msgbuf)
         /\ ch[e].instate = "ERROR" => ch[e].eof

Talking(e) == ch[e].instate \in {"NEED_LEN", "FILL_BUF", "HAS_MSG"}

\* An end that leaves the exchange of versions (update_state) has the lower of the two
\* versions for its protocol, knows the other's, and neither is older than the oldest
\* supported: two ends that talk always talk the same protocol.
VersionsAgree ==
    \A e \in End : Talking(e) =>
        /\ ch[e].protocol = MinOf(ch[e].version, ch[Other(e)].version)
        /\ ch[e].maximum_remote_protocol = ch[Other(e)].version
        /\ ch[e].protocol >= MIN_PROTOCOL_VERSION

\* Whatever the cuts of the stream, a complete message (get_msg) is one that the other end
\* sent, with the members that this end's fill_from_channel reads: the "message not read
\* correctly" and "no message type" of get_msg cannot happen.
ReadAsWritten ==
    \A e \in End : ch[e].instate = "HAS_MSG" =>
        LET first == ByteAt(ch[e].inbuf, ch[e].intogo + 1)
        IN  /\ first = <<"body", sent[Other(e)][Len(received[e]) + 1], 1>>
            /\ ch[e].inmsglen <= Unread(ch[e])
            /\ ch[e].inmsglen = 1 + Len(Reads(ch[e].protocol)[first[2]])

\* The protocols that two ends may agree on.
Possible == MIN_PROTOCOL_VERSION .. MinOf(ch[CHOOSE e \in End : TRUE].version, PROTOCOL_VERSION)

\* When a connection is made, whatever protocol will be agreed on and whatever will be sent:
\* fill_from_channel reads the members that send_to_channel wrote, in this order.  What a
\* member loses on its way through old daemons does no harm: a request never demands more of
\* its host than the client did, and demands all of it where every hop knows how to say so;
\* only an old daemon takes a compiler's exit code 200 for a job without an id (GetCSMsg,
\* JobDoneMsg).
WireAgrees ==
    (\A e \in End : ch[e].instate = "none") =>
        /\ \A p \in Possible, t \in MsgTypes : Writes(p)[t] = Reads(p)[t]
        /\ \A p, q \in Possible, v \in 0 .. PROTOCOL_VERSION, f \in 0 .. 1 :
             LET wanted == minimal_host_version(v, f)
                 read == MinimalVersionRead(q, MinimalVersionRead(p, wanted))
             IN  /\ read <= wanted
                 /\ p >= 34 /\ q >= 34 => read = wanted
                 /\ p >= 31 /\ q >= 31 /\ wanted >= 31 => read >= 31
        /\ \A p \in Possible, exitcode \in {0, 1, UNKNOWN_JOB_EXIT}, unknown \in BOOLEAN :
             UnknownJobIdRead(p, ExitcodeWritten(p, exitcode, unknown), unknown)
               = (unknown \/ (p < 39 /\ exitcode = UNKNOWN_JOB_EXIT))

\* The two directions are queues from which nothing is lost but by the end of the
\* connection, and in which nothing is changed, repeated or overtaken.
Queues == INSTANCE Fifo WITH Message <- MsgTypes
Fifo == Queues!Spec

\* An end whose owner, polling its socket and handling what it received, has something to do.
Busy(e) ==
    \/ ch[e].instate = "none" \/ ch[e].set_error_recursion
    \/ Own(e) /\ (has_msg(ch[e]) \/ ch[Other(e)].stream # <<>> \/ Other(e) \in closed)

\* When both owners wait for each other in poll, nothing is stuck in between: the versions are
\* exchanged and every message that was handed to the network has come out of get_msg.  Only
\* messages sent with SendBulkOnly may wait for more.
NoStall ==
    (\A e \in End : ~Busy(e)) =>
        \/ \E e \in End : ch[e].instate = "ERROR"
        \/ \A e \in End :
              /\ Talking(e)
              /\ ch[e].msgtogo = 0 => received[Other(e)] = sent[e]
=============================================================================
