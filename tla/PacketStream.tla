---------------------------- MODULE PacketStream ----------------------------
(***************************************************************************)
(* The byte streams of a Session (vzsdk/session): packets are cut out of   *)
(* what recv() returns, in pieces of any size, and queued for send(),      *)
(* which may take a part of them.  Everything here runs on the async       *)
(* thread; the device and the kernel's buffers are the environment.  The   *)
(* four bytes of the size field of a header are one cell of the stream.    *)
(***************************************************************************)
EXTENDS ByteBuffer

CONSTANTS
    Payloads,         \* contents of packets: sequences of bytes
    TempSize,         \* DEFAULT_TEMP_BUFFER_SIZE
    DEFAULT_SIZE,     \* size of a new ByteBuffer
    TxRoom,           \* cells that the kernel's send buffer holds
    Loads,            \* bounds, one of which a behaviour runs under: packets
                      \* that the device sends, requests written, and whether
                      \* heartbeats are written
    MaxBacklog        \* bound: cells of write_buffer_ that heartbeats add to
                      \* while the device is not reading

HEADER_V == 86
HEADER_Z == 90
HEADER_SIZE == 5
PACKET_TYPE_JSON == 0
PACKET_TYPE_HEARTBEAT == 1
PACKET_TYPE_BINARY == 2

Packet == [type : {PACKET_TYPE_JSON, PACKET_TYPE_BINARY}, data : Payloads]
                \cup [type : {PACKET_TYPE_HEARTBEAT}, data : {<<>>}]

ASSUME StreamAssumption ==
    /\ Payloads \subseteq Seq(Nat)
    /\ TempSize \in Nat \ {0} /\ DEFAULT_SIZE \in Nat \ {0}
    /\ TxRoom \in Nat /\ TxRoom > HEADER_SIZE
    /\ Loads \subseteq [packets : Nat, writes : Nat, beats : BOOLEAN] /\ Loads # {}
    /\ MaxBacklog \in Nat

VARIABLES
    load,             \* the bounds of this behaviour
    state,            \* GetState() of the socket
    rx,               \* cells sent by the device that recv() has not returned
    read_buffer_,
    offset,           \* local of ProcessPacketProtocol; None outside of it
    write_buffer_,
    DE_WRITE,         \* the socket waits for writability
    tx,               \* cells taken by send() that the device has not read
    peer,             \* the part of a packet that the device has read
    sent, handled,    \* history: packets from the device, and packets handled
    written, received \* history: requests written, and requests at the device

inVars == <<rx, read_buffer_, offset, sent, handled>>
outVars == <<write_buffer_, DE_WRITE, tx, peer, written, received>>
vars == <<load, state, inVars, outVars>>

None == -1            \* offset outside of ProcessPacketProtocol

Header(p) == <<HEADER_V, HEADER_Z, p.type, 0, Len(p.data)>>
Encode(p) == Header(p) \o p.data

Heartbeat == [type |-> PACKET_TYPE_HEARTBEAT, data |-> <<>>]

Drop(s, n) == SubSeq(s, n + 1, Len(s))

Init ==
    /\ load \in Loads
    /\ state = "CS_CONNECTING"
    /\ rx = <<>> /\ read_buffer_ = Construct(DEFAULT_SIZE) /\ offset = None
    /\ write_buffer_ = Construct(DEFAULT_SIZE) /\ DE_WRITE = TRUE /\ tx = <<>> /\ peer = <<>>
    /\ sent = <<>> /\ handled = <<>> /\ written = <<>> /\ received = <<>>

OnConnectEvent == /\ state = "CS_CONNECTING"
                  /\ state' = "CS_CONNECTED"
                  /\ UNCHANGED <<load, inVars, outVars>>

OnCloseEvent == /\ state # "CS_CLOSED" /\ offset = None
                /\ state' = "CS_CLOSED"
                /\ UNCHANGED <<load, inVars, outVars>>
-----------------------------------------------------------------------------
(* From the device.                                                        *)
DeviceSend(p) ==
    /\ state = "CS_CONNECTED" /\ Len(sent) < load.packets
    /\ rx' = rx \o Encode(p)
    /\ sent' = Append(sent, p)
    /\ UNCHANGED <<load, state, read_buffer_, offset, handled, outVars>>

(* One round of OnReadEvent: recv() returns the first n cells, which join  *)
(* the buffer, and ProcessInput begins.                                    *)
OnReadEvent(n) ==
    /\ state = "CS_CONNECTED" /\ offset = None
    /\ n <= Len(rx)
    /\ read_buffer_' = WriteBytes(read_buffer_, SubSeq(rx, 1, n))
    /\ rx' = Drop(rx, n)
    /\ offset' = 0
    /\ UNCHANGED <<load, state, sent, handled, outVars>>

(* The tests that ProcessPacketProtocol makes on what is left of the data. *)
WholePacket(data) == /\ Len(data) >= HEADER_SIZE
                     /\ data[1] = HEADER_V /\ data[2] = HEADER_Z
                     /\ Len(data) - HEADER_SIZE >= data[5]

(* Mutant of OnHandleInputPacket: one packet a read.                       *)
OnHandleOnePacket ==
    /\ offset # None
    /\ LET data == Drop(Data(read_buffer_), offset) IN
       /\ WholePacket(data)
       /\ handled' = Append(handled, [type |-> data[3],
                                      data |-> SubSeq(data, HEADER_SIZE + 1,
                                                      HEADER_SIZE + data[5])])
       /\ read_buffer_' = Consume(read_buffer_, offset + HEADER_SIZE + data[5])
       /\ offset' = None
    /\ UNCHANGED <<load, state, rx, sent, outVars>>

(* One round of its loop: hand out a packet and step over it.              *)
OnHandleInputPacket ==
    /\ offset # None
    /\ LET data == Drop(Data(read_buffer_), offset) IN
       /\ WholePacket(data)
       /\ handled' = Append(handled, [type |-> data[3],
                                      data |-> SubSeq(data, HEADER_SIZE + 1,
                                                      HEADER_SIZE + data[5])])
       /\ offset' = offset + HEADER_SIZE + data[5]
    /\ UNCHANGED <<load, state, rx, read_buffer_, sent, outVars>>

(* Mutant of ConsumeInput: the header of an unfinished packet is consumed. *)
ConsumeHeader ==
    /\ offset # None /\ ~WholePacket(Drop(Data(read_buffer_), offset))
    /\ read_buffer_' = Consume(read_buffer_,
                               IF Length(read_buffer_) - offset >= HEADER_SIZE
                               THEN offset + HEADER_SIZE ELSE offset)
    /\ offset' = None
    /\ UNCHANGED <<load, state, rx, sent, handled, outVars>>

(* No whole packet is left: consume what was handed out.                   *)
ConsumeInput ==
    /\ offset # None /\ ~WholePacket(Drop(Data(read_buffer_), offset))
    /\ read_buffer_' = Consume(read_buffer_, offset)
    /\ offset' = None
    /\ UNCHANGED <<load, state, rx, sent, handled, outVars>>
-----------------------------------------------------------------------------
(* To the device.                                                          *)

(* Mutant of TryToWriteData: a partial send consumes the whole buffer.     *)
TryToWriteAll(buffer, enabled) ==
    LET room == TxRoom - Len(tx)
        n == LesserOf(Length(buffer), room)
    IN  IF state # "CS_CONNECTED" \/ Length(buffer) = 0
        THEN write_buffer_' = buffer /\ tx' = tx /\ DE_WRITE' = enabled
        ELSE /\ tx' = tx \o SubSeq(Data(buffer), 1, n)
             /\ write_buffer_' = Consume(buffer, Length(buffer))
             /\ DE_WRITE' = (enabled \/ n = 0)

(* TryToWriteData with the given contents of write_buffer_ and value of    *)
(* DE_WRITE: send() takes what fits; only when nothing fits does Send ask  *)
(* for DE_WRITE again.                                                     *)
TryToWriteData(buffer, enabled) ==
    LET room == TxRoom - Len(tx)
        n == LesserOf(Length(buffer), room)
    IN  IF state # "CS_CONNECTED" \/ Length(buffer) = 0
        THEN write_buffer_' = buffer /\ tx' = tx /\ DE_WRITE' = enabled
        ELSE /\ tx' = tx \o SubSeq(Data(buffer), 1, n)
             /\ write_buffer_' = Consume(buffer, n)
             /\ DE_WRITE' = (enabled \/ n = 0)

(* What AsyncWrite puts into write_buffer_; the writes of the fields of    *)
(* the header are one.                                                     *)
Queue(buffer, p) == WriteBytes(WriteBytes(buffer, Header(p)), p.data)

AsyncWrite(p) ==
    /\ offset = None /\ Len(written) < load.writes
    /\ p.type = PACKET_TYPE_JSON
    /\ TryToWriteData(Queue(write_buffer_, p), DE_WRITE)
    /\ written' = Append(written, p)
    /\ UNCHANGED <<load, state, inVars, peer, received>>

(* Mutant of WriteHeartbeat: heartbeats stop while data is queued.         *)
WriteHeartbeatIfIdle ==
    /\ state = "CS_CONNECTED" /\ offset = None
    /\ load.beats /\ Length(write_buffer_) = 0
    /\ TryToWriteData(Queue(write_buffer_, Heartbeat), DE_WRITE)
    /\ UNCHANGED <<load, state, inVars, peer, written, received>>

(* The heartbeat timer: as long as the session lives, every two seconds.   *)
WriteHeartbeat ==
    /\ state = "CS_CONNECTED" /\ offset = None
    /\ load.beats /\ (Length(write_buffer_) <= MaxBacklog \/ tx = <<>>)
    /\ TryToWriteData(Queue(write_buffer_, Heartbeat), DE_WRITE)
    /\ UNCHANGED <<load, state, inVars, peer, written, received>>

(* The socket is writable: OnEvent clears DE_WRITE before the signal.      *)
OnWriteEvent ==
    /\ state = "CS_CONNECTED" /\ offset = None
    /\ DE_WRITE /\ Len(tx) < TxRoom
    /\ TryToWriteData(write_buffer_, FALSE)
    /\ UNCHANGED <<load, state, inVars, peer, written, received>>

(* The device reads a cell, and notes a request when it has a whole one.   *)
DeviceRead ==
    /\ tx # <<>>
    /\ tx' = Tail(tx)
    /\ LET data == Append(peer, Head(tx)) IN
       IF Len(data) >= HEADER_SIZE /\ Len(data) = HEADER_SIZE + data[5]
       THEN /\ peer' = <<>>
            /\ received' = IF data[3] = PACKET_TYPE_HEARTBEAT THEN received
                           ELSE Append(received, [type |-> data[3],
                                                  data |-> Drop(data, HEADER_SIZE)])
       ELSE peer' = data /\ UNCHANGED received
    /\ UNCHANGED <<load, state, inVars, write_buffer_, DE_WRITE, written>>
-----------------------------------------------------------------------------
Read == OnHandleInputPacket \/ ConsumeInput \/ \E n \in 1 .. TempSize : OnReadEvent(n)

Next == \/ OnConnectEvent \/ OnCloseEvent
        \/ \E p \in Packet : DeviceSend(p) \/ AsyncWrite(p)
        \/ Read \/ WriteHeartbeat \/ OnWriteEvent \/ DeviceRead

Spec == Init /\ [][Next]_vars

(* The async thread keeps running, so readable data is read, heartbeats    *)
(* are written and a writable socket is noticed; the device keeps reading. *)
Fairness == /\ WF_vars(OnConnectEvent) /\ WF_vars(Read)
            /\ WF_vars(WriteHeartbeat) /\ WF_vars(OnWriteEvent) /\ WF_vars(DeviceRead)

FairSpec == Spec /\ Fairness
-----------------------------------------------------------------------------
Inbound == INSTANCE PacketChannel WITH Packets <- Packet
Outbound == INSTANCE PacketChannel WITH Packets <- Packet, sent <- written,
                                        handled <- received

TypeOK ==
    /\ state \in {"CS_CONNECTING", "CS_CONNECTED", "CS_CLOSED"}
    /\ load \in Loads
    /\ rx \in Seq(Nat) /\ read_buffer_ \in Buffer(Nat)
    /\ offset \in {None} \cup 0 .. Length(read_buffer_)
    /\ write_buffer_ \in Buffer(Nat) /\ DE_WRITE \in BOOLEAN
    /\ tx \in Seq(Nat) /\ Len(tx) <= TxRoom /\ peer \in Seq(Nat)
    /\ sent \in Seq(Packet) /\ handled \in Seq([type : Nat, data : Seq(Nat)])
    /\ written \in Seq(Packet) /\ received \in Seq([type : Nat, data : Seq(Nat)])

(* Framing: whatever pieces recv() cuts the stream into, and whatever the  *)
(* payloads contain, the session hands out the device's packets, whole, in *)
(* order and once.                                                         *)
InboundChannel == Inbound!Spec

(* Partial sends, heartbeats put between requests and requests queued      *)
(* before the connection is up never tear, lose or reorder a request.      *)
OutboundChannel == Outbound!Spec

(* ProcessInput leaves no whole packet behind: the answer to a request     *)
(* never waits in read_buffer_ for the next read event.                    *)
NoPacketLeft == offset = None => ~WholePacket(Data(read_buffer_))

(* However the stream is cut, consumed and queued, every variable keeps    *)
(* its type, no buffer is written past its array, and Resize drops nothing *)
(* that is in use.                                                         *)
BuffersFit == TypeOK /\ Fits(read_buffer_) /\ Fits(write_buffer_)

(* A request is not left in write_buffer_, although a partial send() does  *)
(* not ask for another write event: the next heartbeat sends the rest.     *)
RequestsFlushed == \A n \in UNION {1 .. l.writes : l \in Loads} :
    Len(written) >= n ~> (Len(received) >= n \/ state = "CS_CLOSED")
=============================================================================
