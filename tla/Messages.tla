------------------------------ MODULE Messages ------------------------------
(***************************************************************************)
(* The payloads a session sends and receives.  A message is a record: its  *)
(* kind and its fields in the order of the source's struct.  Encoders and  *)
(* decoders are separate in the code, and here: EncodePayload writes what  *)
(* each encode() writes, DecodePayload reads what each decode() reads.     *)
(* A socket address is << octets, port >>, its octets those of the mapped  *)
(* IPv6 address.                                                           *)
(***************************************************************************)
EXTENDS Integers, Sequences, PvData

\* PvaStatus: << type, message, call tree >>; the call tree is << >> or << s >>.
StatusOk == << 0, << >>, << >> >>
is_ok(status) == status[1] = 0 /\ status[2] = << >>

EncodeStatus(status, order) ==
  IF is_ok(status) THEN << 255 >>
  ELSE << status[1] + 8 * Len(status[3]) >>
         \o write_string(status[2], order)
         \o WriteEach(status[3], LAMBDA s : write_string(s, order))

\* Bits 0..2 are the type, bit 3 says that a call tree follows.
DecodeStatus(r) ==
  Then(read_u8(r), LAMBDA code :
    CASE Got(code) = 255 -> Replace(code, StatusOk)
      [] Got(code) # 255 /\ Bits(Got(code), 0, 3) > 3 -> Failed(code)
      [] OTHER -> Group(ReadEach(read_string(Replace(code, Bits(Got(code), 0, 3))),
                                 Bits(Got(code), 3, 1), read_string), 3))

----------------------------------------------------------------------------
Flags(reply, unicast) ==
  (IF reply THEN 1 ELSE 0) + (IF unicast THEN 128 ELSE 0)

\* The port is little-endian whatever the connection's order.
EncodeAddress(addr) == addr[1] \o LittleEndian(addr[2], 2)

DecodeAddress(r) ==
  Then(read_bytes(read_bytes(r, 16), 2),
       LAMBDA a : Group(Replace(a, Got(a)[1] + 256 * Got(a)[2]), 2))

\* (id, name) pairs, counted by a u16.
EncodeChannels(channels, order) ==
  write_int(Len(channels), 2, order)
    \o WriteEach(channels, LAMBDA c : write_int(c[1], 4, order)
                                        \o write_string(c[2], order))

DecodeChannels(r) ==
  Counted(read_u16(r), LAMBDA s : Group(read_string(read_i32(s)), 2))

EncodeSearchRequest(m, order) ==
  write_int(m.seq, 4, order) \o << Flags(m.reply, m.unicast) >>
    \o << 0, 0, 0 >> \o EncodeAddress(m.addr)
    \o << 1 >> \o write_string(m.protocol, order)
    \o EncodeChannels(m.channels, order)

TCP == << 116, 99, 112 >>

\* Of several protocols the first is kept; without one it is tcp.
DecodeProtocol(r) ==
  Then(Counted(read_u8(r), read_string), LAMBDA names :
    Replace(names, IF Got(names) = << >> THEN TCP ELSE Got(names)[1]))

DecodeSearchRequest(r) ==
  Then(DecodeChannels(DecodeProtocol(DecodeAddress(
         Forget(read_bytes(read_u8(read_i32(r)), 3))))), LAMBDA d :
    Put(d, [kind |-> "search", seq |-> d.out[1],
            reply |-> Bits(d.out[2], 0, 1) = 1,
            unicast |-> Bits(d.out[2], 7, 1) = 1,
            addr |-> d.out[3], protocol |-> d.out[4], channels |-> d.out[5]]))

EncodeSearchResponse(m, order) ==
  m.guid \o write_int(m.seq, 4, order) \o EncodeAddress(m.addr)
    \o write_string(m.protocol, order)
    \o << IF m.found = << >> THEN 0 ELSE 1 >>
    \o write_int(Len(m.found), 2, order)
    \o WriteEach(m.found, LAMBDA id : write_int(id, 4, order))

DecodeSearchResponse(r) ==
  Then(Counted(read_u16(Forget(read_u8(read_string(DecodeAddress(
         read_i32(read_bytes(r, 12))))))), read_i32), LAMBDA d :
    Put(d, [kind |-> "found", guid |-> d.out[1], seq |-> d.out[2],
            addr |-> d.out[3], protocol |-> d.out[4], found |-> d.out[5]]))

----------------------------------------------------------------------------
\* CreateChannelRequest and its response, DestroyChannel.
DecodeCreateChannel(r) ==
  Then(DecodeChannels(r), LAMBDA d : Put(d, [kind |-> "create", channels |-> d.out[1]]))

DecodeCreated(r) ==
  Then(DecodeStatus(read_i32(read_i32(r))), LAMBDA d :
    Put(d, [kind |-> "created", cid |-> d.out[1], sid |-> d.out[2], status |-> d.out[3]]))

DecodeDestroy(r) ==
  Then(read_i32(read_i32(r)), LAMBDA d :
    Put(d, [kind |-> "destroy", cid |-> d.out[1], sid |-> d.out[2]]))

\* MonitorRequest: sub is << code >>, or << 128, credits >> for Pipeline.
SubCommands == { 8, 4, 68, 2, 16 }

\* The pvRequest of an Init: "monitor all fields".
PvRequest == << 253, 2, 0, 128, 0, 0 >>

EncodeMonitor(m, order) ==
  write_int(m.sid, 4, order) \o write_int(m.rid, 4, order) \o << m.sub[1] >>
    \o CASE m.sub[1] = 8 -> PvRequest
         [] m.sub[1] = 128 -> write_int(m.sub[2], 4, order)
         [] OTHER -> << >>

\* from_u8: any other code with bit 7 is Pipeline, whose credits follow.
DecodeSubCommand(r) ==
  Then(read_u8(r), LAMBDA code :
    CASE Got(code) \in SubCommands -> Group(code, 1)
      [] Bits(Got(code), 7, 1) = 1 -> Group(read_i32(Replace(code, 128)), 2)
      [] OTHER -> Failed(code))

DecodeMonitor(r) ==
  Then(DecodeSubCommand(read_i32(read_i32(r))), LAMBDA d :
    Put(d, [kind |-> "monitor", sid |-> d.out[1], rid |-> d.out[2], sub |-> d.out[3]]))

DecodeMonitorHeader(r) ==
  Then(read_u8(read_i32(r)), LAMBDA d :
    Put(d, [kind |-> "update", rid |-> d.out[1], sub |-> d.out[2]]))

----------------------------------------------------------------------------
\* ConnectionValidation, from the server, and ConnectionValidated.
DecodeValidation(r) ==
  Then(Counted(read_size(read_i16(read_i32(r))), read_string), LAMBDA d :
    Put(d, [kind |-> "validation", buffer |-> d.out[1], registry |-> d.out[2],
            auth |-> d.out[3]]))

DecodeValidated(r) ==
  Then(read_string(read_u16(read_i16(read_i32(r)))), LAMBDA d :
    Put(d, [kind |-> "validated", buffer |-> d.out[1], registry |-> d.out[2],
            qos |-> d.out[3], auth |-> d.out[4]]))

EncodeValidation(m, order) ==
  write_int(m.buffer, 4, order) \o write_int(m.registry, 2, order)
    \o write_size(Len(m.auth), order)
    \o WriteEach(m.auth, LAMBDA s : write_string(s, order))

\* The last byte says that no authentication data follows.
EncodeValidated(m, order) ==
  write_int(m.buffer, 4, order) \o write_int(m.registry, 2, order)
    \o write_int(m.qos, 2, order) \o write_string(m.auth, order) \o << 255 >>

----------------------------------------------------------------------------
EncodePayload(m, order) ==
  CASE m.kind = "search" -> EncodeSearchRequest(m, order)
    [] m.kind = "found" -> EncodeSearchResponse(m, order)
    [] m.kind = "create" -> EncodeChannels(m.channels, order)
    [] m.kind = "created" -> write_int(m.cid, 4, order)
         \o write_int(m.sid, 4, order) \o EncodeStatus(m.status, order)
    [] m.kind = "destroy" ->
         write_int(m.cid, 4, order) \o write_int(m.sid, 4, order)
    [] m.kind = "monitor" -> EncodeMonitor(m, order)
    [] m.kind = "update" -> write_int(m.rid, 4, order) \o << m.sub >>
    [] m.kind = "validation" -> EncodeValidation(m, order)
    [] m.kind = "validated" -> EncodeValidated(m, order)

DecodePayload(kind, r) ==
  CASE kind = "search" -> DecodeSearchRequest(r)
    [] kind = "found" -> DecodeSearchResponse(r)
    [] kind = "create" -> DecodeCreateChannel(r)
    [] kind = "created" -> DecodeCreated(r)
    [] kind = "destroy" -> DecodeDestroy(r)
    [] kind = "monitor" -> DecodeMonitor(r)
    [] kind = "update" -> DecodeMonitorHeader(r)
    [] kind = "validation" -> DecodeValidation(r)
    [] kind = "validated" -> DecodeValidated(r)

\* What the decoders leave unread: the pvRequest and the authentication data.
Unread(m) ==
  CASE m.kind = "monitor" /\ m.sub[1] = 8 -> Len(PvRequest)
    [] m.kind = "validated" -> 1
    [] OTHER -> 0
=============================================================================
