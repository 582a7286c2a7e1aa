------------------------------- MODULE Packet -------------------------------
(***************************************************************************)
(* Packets of the Lua scripts on their way: buffers that a script makes,   *)
(* writes, clones, reads and sends (luabind/buffer.h, packet.h), the send  *)
(* list of a stream socket and its chunks for receiving                    *)
(* (chk_stream_socket.c), the decoder that cuts the stream into packets    *)
(* (chk_decoder.c) and the callback that gets them.  Both ends of the      *)
(* stream have their chunks in one heap here.                              *)
(***************************************************************************)
EXTENDS ByteBuffer

CONSTANTS
  Slot,        \* the buffers of the scripts
  Sizes,       \* how many bytes a script writes at a time
  Pieces,      \* how many bytes a write or a read may take, when it does not take all
  RecvCap,     \* recv_buffer_size
  MaxPacket,   \* what the decoder was made for
  Stopping,    \* the faults after which the model stops
  MaxOps       \* a bound: operations of the scripts

ASSUME PacketAssumption ==
  /\ IsFiniteSet(Slot) /\ {RecvCap, MaxPacket, MaxOps} \subseteq Nat \ {0}
  /\ Pieces \subseteq Nat /\ Sizes \subseteq Nat \ {0}

VARIABLES
  heap,
  buffer,      \* the buffer of each slot
  used,        \* the slots that hold a userdata
  writers,     \* those with a packet.Writer
  ideal,       \* the bytes each of them ought to hold
  queue,       \* send_list
  sent,        \* the bytes that were given to Send, one packet after the other
  wire, nRead, \* the bytes written to the stream; how many were read
  recv,        \* next_recv_buf and next_recv_pos
  plain,       \* the socket has the default decoder, that keeps no reference
  decoder,
  phase,       \* process_read: loop (not in it), unpack, callback
  bytes,       \* what it has read
  packet,      \* the buffer it calls the callback with
  got,         \* the packets the decoder gave
  ops,
  lost,        \* the chunks to which a reference was lost
  fault

script == <<buffer, used, writers, ideal>>
outgoing == <<queue, sent, wire>>
incoming == <<plain, nRead, recv, decoder, phase, bytes, packet, got>>
vars == <<heap, script, outgoing, incoming, ops, lost, fault>>

Sound == fault \notin Stopping
Scripts == Sound /\ phase # "unpack" /\ ops < MaxOps
Counted == ops' = ops + 1
NewBytes(n) == [i \in 1..n |-> (ops + 2 - i) % Base]

(* What a function did to the buffer in a slot. *)
Did(s, r, want) ==
  /\ heap' = r.h /\ buffer' = [buffer EXCEPT ![s] = r.b]
  /\ lost' = IF r.lost = NULL THEN lost ELSE Append(lost, r.lost)
  /\ fault' = r.fault
  /\ ideal' = IF r.ret = 0 THEN [ideal EXCEPT ![s] = want] ELSE ideal

-----------------------------------------------------------------------------
(* The scripts' buffers. *)

Makes(s, r, want) ==
  /\ Scripts /\ s \notin used /\ Counted
  /\ used' = used \cup {s} /\ Did(s, r, want)
  /\ UNCHANGED <<writers, outgoing, incoming>>

(* chk_bytechunk_new, init, release: the buffer alone holds the chunk.     *)
FromString(str) ==
  LET c == NextChunk(heap)
      r == chk_bytebuffer_init(chk_bytechunk_new(heap, Len(str), str), c, 0, Len(str), {})
  IN Done(chk_bytechunk_release(r.h, c), r.b)
lua_new_bytebuffer(s) ==
  \/ Makes(s, chk_bytebuffer_new(heap, MinCap), <<>>)
  \/ \E n \in Sizes : Makes(s, FromString(NewBytes(n)), NewBytes(n))

chk_bytebuffer_share(b) == chk_bytebuffer_clone(heap, b)
lua_bytebuffer_clone(s, o) ==
  /\ o \in used
  /\ Makes(s, chk_bytebuffer_share(buffer[o]), ideal[o])

lua_bytebuffer_gc(s) ==
  /\ Scripts /\ s \in used /\ Counted
  /\ heap' = chk_bytebuffer_finalize(heap, buffer[s])
  /\ buffer' = [buffer EXCEPT ![s] = Empty] /\ ideal' = [ideal EXCEPT ![s] = <<>>]
  /\ used' = used \ {s} /\ writers' = writers \ {s}
  /\ UNCHANGED <<outgoing, incoming, lost, fault>>

Changes(s, r, want) ==
  /\ Scripts /\ s \in used /\ Counted
  /\ Did(s, r, want) /\ UNCHANGED <<used, outgoing, incoming>>

lua_bytebuffer_append_string(s, str) ==
  Changes(s, chk_bytebuffer_append(heap, buffer[s], str), ideal[s] \o str) /\ UNCHANGED writers

(* The list is cut for the clones in the send list and for the other       *)
(* buffers, or for the decoder and the chunks to receive into.             *)
Cuts(s, n) ==
  LET cut == CutShared(heap, buffer[s], n)
      along == UNION ({Chunks(heap, buffer[o]) : o \in used \ {s}}
                      \cup {Chunks(heap, queue[i]) : i \in DOMAIN queue})
  IN IF cut \cap along # {} THEN "cut" ELSE IF cut # {} THEN "drain" ELSE "none"
lua_bytebuffer_read(s, n) ==
  /\ n <= buffer[s].datasize
  /\ LET r == chk_bytebuffer_read_drain(heap, buffer[s], n)
     IN Changes(s, Result(r.h, r.b, Cuts(s, n), NULL), SubSeq(ideal[s], n + 1, Len(ideal[s])))
  /\ UNCHANGED writers

(* A packet begins with its length; every write renews it, in the first    *)
(* cells of the first chunk, wherever the bytes of the buffer begin and    *)
(* whatever else is there.                                                 *)
Header(n) == Cells(n - Word, Word)
WithHeader(str) == SubSeq(Header(Len(str)) \o SubSeq(str, Word + 1, Len(str)), 1, Len(str))
lua_new_wpacket(s) ==
  /\ READ_ONLY \notin buffer[s].flags
  /\ Changes(s, chk_bytebuffer_append(heap, buffer[s], Cells(0, Word)), ideal[s] \o Cells(0, Word))
  /\ writers' = writers \cup {s}

BugOldLength(h, b) == chk_bytechunk_write(h, b.head, 0, Header(b.datasize - 1))
HeaderWritten(h, b) == chk_bytechunk_write(h, b.head, 0, Header(b.datasize))
Headed(r) ==
  Result(HeaderWritten(r.h, r.b), r.b,
         IF r.fault # "none" THEN r.fault
         ELSE IF r.b.spos # 0 THEN "header"
         ELSE IF r.h[r.b.head].refcount > 1 THEN "shared" ELSE "none", r.lost)
lua_wpacket_write(s, str) ==
  /\ s \in writers
  /\ Changes(s, Headed(chk_bytebuffer_append(heap, buffer[s], str)), WithHeader(ideal[s] \o str))
  /\ UNCHANGED writers

(* lua_wpacket_rewriteI8 and the like. *)
ReplacedAt(str, pos, in) == [i \in 1..Len(str) |-> IF i - pos \in 1..Len(in) THEN in[i - pos] ELSE str[i]]
lua_wpacket_rewrite(s, pos, in) ==
  /\ s \in writers /\ pos + Len(in) <= buffer[s].datasize
  /\ Changes(s, chk_bytebuffer_rewrite(heap, buffer[s], pos, in), ReplacedAt(ideal[s], pos, in))
  /\ UNCHANGED writers

-----------------------------------------------------------------------------
(* Sending. *)

(* A datagram is sent at once, whole.                                      *)
chk_datagram_socket_sendto(s) ==
  LET r == chk_bytebuffer_clone(heap, buffer[s])
  IN /\ Scripts /\ s \in used /\ Counted
     /\ fault' = IF Content(r.h, r.b) = ideal[s] THEN fault ELSE "datagram"
     /\ heap' = chk_bytebuffer_finalize(r.h, r.b)
     /\ UNCHANGED <<script, outgoing, incoming, lost>>

(* Part of a buffer was written: it gives back the chunks it has done with.*)
SendSome(w) ==
  LET k == Least(w.h[w.b.head].cap - w.b.spos, w.n)
      next == w.h[w.b.head].next
      Moved(head, spos) ==
        Buffer(head, w.b.tail, spos, w.b.datasize - k, w.b.append_pos, w.b.flags)
  IN IF w.n = 0 THEN w
     ELSE IF w.b.spos + k < w.h[w.b.head].cap
          THEN [h |-> w.h, b |-> Moved(w.b.head, w.b.spos + k), n |-> w.n - k]
     ELSE [h |-> chk_bytechunk_release(chk_bytechunk_retain(w.h, next), w.b.head),
           b |-> Moved(next, 0), n |-> w.n - k]
Advanced(h, b, n) == Repeated(SendSome, n, [h |-> h, b |-> b, n |-> n])
SendFirst(w) ==
  IF w.n = 0 THEN w
  ELSE IF w.n >= Head(w.q).datasize
       THEN [h |-> chk_bytebuffer_finalize(w.h, Head(w.q)), q |-> Tail(w.q),
             n |-> w.n - Head(w.q).datasize]
       ELSE LET r == Advanced(w.h, Head(w.q), w.n)
            IN [h |-> r.h, q |-> <<r.b>> \o Tail(w.q), n |-> 0]
update_send_list(h, q, n) == Repeated(SendFirst, Len(q), [h |-> h, q |-> q, n |-> n])

Gathered(g) ==
  IF g.q = <<>> THEN g ELSE [h |-> g.h, q |-> Tail(g.q), all |-> g.all \o Content(g.h, Head(g.q))]
prepare_send(h, q) == Repeated(Gathered, Len(q), [h |-> h, q |-> q, all |-> <<>>]).all
Waiting == prepare_send(heap, queue)

(* The first n bytes of the list are written.                              *)
Written(h, q, n) ==
  LET r == update_send_list(h, q, n)
  IN /\ n <= Len(prepare_send(h, q))
     /\ heap' = r.h /\ queue' = r.q /\ wire' = wire \o SubSeq(prepare_send(h, q), 1, n)
process_write(n) ==
  /\ Sound /\ phase = "loop" /\ Written(heap, queue, n)
  /\ UNCHANGED <<script, sent, incoming, ops, lost, fault>>

(* With much to send, or no_delay, the socket writes at once, n bytes, also *)
(* when it is called from its own callback; else it waits for the loop.     *)
lua_stream_socket_send(s, n) ==
  LET r == chk_bytebuffer_clone(heap, buffer[s])
  IN /\ Scripts /\ s \in used /\ buffer[s].datasize > 0 /\ Counted
     /\ sent' = sent \o ideal[s] /\ Written(r.h, Append(queue, r.b), n)
     /\ UNCHANGED <<script, incoming, lost, fault>>

-----------------------------------------------------------------------------
(* Receiving. *)

NewRecvChunk(h) == chk_bytechunk_new(h, RecvCap, <<>>)
Linked(h, c) == [NewRecvChunk(h) EXCEPT ![c].next = NextChunk(h)]
WithNext(h, c) == IF h[c].next = NULL THEN Linked(h, c) ELSE h

(* A chunk without room for recv_buffer_size is read into, and then a second one. *)
prepare_recv ==
  LET h == IF recv.c = NULL THEN NewRecvChunk(heap) ELSE heap
      r == IF recv.c = NULL THEN [c |-> NextChunk(heap), pos |-> 0] ELSE recv
      rest == h[r.c].cap - r.pos
      more == WithNext(h, r.c)
  IN IF rest >= RecvCap THEN [h |-> h, r |-> r, room |-> rest]
     ELSE [h |-> more, r |-> r, room |-> rest + more[more[r.c].next].cap]

BugForgetsRest(h, c, spos, size) ==
  IF decoder.c = NULL
  THEN [h |-> chk_bytechunk_retain(h, c), d |-> [c |-> c, spos |-> spos, size |-> size]]
  ELSE [h |-> h, d |-> [decoder EXCEPT !.size = size]]
packet_decoder_update(h, c, spos, size) ==
  IF decoder.c = NULL
  THEN [h |-> chk_bytechunk_retain(h, c), d |-> [c |-> c, spos |-> spos, size |-> size]]
  ELSE [h |-> h, d |-> [c |-> decoder.c, spos |-> decoder.spos, size |-> decoder.size + size]]

default_update(h, c, spos, size) == [h |-> h, d |-> [c |-> c, spos |-> spos, size |-> size]]

process_read(n) ==
  LET p == prepare_recv
      h == chk_bytechunk_write(p.h, p.r.c, p.r.pos, SubSeq(wire, nRead + 1, nRead + n))
      u == IF plain THEN default_update(h, p.r.c, p.r.pos, n)
           ELSE packet_decoder_update(h, p.r.c, p.r.pos, n)
  IN /\ Sound /\ phase = "loop" /\ n <= p.room /\ nRead + n <= Len(wire)
     /\ recv' = p.r /\ heap' = u.h /\ decoder' = u.d
     /\ nRead' = nRead + n /\ bytes' = n /\ phase' = "unpack"
     /\ UNCHANGED <<plain, script, outgoing, packet, got, ops, lost, fault>>

(* pk_len, and pk_total as a uint32_t: the highest lengths wrap to a total  *)
(* of less than the header, or of nothing at all.                          *)
Length == Unsigned(chk_bytechunk_read(heap, decoder.c, decoder.spos, Word))
Total == (Word + Length) % Power(Word)
HasLength == decoder.size > Word
BadLength == HasLength /\ (Length = 0 \/ Total > MaxPacket)
HasPacket ==
  IF plain THEN decoder.c # NULL ELSE HasLength /\ ~BadLength /\ Total <= decoder.size

(* Behind the packet; a chunk that ends there is given back.               *)
PassSome(w) ==
  LET k == Least(w.h[w.d.c].cap - w.d.spos, w.n)
      next == w.h[w.d.c].next
      At(c, spos) == [c |-> c, spos |-> spos, size |-> w.d.size - k]
  IN IF w.n = 0 THEN w
     ELSE IF w.d.spos + k < w.h[w.d.c].cap THEN [h |-> w.h, d |-> At(w.d.c, w.d.spos + k), n |-> 0]
     ELSE [h |-> chk_bytechunk_release(chk_bytechunk_retain(w.h, next), w.d.c),
           d |-> At(next, 0), n |-> IF next = NULL THEN 0 ELSE w.n - k]
Behind(h, d, n) == Repeated(PassSome, n, [h |-> h, d |-> d, n |-> n])
(* The callback gets a buffer of its own. *)
PushBuffer(h, b) ==
  \/ \E s \in Slot \ used :
       LET p == chk_bytebuffer_init(h, b.head, b.spos, b.datasize, b.flags)
       IN /\ heap' = p.h /\ buffer' = [buffer EXCEPT ![s] = p.b] /\ used' = used \cup {s}
          /\ ideal' = [ideal EXCEPT ![s] = Content(h, b)]
  \/ heap' = h /\ UNCHANGED <<buffer, used, ideal>>
Calls(h, b) == packet' = b /\ got' = Append(got, Content(h, b)) /\ PushBuffer(h, b)

packet_decoder_unpack ==
  LET r == chk_bytebuffer_new_bychunk(heap, decoder.c, decoder.spos, Total)
      u == Behind(r.h, decoder, Total)
  IN decoder' = u.d /\ Calls(u.h, r.b)
default_unpack ==
  LET r == chk_bytebuffer_new_bychunk_readonly(heap, decoder.c, decoder.spos, decoder.size)
  IN /\ decoder' = [c |-> NULL, spos |-> decoder.spos, size |-> decoder.size]
     /\ Calls(r.h, r.b)
(* A packet of no bytes leaves the decoder where it is: the loop of         *)
(* process_read gets the same one again, for ever.                         *)
Unpack ==
  /\ Sound /\ phase = "unpack" /\ HasPacket /\ phase' = "callback"
  /\ IF plain THEN default_unpack ELSE packet_decoder_unpack
  /\ fault' = IF ~plain /\ Total = 0 THEN "endless" ELSE fault
  /\ UNCHANGED <<plain, writers, outgoing, nRead, recv, bytes, ops, lost>>
CallbackReturns ==
  /\ Sound /\ phase = "callback" /\ phase' = "unpack"
  /\ heap' = chk_bytebuffer_finalize(heap, packet) /\ packet' = Empty
  /\ UNCHANGED <<plain, script, outgoing, nRead, recv, decoder, bytes, got, ops, lost, fault>>

ReadSome(w) ==
  LET k == Least(w.h[w.r.c].cap - w.r.pos, w.n)
      linked == WithNext(w.h, w.r.c)
      next == linked[w.r.c].next
  IN IF w.n = 0 THEN w
     ELSE IF w.r.pos + k < w.h[w.r.c].cap THEN [h |-> w.h, r |-> [c |-> w.r.c, pos |-> w.r.pos + k], n |-> 0]
     ELSE [h |-> chk_bytechunk_release(chk_bytechunk_retain(linked, next), w.r.c),
           r |-> [c |-> next, pos |-> 0], n |-> w.n - k]
update_next_recv_pos(h, r, n) == Repeated(ReadSome, n, [h |-> h, r |-> r, n |-> n])
ReadReturns ==
  /\ Sound /\ phase = "unpack" /\ ~HasPacket
  /\ LET r == update_next_recv_pos(heap, recv, bytes) IN heap' = r.h /\ recv' = r.r
  /\ phase' = "loop" /\ bytes' = 0
  /\ UNCHANGED <<plain, script, outgoing, nRead, decoder, packet, got, ops, lost, fault>>

(* The connection goes: what was not sent or not decoded is given back,    *)
(* and the next one starts from nothing.                                   *)
Finalized(r) ==
  IF r.q = <<>> THEN r ELSE [h |-> chk_bytebuffer_finalize(r.h, Head(r.q)), q |-> Tail(r.q)]
Released(h, q) == Repeated(Finalized, Len(q), [h |-> h, q |-> q]).h
Given(h, c) == IF c = NULL THEN h ELSE chk_bytechunk_release(h, c)
release_socket ==
  /\ Scripts /\ phase = "loop" /\ recv.c # NULL /\ Counted
  /\ heap' = Released(Given(Given(heap, recv.c), decoder.c), queue)
  /\ queue' = <<>> /\ sent' = <<>> /\ wire' = <<>> /\ nRead' = 0 /\ got' = <<>>
  /\ recv' = [c |-> NULL, pos |-> 0] /\ decoder' = [c |-> NULL, spos |-> 0, size |-> 0]
  /\ UNCHANGED <<plain, script, phase, bytes, packet, lost, fault>>

-----------------------------------------------------------------------------
Init ==
  /\ heap = <<>> /\ buffer = [s \in Slot |-> Empty] /\ used = {} /\ writers = {}
  /\ ideal = [s \in Slot |-> <<>>] /\ queue = <<>> /\ sent = <<>> /\ wire = <<>> /\ nRead = 0
  /\ recv = [c |-> NULL, pos |-> 0] /\ decoder = [c |-> NULL, spos |-> 0, size |-> 0]
  /\ phase = "loop" /\ bytes = 0 /\ packet = Empty /\ got = <<>> /\ ops = 0 /\ plain \in BOOLEAN
  /\ lost = <<>> /\ fault = "none"

Taken(all) == (Pieces \cup {all}) \cap 1..all
Bitten(all) == ({1} \cup Pieces \cup {all}) \cap 1..all
ScriptNext ==
  \E s \in Slot :
    \/ lua_new_bytebuffer(s) \/ lua_bytebuffer_gc(s) \/ lua_new_wpacket(s)
    \/ \E o \in Slot : lua_bytebuffer_clone(s, o)
    \/ \E n \in Sizes : lua_bytebuffer_append_string(s, NewBytes(n))
    \/ \E n \in Sizes : lua_wpacket_write(s, NewBytes(n))
    \/ \E pos \in {0, Word} : lua_wpacket_rewrite(s, pos, NewBytes(1))
    \/ \E n \in Bitten(buffer[s].datasize) : lua_bytebuffer_read(s, n)
    \/ \E n \in {0, Len(Waiting) + buffer[s].datasize} : lua_stream_socket_send(s, n)
    \/ chk_datagram_socket_sendto(s)
Next ==
  \/ ScriptNext \/ Unpack \/ CallbackReturns \/ ReadReturns \/ release_socket
  \/ Sound /\ \E n \in Taken(Len(Waiting)) : process_write(n)
  \/ \E n \in Taken(Least(prepare_recv.room, Len(wire) - nRead)) : process_read(n)
Spec == Init /\ [][Next]_vars

-----------------------------------------------------------------------------
Ones(S) == Cardinality(S)
References(c) ==
  Ones({s \in Slot : buffer[s].head = c}) + Ones({i \in DOMAIN queue : queue[i].head = c})
  + Ones({d \in DOMAIN heap : heap[d].next = c}) + Ones({x \in {packet} : x.head = c})
  + Ones({x \in {recv} : x.c = c}) + Ones({x \in {decoder} : x.c = c /\ ~plain})
  + Ones({i \in DOMAIN lost : lost[i] = c})

(* Every chunk is kept exactly as long as a buffer, the socket, the        *)
(* decoder or another chunk refers to it: none is freed too early and none *)
(* stays behind, but for the reference that a copy on write forgets.       *)
RefsCounted ==
  Sound => /\ \A c \in DOMAIN heap : heap[c].refcount = References(c)
           /\ \A s \in Slot : buffer[s].head \in DOMAIN heap \cup {NULL}
           /\ \A i \in DOMAIN queue : queue[i].head \in DOMAIN heap

(* packet.Reader starts behind the header, which may end in the next chunk. *)
lua_new_rpacket(b) ==
  LET rest == heap[b.head].cap - b.spos
  IN IF rest < Word THEN [c |-> heap[b.head].next, readpos |-> Word - rest]
     ELSE [c |-> b.head, readpos |-> b.spos + Word]
lua_rpacket_readRawBytes(b) ==
  LET r == lua_new_rpacket(b) IN chk_bytechunk_read(heap, r.c, r.readpos, b.datasize - Word)

(* A buffer holds what its own script put there and what it received,      *)
(* whatever is done to the others that share its chunks; a reader finds    *)
(* the payload of a packet behind its header.                              *)
BuffersKeep ==
  /\ fault # "datagram"
  /\ Sound => \A s \in used :
       /\ Content(heap, buffer[s]) = ideal[s]
       /\ Len(ideal[s]) >= Word =>
            lua_rpacket_readRawBytes(buffer[s]) = SubSeq(ideal[s], Word + 1, Len(ideal[s]))

(* Send takes a buffer as it is: what is written to the stream, in however *)
(* many pieces and however late, are the bytes of the call.                *)
StreamAsSent == Sound => wire \o Waiting = sent

(* The packets of a stream, up to one with a bad length; the total of one  *)
(* wraps as the decoder's does, and at zero there is no end to them.       *)
PacketCut(p) ==
  LET length == Unsigned(SubSeq(p.rest, 1, Word))
      n == (Word + length) % Power(Word)
  IN IF Len(p.rest) <= Word \/ length = 0 \/ n = 0 \/ n > MaxPacket \/ n > Len(p.rest) THEN p
     ELSE [packets |-> Append(p.packets, SubSeq(p.rest, 1, n)),
           rest |-> SubSeq(p.rest, n + 1, Len(p.rest))]
Packets(stream) ==
  Repeated(PacketCut, Len(stream), [packets |-> <<>>, rest |-> stream]).packets
(* The decoder gives the packets of the stream, however the stream is cut  *)
(* into reads and chunks; the default one gives the bytes as they come.    *)
Decoded ==
  LET all == Packets(SubSeq(wire, 1, nRead))
  IN Sound => IF plain THEN phase # "unpack" => FlattenSeq(got) = SubSeq(wire, 1, nRead)
              ELSE IF phase = "loop" THEN got = all ELSE IsPrefix(got, all)
=============================================================================
