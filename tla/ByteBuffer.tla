----------------------------- MODULE ByteBuffer -----------------------------
(***************************************************************************)
(* The memory of chuck's packets, chk_bytechunk.c: chunks of bytes that    *)
(* count their references and are linked into lists, and buffers that are  *)
(* a piece of such a list, which several buffers may share.  The operators *)
(* take a heap and a buffer and return what the function leaves behind.    *)
(***************************************************************************)
EXTENDS Bytes, FiniteSets, FiniteSetsExt

CONSTANTS
  Word,      \* sizeof(uint32_t), the length of the header
  MinCap     \* the capacity of the smallest chunk: 64 less the chunk's own 16
             \* bytes, since the macro MAX (chk_util.h:21) has no parentheses

ASSUME HeapAssumption == {Word, MinCap} \subseteq Nat \ {0}

NULL == 0
Least(a, b) == IF a < b THEN a ELSE b
Greatest(a, b) == IF a > b THEN a ELSE b
Unwritten == Base   \* what malloc leaves in a chunk: no byte that anybody wrote

Doubled(d) == IF d.pow2 < d.size THEN [d EXCEPT !.pow2 = 2 * @] ELSE d
chk_size_of_pow2(n) == Repeated(Doubled, n, [pow2 |-> 1, size |-> n]).pow2

-----------------------------------------------------------------------------
(* Chunks. *)

NextChunk(h) == CHOOSE c \in 1..(Cardinality(DOMAIN h) + 1) : c \notin DOMAIN h

chk_bytechunk_new(h, len, bytes) ==
  LET cap == Greatest(MinCap, chk_size_of_pow2(Greatest(len, 1)))
      c == NextChunk(h)
      new == [refcount |-> 1, cap |-> cap, next |-> NULL,
              data |-> [i \in 1..cap |-> IF i <= Len(bytes) THEN bytes[i] ELSE Unwritten]]
  IN [x \in DOMAIN h \cup {c} |-> IF x = c THEN new ELSE h[x]]

chk_bytechunk_retain(h, c) == IF c = NULL THEN h ELSE [h EXCEPT ![c].refcount = @ + 1]

(* The last reference frees the chunk and lets go of the next one.         *)
BugReleaseOne(h, c) ==
  IF h[c].refcount > 1 THEN [h EXCEPT ![c].refcount = @ - 1]
  ELSE [x \in DOMAIN h \ {c} |-> h[x]]
LetGo(r) ==
  IF r.c = NULL THEN r
  ELSE IF r.h[r.c].refcount > 1
       THEN [h |-> [r.h EXCEPT ![r.c].refcount = @ - 1], c |-> NULL]
       ELSE [h |-> [x \in DOMAIN r.h \ {r.c} |-> r.h[x]], c |-> r.h[r.c].next]
chk_bytechunk_release(h, c) == Repeated(LetGo, Cardinality(DOMAIN h), [h |-> h, c |-> c]).h

(* The places of n bytes from position pos of chunk c on, as far as the    *)
(* list goes; positions count from 0, places in a chunk from 1.            *)
Place(h, c, pos) == IF pos < h[c].cap THEN <<c, pos + 1>> ELSE <<h[c].next, 1>>
PlaceTaken(w) ==
  IF w.at[1] = NULL THEN w
  ELSE [h |-> w.h, at |-> Place(w.h, w.at[1], w.at[2]), places |-> Append(w.places, w.at)]
Places(h, c, pos, n) ==
  IF c = NULL THEN <<>>
  ELSE Repeated(PlaceTaken, n, [h |-> h, at |-> Place(h, c, pos), places |-> <<>>]).places

Loaded(h, places) == [i \in DOMAIN places |-> h[places[i][1]].data[places[i][2]]]
chk_bytechunk_read(h, c, pos, size) == Loaded(h, Places(h, c, pos, size))

Stored(h, places, in) ==
  [c \in DOMAIN h |->
     LET now(j) == {i \in DOMAIN in \cap DOMAIN places : places[i] = <<c, j>>}
     IN [h[c] EXCEPT !.data = [j \in DOMAIN @ |->
           IF now(j) = {} THEN @[j] ELSE in[CHOOSE i \in now(j) : TRUE]]]]
chk_bytechunk_write(h, c, pos, in) == Stored(h, Places(h, c, pos, Len(in)), in)

-----------------------------------------------------------------------------
(* Buffers.  A result is the heap and the buffer, what the function       *)
(* returned, which of its faults it met and the chunk it lost.            *)

NEED_COPY_ON_WRITE == "NEED_COPY_ON_WRITE"
READ_ONLY == "READ_ONLY"
Buffer(head, tail, spos, datasize, append_pos, flags) ==
  [head |-> head, tail |-> tail, spos |-> spos, datasize |-> datasize,
   append_pos |-> append_pos, flags |-> flags]
Empty == Buffer(NULL, NULL, 0, 0, 0, {})

Result(h, b, fault, lost) == [h |-> h, b |-> b, ret |-> 0, fault |-> fault, lost |-> lost]
Done(h, b) == Result(h, b, "none", NULL)
Refused(h, b) == [h |-> h, b |-> b, ret |-> -1, fault |-> "none", lost |-> NULL]

(* Over a chunk to share, where append_pos stays as it was, zero, or, if    *)
(* there is none, over a new one.                                          *)
chk_bytebuffer_init(h, o, spos, datasize, flags) ==
  LET c == NextChunk(h)
  IN IF o = NULL THEN Done(chk_bytechunk_new(h, datasize, <<>>), Buffer(c, c, 0, 0, 0, flags))
     ELSE Done(chk_bytechunk_retain(h, o), Buffer(o, o, spos, datasize, 0, flags))
chk_bytebuffer_new(h, initcap) == chk_bytebuffer_init(h, NULL, 0, initcap, {})
chk_bytebuffer_new_bychunk(h, c, spos, datasize) ==
  chk_bytebuffer_init(h, c, spos, datasize, {})
chk_bytebuffer_new_bychunk_readonly(h, c, spos, datasize) ==
  chk_bytebuffer_init(h, c, spos, datasize, {READ_ONLY})
(* chk_bytebuffer_share does the same to a buffer that has no chunk yet.   *)
BugCloneFromStart(h, b) == chk_bytebuffer_init(h, b.head, 0, b.datasize, {NEED_COPY_ON_WRITE})
chk_bytebuffer_clone(h, b) == chk_bytebuffer_init(h, b.head, b.spos, b.datasize, {NEED_COPY_ON_WRITE})
chk_bytebuffer_finalize(h, b) == IF b.head = NULL THEN h ELSE chk_bytechunk_release(h, b.head)

(* The places of a buffer's bytes, as far as its list goes. *)
DataPlaces(h, b) == Places(h, b.head, b.spos, b.datasize)
chk_bytebuffer_read(h, b, offset, size) ==
  IF offset > b.datasize \/ b.head = NULL THEN <<>>
  ELSE Loaded(h, SubSeq(DataPlaces(h, b), offset + 1, Least(offset + size, Len(DataPlaces(h, b)))))
Content(h, b) == chk_bytebuffer_read(h, b, 0, b.datasize)

(* The copy takes cap bytes from the first chunk, though they begin at     *)
(* spos; the reference to the old chunks is not given back.                *)
CopiesWrong(h, b) == b.head # NULL /\ b.spos + Least(h[b.head].cap, b.datasize) > h[b.head].cap
chk_bytebuffer_do_copy(h, b) ==
  LET c == NextChunk(h)
  IN Result(chk_bytechunk_new(h, b.datasize, Content(h, b)),
            Buffer(c, c, 0, b.datasize, b.datasize, b.flags \ {NEED_COPY_ON_WRITE}),
            IF CopiesWrong(h, b) THEN "copy" ELSE "none", b.head)
Writable(h, b) == IF NEED_COPY_ON_WRITE \in b.flags THEN chk_bytebuffer_do_copy(h, b) ELSE Done(h, b)

(* Room for size more bytes in the tail. *)
WithTail(h, b, size) ==
  IF b.tail = NULL THEN chk_bytebuffer_init(h, NULL, 0, size, b.flags) ELSE Done(h, b)
Extended(h, b, size) ==
  LET tail == h[b.tail]
      To(c) == Buffer(b.head, c, b.spos, b.datasize, 0, b.flags)
      c == NextChunk(h)
  IN IF b.append_pos < tail.cap THEN Done(h, b)
     ELSE IF tail.next # NULL THEN Done(h, To(tail.next))
     ELSE Done([chk_bytechunk_new(h, size, <<>>) EXCEPT ![b.tail].next = c], To(c))
AppendSome(a) ==
  IF a.in = <<>> THEN a
  ELSE LET r == Extended(a.h, a.b, Len(a.in))
           n == Least(r.h[r.b.tail].cap - r.b.append_pos, Len(a.in))
       IN [h  |-> chk_bytechunk_write(r.h, r.b.tail, r.b.append_pos, SubSeq(a.in, 1, n)),
           b  |-> Buffer(r.b.head, r.b.tail, r.b.spos, r.b.datasize + n, r.b.append_pos + n, r.b.flags),
           in |-> SubSeq(a.in, n + 1, Len(a.in))]
AppendAll(h, b, in) == Repeated(AppendSome, Len(in), [h |-> h, b |-> b, in |-> in])

(* A buffer over a chunk of somebody else's appends at 0 instead of its    *)
(* end, and once that chunk is read to its end the tail is one that may    *)
(* have been freed.                                                        *)
EndOf(h, b) == IF b.datasize = 0 THEN <<b.head, b.spos>> ELSE Last(DataPlaces(h, b))
AtEnd(h, b) == b.tail = NULL \/ EndOf(h, b) = <<b.tail, b.append_pos>>
chk_bytebuffer_append(h, b, in) ==
  IF READ_ONLY \in b.flags THEN Refused(h, b)
  ELSE IF NEED_COPY_ON_WRITE \notin b.flags /\ b.tail \notin DOMAIN h \cup {NULL}
  THEN Result(h, b, "freed", NULL)
  ELSE LET w == Writable(h, b)
           r == WithTail(w.h, w.b, Len(in))
           a == AppendAll(r.h, r.b, in)
       IN Result(a.h, a.b,
                 IF w.fault # "none" THEN w.fault
                 ELSE IF ~AtEnd(r.h, r.b) THEN "append" ELSE "none", w.lost)

(* Each chunk that is read to its end is cut off the list and let go.      *)
DrainSome(d) ==
  LET n == Least(d.h[d.b.head].cap - d.b.spos, d.size)
      next == d.h[d.b.head].next
      Moved(head, tail, spos) ==
        Buffer(head, tail, spos, d.b.datasize - n, d.b.append_pos, d.b.flags)
      cut == chk_bytechunk_release([d.h EXCEPT ![d.b.head].next = NULL], d.b.head)
  IN IF d.size = 0 THEN d
     ELSE IF n = d.size /\ d.b.spos + n < d.h[d.b.head].cap
          THEN [h |-> d.h, b |-> Moved(d.b.head, d.b.tail, d.b.spos + n), size |-> 0]
     ELSE [h |-> cut, b |-> Moved(next, IF next = NULL THEN NULL ELSE d.b.tail, 0), size |-> d.size - n]
Drained(h, b, size) == Repeated(DrainSome, size, [h |-> h, b |-> b, size |-> size])

chk_bytebuffer_read_drain(h, b, size) ==
  IF b.head = NULL \/ size > b.datasize THEN Refused(h, b)
  ELSE Done(Drained(h, b, size).h, Drained(h, b, size).b)

(* The chunks it cuts off though somebody else refers to them as well.     *)
Chunks(h, b) == {DataPlaces(h, b)[i][1] : i \in DOMAIN DataPlaces(h, b)}
CutShared(h, b, size) ==
  {c \in DOMAIN h : h[c].refcount > 1 /\ h[c].next # NULL
     /\ \E i \in 1..size : DataPlaces(h, b)[i] = <<c, h[c].cap>>}

(* At offset 0 the position to write at is not initialised.                *)
Shares(h, b) == \E i \in 1..b.datasize : h[DataPlaces(h, b)[i][1]].refcount > 1
chk_bytebuffer_rewrite(h, b, offset, in) ==
  IF READ_ONLY \in b.flags \/ offset + Len(in) > b.datasize \/ b.head = NULL THEN Refused(h, b)
  ELSE LET w == Writable(h, b)
           places == SubSeq(DataPlaces(w.h, w.b), offset + 1, w.b.datasize)
       IN Result(Stored(w.h, places, in), w.b,
                 IF w.fault # "none" THEN w.fault
                 ELSE IF offset = 0 THEN "uninitialised"
                 ELSE IF Shares(w.h, w.b) THEN "shared" ELSE "none", w.lost)
=============================================================================
