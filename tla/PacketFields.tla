---------------------------- MODULE PacketFields ----------------------------
(***************************************************************************)
(* What is in a packet: the fields that a packet.Writer of luabind's       *)
(* packet.h puts behind the length and that a packet.Reader takes out      *)
(* again, tables of Lua among them.  The bytes are one sequence here; how  *)
(* they lie in chunks is the matter of Packet.                             *)
(***************************************************************************)
EXTENDS Bytes, FiniteSets, TLC

CONSTANTS
  Exact,      \* up to where a lua_Number holds every integer (2^53)
  Numbers,    \* integers that scripts write
  Fractions,  \* the other numbers, by what distinguishes their encodings
  Strings,    \* strings, as sequences of bytes
  Table,      \* tables of Lua
  Luas,       \* what they may hold: lua_next's pairs of each, and which have a metatable
  MaxFields   \* a bound: fields in the packet

ASSUME FieldsAssumption ==
  /\ MaxFields \in Nat /\ Exact \in Nat
  /\ Numbers \subseteq Int /\ Fractions \subseteq Int

(* Values of Lua.  A table is a name.                                      *)
Number(n) == [type |-> "number", is |-> n]
Fraction(n) == [type |-> "fraction", is |-> n]
String(s) == [type |-> "string", is |-> s]
Boolean(b) == [type |-> "boolean", is |-> b]
TableOf(t) == [type |-> "table", is |-> t]
Nothing == [type |-> "nil", is |-> 0]
Keys == {"number", "fraction", "string"}
Values == Keys \cup {"boolean", "table"}

VARIABLES
  bytes,           \* the packet, without its length
  fields,          \* what was written: the kind, the value and where it is
  raw,             \* raw bytes close the packet
  readpos, read,   \* the Reader's position, -1 before there is one; the values it gave
  fault            \* what a value met that does not come out as it went in
vars == <<bytes, fields, raw, readpos, read, fault>>

L_TABLE == 1
L_STRING == 2
L_BOOL == 3
L_FLOAT == 4
L_DOUBLE == 5
L_UINT8 == 6
L_UINT16 == 7
L_UINT32 == 8
L_INT8 == 9
L_INT64 == 12
SizeOf == L_FLOAT :> 4 @@ L_DOUBLE :> 8 @@ L_UINT8 :> 1 @@ L_UINT16 :> 2 @@ L_UINT32 :> 4
          @@ L_INT8 :> 1 @@ 10 :> 2 @@ 11 :> 4 @@ L_INT64 :> 8

none == -1
(* in takes the place of what stands behind the first pos cells. *)
Replaced(cells, pos, in) ==
  [i \in DOMAIN cells |-> IF i - pos \in DOMAIN in THEN in[i - pos] ELSE cells[i]]

-----------------------------------------------------------------------------
(* Packing.  A state of it: the bytes, the tables that were met            *)
(* (cycle_check_list), whether an error ended it, and its fault.           *)

Packed(p, cells) == [p EXCEPT !.out = @ \o cells]
Met(p, what) == [p EXCEPT !.fault = IF @ = "none" THEN what ELSE @]

encode_double(p, n) ==
  IF Signed(Cells(n, 4)) = n THEN Packed(p, <<L_FLOAT>> \o Cells(n, 4))
  ELSE Packed(p, <<L_DOUBLE>> \o Cells(n, 8))

_lua_pack_string(p, s) == Packed(p, <<L_STRING>> \o Cells(Len(s), 4) \o s)

(* As many bytes of the value as the value says: none for false.           *)
_lua_pack_boolean(p, b) ==
  IF b THEN Packed(p, <<L_BOOL, 1>>) ELSE Met(Packed(p, <<L_BOOL>>), "false")

(* The number passes through a lua_Number, and whatever is not positive    *)
(* goes into one byte.                                                     *)
lua_tonumber(n) == IF n \in (-Exact)..Exact THEN n ELSE n - (n % Base)
Smallest(n) == IF n < Base THEN L_UINT8 ELSE IF n < Power(2) THEN L_UINT16
               ELSE IF n < Power(4) THEN L_UINT32 ELSE L_INT64
_lua_pack_number(p, n) ==
  LET v == lua_tonumber(n)
      type == IF v > 0 THEN Smallest(v) ELSE L_INT8
      q == Packed(p, <<type>> \o Cells(v, SizeOf[type]))
  IN IF v # n THEN Met(q, "rounded")
     ELSE IF v <= 0 /\ Signed(Cells(v, 1)) # v THEN Met(q, "negative") ELSE q

(* A table that was met before is a cycle to it, though it may only be in  *)
(* two places.                                                             *)
check_cycle(p, t) ==
  IF t \in p.met THEN [Met(p, "cycle") EXCEPT !.ok = FALSE] ELSE [p EXCEPT !.met = @ \cup {t}]

Packable(pair) == pair[1].type \in Keys /\ pair[2].type \in Values
BugCountsAll(pairs) == Len(pairs)
Counted(pairs) == Len(SelectSeq(pairs, Packable))

(* The pairs that can be packed, then their number in the place left for   *)
(* it.  A nested table must have no metatable.                             *)
RECURSIVE _lua_pack_table(_, _, _)
PackedValue(p, v) ==
  CASE v.type = "string" -> _lua_pack_string(p, v.is)
    [] v.type = "number" -> _lua_pack_number(p, v.is)
    [] v.type = "fraction" -> encode_double(p, v.is)
    [] v.type = "boolean" -> _lua_pack_boolean(p, v.is)
PackedPair(lua, p, pair) ==
  IF ~p.ok \/ ~Packable(pair) THEN p
  ELSE LET q == PackedValue(p, pair[1])
       IN IF pair[2].type # "table" THEN PackedValue(q, pair[2])
          ELSE IF pair[2].is \in lua.meta THEN [q EXCEPT !.ok = FALSE]
          ELSE _lua_pack_table(lua, q, pair[2].is)
_lua_pack_table(lua, p, t) ==
  LET q == check_cycle(p, t)
      size == Len(q.out) + 1
      r == FoldLeft(LAMBDA acc, pair : PackedPair(lua, acc, pair),
                    Packed(q, <<L_TABLE>> \o Cells(0, 4)), lua.pairs[t])
  IN IF ~q.ok THEN q ELSE IF ~r.ok THEN r
     ELSE [r EXCEPT !.out = Replaced(@, size, Cells(Counted(lua.pairs[t]), 4))]

(* What a table says once only what can be packed is left in it. *)
RECURSIVE Meaning(_, _)
Meaning(lua, t) ==
  LET Of(v) == IF v.type = "table" THEN Meaning(lua, v.is) ELSE v
      pairs == SelectSeq(lua.pairs[t], Packable)
  IN TableOf([i \in DOMAIN pairs |-> <<pairs[i][1], Of(pairs[i][2])>>])

-----------------------------------------------------------------------------
(* The Writer. *)

Writing == fault = "none" /\ readpos = none /\ Len(fields) < MaxFields /\ ~raw
Writes(kind, v, cells) ==
  /\ Writing /\ bytes' = bytes \o cells
  /\ fields' = Append(fields, [kind |-> kind, is |-> v, at |-> Len(bytes)])
  /\ UNCHANGED <<readpos, read>>
WritesPlain(kind, v, cells) == Writes(kind, v, cells) /\ UNCHANGED <<raw, fault>>

lua_wpacket_writeI8(n) == WritesPlain("I8", n, Cells(n, 1))
lua_wpacket_writeI16(n) == WritesPlain("I16", n, Cells(n, 2))
lua_wpacket_writeI32(n) == WritesPlain("I32", n, Cells(n, 4))
lua_wpacket_writeI64(n) == WritesPlain("I64", n, Cells(n, 8))
lua_wpacket_writeDub(n) == WritesPlain("Num", n, Cells(n, 8))
lua_wpacket_writeStr(s) == WritesPlain("Str", s, Cells(Len(s), 4) \o s)
lua_wpacket_writeRawBytes(s) == s # <<>> /\ Writes("Raw", s, s) /\ raw' = TRUE /\ UNCHANGED fault

(* A table that is refused leaves what was packed of it in the packet.     *)
lua_wpacket_writeTable(lua, t) ==
  LET p == _lua_pack_table(lua, [out |-> <<>>, met |-> {}, ok |-> TRUE, fault |-> "none"], t)
      met == IF p.ok \/ p.fault # "none" THEN p.fault ELSE "refused"
  IN Writes("Table", IF met = "none" THEN Meaning(lua, t) ELSE Nothing, p.out)
     /\ fault' = met /\ UNCHANGED raw

(* A position that GetWritePos gave is written again. *)
Rewrites(i, kind, n, k) ==
  /\ fault = "none" /\ readpos = none /\ fields[i].kind = kind
  /\ bytes' = Replaced(bytes, fields[i].at, Cells(n, k)) /\ fields' = [fields EXCEPT ![i].is = n]
  /\ UNCHANGED <<raw, readpos, read, fault>>
lua_wpacket_rewriteI8(i, n) == Rewrites(i, "I8", n, 1)
lua_wpacket_rewriteI16(i, n) == Rewrites(i, "I16", n, 2)
lua_wpacket_rewriteI32(i, n) == Rewrites(i, "I32", n, 4)
lua_wpacket_rewriteI64(i, n) == Rewrites(i, "I64", n, 8)

-----------------------------------------------------------------------------
(* The Reader.  More than remains is not read, and the value is 0.         *)

Remain(pos) == Len(bytes) - pos
lua_rpacket_read(pos, k) ==
  IF k > Remain(pos) THEN [out |-> Cells(0, k), pos |-> pos]
  ELSE [out |-> SubSeq(bytes, pos + 1, pos + k), pos |-> pos + k]
Gave(pos, v) == [pos |-> pos, is |-> v, ok |-> TRUE]
Failed(pos) == [pos |-> pos, is |-> Nothing, ok |-> FALSE]

_lua_unpack_boolean(pos) ==
  LET r == lua_rpacket_read(pos, 1) IN Gave(r.pos, Boolean(r.out # <<0>>))
(* Of the integers only those of one and of eight bytes keep their sign.   *)
_lua_unpack_number(pos, type) ==
  LET r == lua_rpacket_read(pos, SizeOf[type])
  IN Gave(r.pos, CASE type \in {L_FLOAT, L_DOUBLE} -> Fraction(Signed(r.out))
                   [] type \in {L_INT8, L_INT64} -> Number(Signed(r.out))
                   [] OTHER -> Number(Unsigned(r.out)))
_lua_unpack_string(pos) ==
  LET r == lua_rpacket_read(pos, 4)
      s == lua_rpacket_read(r.pos, Unsigned(r.out))
  IN IF Unsigned(r.out) > Remain(r.pos) THEN Failed(r.pos) ELSE Gave(s.pos, String(s.out))

RECURSIVE _lua_unpack_table(_)
UnpackedValue(pos, nested) ==
  LET r == lua_rpacket_read(pos, 1)
      type == r.out[1]
  IN CASE type = L_STRING -> _lua_unpack_string(r.pos)
       [] type \in L_FLOAT..L_INT64 -> _lua_unpack_number(r.pos, type)
       [] type = L_BOOL /\ nested -> _lua_unpack_boolean(r.pos)
       [] type = L_TABLE /\ nested -> _lua_unpack_table(r.pos)
       [] OTHER -> Failed(r.pos)
UnpackedPair(r) ==
  LET k == UnpackedValue(r.pos, FALSE)
      v == UnpackedValue(k.pos, TRUE)
  IN IF ~r.ok \/ ~k.ok \/ ~v.ok THEN Failed(r.pos)
     ELSE Gave(v.pos, [r.is EXCEPT !.is = Append(@, <<k.is, v.is>>)])
_lua_unpack_table(pos) ==
  LET r == lua_rpacket_read(pos, 4)
      size == Unsigned(r.out)
  IN IF size > Remain(r.pos) THEN Failed(r.pos)
     ELSE FoldLeft(LAMBDA acc, i : UnpackedPair(acc), Gave(r.pos, TableOf(<<>>)), [i \in 1..size |-> i])

lua_new_rpacket ==
  /\ fault = "none" /\ fields # <<>> /\ readpos = none /\ readpos' = 0
  /\ UNCHANGED <<bytes, fields, raw, read, fault>>

(* The scripts of both sides agree on the fields: each is read as what it  *)
(* was written.                                                            *)
Reads(kind, r) ==
  /\ readpos # none /\ Len(read) < Len(fields) /\ fields[Len(read) + 1].kind = kind
  /\ readpos' = r.pos /\ read' = Append(read, r.is)
  /\ UNCHANGED <<bytes, fields, raw, fault>>
Integer(k) == LET r == lua_rpacket_read(readpos, k) IN Gave(r.pos, Number(Signed(r.out)))

lua_rpacket_readI8 == Reads("I8", Integer(1))
lua_rpacket_readI16 == Reads("I16", Integer(2))
lua_rpacket_readI32 == Reads("I32", Integer(4))
lua_rpacket_readI64 == Reads("I64", Integer(8))
lua_rpacket_readDub == Reads("Num", Integer(8))
lua_rpacket_readStr == Reads("Str", _lua_unpack_string(readpos))
lua_rpacket_readRawBytes ==
  Reads("Raw", Gave(Len(bytes), String(lua_rpacket_read(readpos, Remain(readpos)).out)))
lua_rpacket_readTable ==
  LET r == lua_rpacket_read(readpos, 1)
  IN Reads("Table", IF r.out # <<L_TABLE>> THEN Failed(r.pos) ELSE _lua_unpack_table(r.pos))

-----------------------------------------------------------------------------
Init ==
  /\ bytes = <<>> /\ fields = <<>> /\ raw = FALSE /\ readpos = none /\ read = <<>> /\ fault = "none"

Next ==
  \/ \E n \in Numbers : \/ lua_wpacket_writeI8(n) \/ lua_wpacket_writeI16(n)
                       \/ lua_wpacket_writeI32(n) \/ lua_wpacket_writeI64(n)
  \/ \E n \in Fractions : lua_wpacket_writeDub(n)
  \/ \E s \in Strings : lua_wpacket_writeStr(s) \/ lua_wpacket_writeRawBytes(s)
  \/ \E lua \in Luas, t \in Table : lua_wpacket_writeTable(lua, t)
  \/ \E i \in DOMAIN fields, n \in Numbers :
       \/ lua_wpacket_rewriteI8(i, n) \/ lua_wpacket_rewriteI16(i, n)
       \/ lua_wpacket_rewriteI32(i, n) \/ lua_wpacket_rewriteI64(i, n)
  \/ lua_new_rpacket
  \/ lua_rpacket_readI8 \/ lua_rpacket_readI16 \/ lua_rpacket_readI32 \/ lua_rpacket_readI64
  \/ lua_rpacket_readDub \/ lua_rpacket_readStr \/ lua_rpacket_readRawBytes \/ lua_rpacket_readTable
Spec == Init /\ [][Next]_vars

-----------------------------------------------------------------------------
Width == [I8 |-> 1, I16 |-> 2, I32 |-> 4, I64 |-> 8, Num |-> 8]
Meant(f) ==
  CASE f.kind \in DOMAIN Width -> Number(Signed(Cells(f.is, Width[f.kind])))
    [] f.kind \in {"Str", "Raw"} -> String(f.is)
    [] f.kind = "Table" -> f.is

(* A Reader that asks for the fields in the order in which a Writer put    *)
(* them gets each one back, cut to its width, whatever was rewritten since *)
(* and whatever stands in front of it or behind it: every length and every *)
(* count of a table is right.  Tables that hold false, an integer below    *)
(* what one byte holds or beyond a lua_Number, or one table twice are not. *)
FieldsKept == \A i \in DOMAIN read : read[i] = Meant(fields[i])
=============================================================================
