-------------------------------- MODULE Tdf --------------------------------
(***************************************************************************)
(* The format of the Blaze protocol: a message is a sequence of labelled   *)
(* values, some of which hold others.  A Packet is filled by put_... and   *)
(* push_... calls (what stands between a push and its pop is given to the  *)
(* push here) and written to a buffer; the Parser reads a buffer into a    *)
(* document.                                                               *)
(*                                                                         *)
(* The buffer is a sequence of marks, each standing for one byte or more:  *)
(*   <<"head", label, type>>, <<"byte", n>>, <<"text", v>>, <<"blob", v>>  *)
(*   and for an integer one mark <<"int", v, k>> for its k-th byte.        *)
(* A value v is [of |-> whose it is, as |-> its C++ type, bytes |-> how    *)
(* many an integer of this size takes: one for the first 6 bits and one    *)
(* for every 7 bits more].                                                 *)
(***************************************************************************)
EXTENDS Integers, Sequences, SequencesExt

Types == <<"Integer", "String", "Binary", "Struct", "List", "Map", "Union",
           "IntegerList", "ObjectType", "ObjectId">>
Code(type) == (CHOOSE i \in DOMAIN Types : Types[i] = type) - 1
Unset == 127    \* NetworkAddressMember
XboxClientAddress == 0
IpPairAddress_Member == 2
Joined(s, F(_)) == FlattenSeq([i \in DOMAIN s |-> F(s[i])])
NoValue == [of |-> <<>>, as |-> "none", bytes |-> 1]

-----------------------------------------------------------------------------
(* Packet                                                                  *)

put_integer(l, v) == << <<l, [type |-> "Integer", v |-> v]>> >>
put_string(l, v) == << <<l, [type |-> "String", v |-> v]>> >>
put_blob(l) == << <<l, [type |-> "Binary", v |-> NoValue]>> >>
put_object_id(l, x, y, z) == << <<l, [type |-> "ObjectId", content |-> <<x, y, z>>]>> >>
push_integer_list(l, values) == << <<l, [type |-> "IntegerList", content |-> values]>> >>
push_struct(l, members) == << <<l, [type |-> "Struct", content |-> members]>> >>
push_union(l, member, members) ==
    << <<l, [type |-> "Union", member |-> member, content |-> members]>> >>
push_map(l, keyType, valueType, entries) ==
    << <<l, [type |-> "Map", key |-> keyType, value |-> valueType, content |-> entries]>> >>
push_list(l, type, isStub, content) ==
    << <<l, [type |-> "List", of |-> type, stub |-> isStub, content |-> content]>> >>
\* What was put with no label, or with a key for a label.
Item(put) == put[1][2]
Entry(key, put) == <<[v |-> key], put[1][2]>>

encode_tdf_integer(v) == [k \in 1..v.bytes |-> <<"int", v, k>>]

RECURSIVE WriteType(_, _), WriteMembers(_)
WriteMembers(members) ==
    Joined(members, LAMBDA m : << <<"head", m[1], m[2].type>> >> \o WriteType(m[2].type, m[2]))
Byte(n) == << <<"byte", n>> >>
\* A list and a map say of which type their items are; an item is not asked.
WriteType(type, x) ==
    CASE type = "Integer" -> encode_tdf_integer(x.v)
      [] type = "String" -> << <<"text", x.v>> >>
      [] type = "Binary" -> << <<"blob", x.v>> >>
      [] type = "IntegerList" -> Byte(Len(x.content) % 256) \o Joined(x.content, encode_tdf_integer)
      [] type = "ObjectId" -> Joined(x.content, encode_tdf_integer)
      [] type = "Union" -> Byte(x.member) \o IF x.member = Unset THEN <<>> ELSE WriteMembers(x.content)
      [] type = "Struct" -> WriteMembers(x.content) \o Byte(0)
      [] type = "List" -> Byte(Code(x.of)) \o Byte(Len(x.content) % 256)
             \o (IF x.stub THEN Byte(2) ELSE <<>>)
             \o Joined(x.content, LAMBDA item : WriteType(x.of, item))
      [] type = "Map" -> Byte(Code(x.key)) \o Byte(Code(x.value)) \o Byte(Len(x.content) % 256)
             \o Joined(x.content, LAMBDA e : WriteType(x.key, e[1]) \o WriteType(x.value, e[2]))
Packet_Write(packet) == WriteMembers(packet)

-----------------------------------------------------------------------------
(* Parser: what is read, the place after it, and whether it was there.     *)

Got(ok, at, x) == [ok |-> ok, at |-> at, x |-> x]
Lost(at) == Got(FALSE, at, [type |-> "Nothing"])
Is(b, at, mark) == at <= Len(b) /\ b[at][1] = mark
eof(b, at) == at > Len(b)

\* No more than eight bytes of an integer are read, which is 55 bits: of a longer
\* one the rest stays, and is taken for what comes next (Lost, here).
Cut(v) == [v EXCEPT !.of = Append(@, "cut")]
UpTo(most, b, at) ==
    IF ~Is(b, at, "int") \/ b[at][3] # 1 THEN Lost(at)
    ELSE LET v == b[at][2]
         IN IF v.bytes <= most THEN Got(TRUE, at + v.bytes, v) ELSE Got(TRUE, at + most, Cut(v))
SevenBytes(b, at) == UpTo(7, b, at)    \* Mutant
decode_tdf_integer(b, at) == UpTo(8, b, at)
ReadByte(b, at) == IF Is(b, at, "byte") THEN Got(TRUE, at + 1, b[at][2]) ELSE Lost(at)
ReadInteger(b, at) ==
    LET r == decode_tdf_integer(b, at)
    IN IF r.ok THEN Got(TRUE, r.at, [type |-> "Integer", v |-> r.x]) ELSE r
ReadString(b, at) ==
    IF Is(b, at, "text") THEN Got(TRUE, at + 1, [type |-> "String", v |-> b[at][2]]) ELSE Lost(at)
ReadBlob(b, at) ==
    IF Is(b, at, "blob") THEN Got(TRUE, at + 1, [type |-> "Binary", v |-> b[at][2]]) ELSE Lost(at)

\* n times one after the other, each result added to a sequence.
Repeat(n, at, R(_)) ==
    FoldLeft(LAMBDA r, i : IF r.ok THEN LET s == R(r.at) IN Got(s.ok, s.at, Append(r.x, s.x)) ELSE r,
             Got(TRUE, at, <<>>), [i \in 1..n |-> i])
ReadIntegers(b, at, n, type) ==
    LET r == Repeat(n, at, LAMBDA a : decode_tdf_integer(b, a))
    IN Got(r.ok, r.at, [type |-> type, content |-> r.x])
ReadIntegerList(b, at) ==
    LET n == ReadByte(b, at)
    IN IF n.ok THEN ReadIntegers(b, n.at, n.x, "IntegerList") ELSE n
ReadObjectId(b, at) == ReadIntegers(b, at, 3, "ObjectId")

\* An array takes what is read; of an object a member that is there is replaced.
AddObject(parent, label, x) ==
    IF parent.array THEN [parent EXCEPT !.content = Append(@, x)]
    ELSE IF \E i \in DOMAIN parent.content : parent.content[i][1] = label
    THEN [parent EXCEPT !.content = [i \in DOMAIN @ |-> IF @[i][1] = label THEN <<label, x>> ELSE @[i]]]
    ELSE [parent EXCEPT !.content = Append(@, <<label, x>>)]
Empty(isArray) == [array |-> isArray, content |-> <<>>]

RECURSIVE ReadAny(_, _, _), ReadValues(_, _)
\* A header with nothing behind it is no value.
ReadValue(b, r) ==
    IF ~Is(b, r.at, "head") THEN Lost(r.at)
    ELSE IF eof(b, r.at + 1) THEN Got(TRUE, r.at + 1, r.x)
    ELSE LET s == ReadAny(b, r.at + 1, b[r.at][3])
         IN IF s.ok THEN Got(TRUE, s.at, AddObject(r.x, b[r.at][2], s.x)) ELSE s
\* Up to a zero byte.
ReadValues(b, r) ==
    IF ~r.ok THEN r
    ELSE IF Is(b, r.at, "byte") /\ b[r.at][2] = 0 THEN Got(TRUE, r.at + 1, r.x)
    ELSE ReadValues(b, ReadValue(b, r))
ReadStruct(b, at) ==
    LET r == ReadValues(b, Got(TRUE, at, Empty(FALSE)))
    IN IF r.ok THEN Got(TRUE, r.at, [type |-> "Struct", content |-> r.x.content]) ELSE r
ReadUnion(b, at) ==
    LET m == ReadByte(b, at)
        start == Got(m.ok, m.at, Empty(FALSE))
        r == IF m.ok /\ m.x # Unset THEN ReadValue(b, start) ELSE start
    IN IF r.ok THEN Got(TRUE, r.at, [type |-> "Union", member |-> m.x, content |-> r.x.content]) ELSE r
ReadItem(b, at, type) ==
    CASE type = "Integer" -> ReadInteger(b, at)
      [] type = "String" -> ReadString(b, at)
      [] type = "Struct" -> ReadStruct(b, at)
      [] OTHER -> Got(TRUE, at, [type |-> "Nothing"])
\* A stub holds the members of one struct, without their labels.
ReadList(b, at) ==
    LET t == ReadByte(b, at)
        n == ReadByte(b, t.at)
        next == ReadByte(b, n.at)
        isStub == Types[t.x + 1] = "Struct" /\ next.ok /\ next.x = 2
        stub == ReadValues(b, Got(TRUE, next.at, Empty(TRUE)))
        r == IF ~isStub THEN Repeat(n.x, n.at, LAMBDA a : ReadItem(b, a, Types[t.x + 1]))
             ELSE IF stub.ok THEN [stub EXCEPT !.x = @.content] ELSE stub
    IN IF t.ok /\ n.ok /\ r.ok
       THEN Got(TRUE, r.at, [type |-> "List", of |-> Types[t.x + 1], stub |-> isStub, content |-> r.x])
       ELSE Lost(at)
ReadMap(b, at) ==
    LET t == Repeat(3, at, LAMBDA a : ReadByte(b, a))
        OneEntry(a) ==
            LET k == ReadItem(b, a, Types[t.x[1] + 1])
                v == ReadItem(b, k.at, Types[t.x[2] + 1])
            IN IF k.ok /\ v.ok THEN Got(TRUE, v.at, <<[v |-> k.x.v], v.x>>) ELSE Lost(a)
        r == Repeat(t.x[3], t.at, OneEntry)
    IN IF t.ok /\ r.ok
       THEN Got(TRUE, r.at, [type |-> "Map", key |-> Types[t.x[1] + 1],
                             value |-> Types[t.x[2] + 1], content |-> r.x])
       ELSE Lost(at)
ReadAny(b, at, type) ==
    CASE type = "Integer" -> ReadInteger(b, at)
      [] type = "String" -> ReadString(b, at)
      [] type = "Binary" -> ReadBlob(b, at)
      [] type = "Struct" -> ReadStruct(b, at)
      [] type = "Union" -> ReadUnion(b, at)
      [] type = "List" -> ReadList(b, at)
      [] type = "Map" -> ReadMap(b, at)
      [] type = "IntegerList" -> ReadIntegerList(b, at)
      [] type = "ObjectId" -> ReadObjectId(b, at)
RECURSIVE ReadAll(_, _)
ReadAll(b, r) == IF r.ok /\ ~eof(b, r.at) THEN ReadAll(b, ReadValue(b, r)) ELSE r
Parser_Read(b) == ReadAll(b, Got(TRUE, 1, Empty(FALSE)))

-----------------------------------------------------------------------------
(* The document a packet should be read as.                                *)

RECURSIVE Document(_)
Cast(type, x) == IF type = "Integer" THEN [type |-> type, v |-> x.v] ELSE x
Plain(x) ==
    CASE x.type \in {"Struct", "Union"} -> [x EXCEPT !.content = Document(@)]
      [] x.type = "List" /\ x.stub ->
             [x EXCEPT !.content = Joined(@, LAMBDA s : [i \in DOMAIN s.content |->
                                                          Document(s.content)[i][2]])]
      [] x.type = "List" -> [x EXCEPT !.content =
             [i \in DOMAIN @ |-> Document(<< <<"", Cast(x.of, @[i])>> >>)[1][2]]]
      [] x.type = "Map" -> [x EXCEPT !.content = [i \in DOMAIN @ |->
             <<@[i][1], Document(<< <<"", Cast(x.value, @[i][2])>> >>)[1][2]>>]]
      [] OTHER -> x
Document(members) == [i \in DOMAIN members |-> <<members[i][1], Plain(members[i][2])>>]
=============================================================================
