-------------------------------- MODULE Wire --------------------------------
(***************************************************************************)
(* What message bodies are made of: the notations of types.rs,             *)
(* types/value.rs and consistency.rs, written by serialize and read by     *)
(* from_cursor.                                                            *)
(*                                                                         *)
(* A body is a sequence of cells, one for each number, string or byte      *)
(* array.  A cell keeps the width it was written with: what is read with   *)
(* another one is refused here and garbage in the code, in either case not *)
(* what was written.  Strings and lists are shorter than 2^15.             *)
(***************************************************************************)
EXTENDS Integers, Sequences, SequencesExt, FiniteSetsExt

CONSTANTS
    None,           \* Option::None
    Null, NotSet,   \* a byte array of length -1 and a value of length -2
    Empty           \* a byte array of length 0

Cell(kind, val) == <<[kind |-> kind, val |-> val]>>

Byte(n) == Cell("byte", n)
CIntShort(n) == Cell("short", n)
CInt(n) == Cell("int", n)
CLong(n) == Cell("long", n)

serialize_str(s) == Cell("string", s)
serialize_str_long(s) == Cell("long string", s)
serialize_str_list(list) ==
    FoldLeft(LAMBDA cells, s : cells \o serialize_str(s), CIntShort(Len(list)), list)

\* CBytes, CBytesShort and Value: a length, negative if there are no bytes.
CBytesSerialize(b) == Cell("bytes", b)
CBytesShortSerialize(b) == Cell("short bytes", b)
ValueSerialize(value) == Cell("bytes", value)

SocketAddrSerialize(a) == Byte(a.family) \o Cell("octets", a.ip) \o CInt(a.port)

ConsistencyCode ==
    [Any |-> 0, One |-> 1, Two |-> 2, Three |-> 3, Quorum |-> 4, All |-> 5, LocalQuorum |-> 6,
     EachQuorum |-> 7, Serial |-> 8, LocalSerial |-> 9, LocalOne |-> 10]
ConsistencySerialize(c) == CIntShort(ConsistencyCode[c])

\* if let Some(value) = ... { value.serialize() }
IfSome(value, Serialize(_)) == IF value = None THEN <<>> ELSE Serialize(value)

\* Flags are a set, and a number on the wire; unknown bits are dropped.
Bits(flags, bit) == MapThenSumSet(LAMBDA f : bit[f], flags)
FromBitsTruncate(n, bit) == {f \in DOMAIN bit : (n \div bit[f]) % 2 = 1}

-----------------------------------------------------------------------------
(***************************************************************************)
(* Reading.  A result is what was read and the cells after it.             *)
(***************************************************************************)
Ok(in, val) == [ok |-> TRUE, in |-> in, val |-> val]
Err == [ok |-> FALSE, in |-> <<>>, val |-> None]

ReadCell(in, kind) ==
    IF in # <<>> /\ Head(in).kind = kind THEN Ok(Tail(in), Head(in).val) ELSE Err

\* and_then
Then(r, F(_)) == IF r.ok THEN F(r) ELSE Err
\* try_from, of a value that is not always one of the domain.
TryFrom(r, of) == Then(r, LAMBDA x : IF x.val \in DOMAIN of THEN Ok(x.in, of[x.val]) ELSE Err)

\* Read, n times.
Repeat(in, n, Read(_)) ==
    FoldLeft(LAMBDA r, i : Then(r, LAMBDA x :
                 Then(Read(x.in), LAMBDA y : Ok(y.in, Append(x.val, y.val)))),
             Ok(in, <<>>), [i \in 1..n |-> i])

from_cursor_string_list(in) ==
    Then(ReadCell(in, "short"), LAMBDA len :
        Repeat(len.in, len.val, LAMBDA i : ReadCell(i, "string")))

\* Not set is read as null.
CBytesFromCursor(in) ==
    Then(ReadCell(in, "bytes"), LAMBDA x : Ok(x.in, IF x.val = NotSet THEN Null ELSE x.val))
\* No length is zero: Value::from_cursor wants at least one byte.
ValueFromCursor(in) ==
    Then(ReadCell(in, "bytes"), LAMBDA x : IF x.val = Empty THEN Err ELSE x)

SocketAddrFromCursor(in) ==
    Then(ReadCell(in, "byte"), LAMBDA n :
        Then(ReadCell(n.in, "octets"), LAMBDA ip :
            Then(ReadCell(ip.in, "int"), LAMBDA port :
                IF n.val \in {4, 16}
                THEN Ok(port.in, [family |-> n.val, ip |-> ip.val, port |-> port.val]) ELSE Err)))

ConsistencyOf ==
    [n \in 0..10 |-> <<"Any", "One", "Two", "Three", "Quorum", "All", "LocalQuorum", "EachQuorum",
                       "Serial", "LocalSerial", "LocalOne">>[n + 1]]
ConsistencyFromCursor(in) == TryFrom(ReadCell(in, "short"), ConsistencyOf)

ReadAs(kind, in) ==
    CASE kind = "consistency" -> ConsistencyFromCursor(in)
      [] kind = "bytes"       -> CBytesFromCursor(in)
      [] kind = "string list" -> from_cursor_string_list(in)
      [] kind = "inet"        -> SocketAddrFromCursor(in)
      [] OTHER                -> ReadCell(in, kind)

\* A structure is read field by field.
Begin(in) == Ok(in, <<>>)
Field(r, name, Read(_)) ==
    Then(r, LAMBDA x : Then(Read(x.in), LAMBDA y : Ok(y.in, x.val @@ (name :> y.val))))
Fields(r, list) ==
    FoldLeft(LAMBDA x, f : Field(x, f[1], LAMBDA in : ReadAs(f[2], in)), r, list)
\* if flags.contains(...) { Some(...) } else { None }
Option(r, name, present, Read(_)) ==
    IF present THEN Field(r, name, Read) ELSE Field(r, name, LAMBDA in : Ok(in, None))
Struct(in, list) == Fields(Begin(in), list)
=============================================================================
