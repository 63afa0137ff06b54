------------------------------- MODULE Thrift -------------------------------
(***************************************************************************)
(* Thrift's binary encoding of structs, as the code generated for the RPC  *)
(* service uses it.  The generated methods of all structs have one shape:  *)
(* they differ in the fields they read, write and measure.  ApiCodec and   *)
(* FastCodec give these fields, struct by struct, for the two generated    *)
(* codecs; this module gives the shape.                                    *)
(*                                                                         *)
(* A message is a sequence of cells: field headers, values and stops.  A   *)
(* cell stands for several bytes (Size).  A struct is a function from      *)
(* field ids to values, or Nil for a nil pointer; a string and a []byte    *)
(* are sequences of bytes, and a []byte may be Nil, too.                   *)
(***************************************************************************)
EXTENDS Naturals, Sequences, SequencesExt

CONSTANT Nil

\* Field 'id' of thrift type 'type'; 'of' is its Go type or struct; an optional
\* field is written only if it is set.
Field(id, type, of) == [id |-> id, type |-> type, of |-> of, optional |-> FALSE]
Str(id) == Field(id, "STRING", "string")
Bin(id) == Field(id, "STRING", "[]byte")
I32(id) == Field(id, "I32", "int32")
Bool(id) == Field(id, "BOOL", "bool")
Struct(id, of) == Field(id, "STRUCT", of)
Optional(id, of) == [Struct(id, of) EXCEPT !.optional = TRUE]

\* The cases of a struct's Read, the writeFields of its Write, and the
\* fieldLengths of its BLength.
Codec(read, write, length) == [read |-> read, write |-> write, length |-> length]

Zero(of) == CASE of = "string" -> << >> [] of = "int32" -> 0 [] of = "bool" -> FALSE
              [] OTHER -> Nil

\* NewXxx: all fields have Go's zero values.
New(T, s) ==
  [i \in {f.id : f \in T[s].read} |-> Zero((CHOOSE f \in T[s].read : f.id = i).of)]

-----------------------------------------------------------------------------
(* The binary protocol *)

Header(f) == [cell |-> "field", type |-> f.type, id |-> f.id]
Value(type, v) == [cell |-> "value", type |-> type, v |-> v]
Stop == [cell |-> "stop"]

Size(x) ==
  CASE x.cell = "field" -> 3
    [] x.cell = "stop" -> 1
    [] x.cell = "value" /\ x.type = "STRING" -> 4 + Len(x.v)
    [] x.cell = "value" /\ x.type = "I32" -> 4
    [] OTHER -> 1

Bytes(buf) == FoldLeft(LAMBDA n, x : n + Size(x), 0, buf)

\* What WriteString, WriteBinary, WriteI32 and WriteBool are given.
Plain(v) == IF v = Nil THEN << >> ELSE v

\* The position after a value of the type, or 0 when the buffer ends before.
RECURSIVE Skip(_, _, _)
Skip(buf, at, type) ==
  IF at \notin DOMAIN buf THEN 0
  ELSE IF type # "STRUCT" THEN IF buf[at].cell = "value" THEN at + 1 ELSE 0
  ELSE IF buf[at] = Stop THEN at + 1
  ELSE IF buf[at].cell # "field" THEN 0
  ELSE Skip(buf, Skip(buf, at + 1, buf[at].type), "STRUCT")

-----------------------------------------------------------------------------
(* The generated methods *)

\* Write and FastWriteNocopy: the fields in turn, then a stop; a nil pointer is
\* written like a struct without fields.
RECURSIVE Write(_, _, _)
Write(T, s, p) ==
  LET writeField(f) ==
        IF f.optional /\ p[f.id] = Nil THEN << >>
        ELSE <<Header(f)>> \o (IF f.type = "STRUCT" THEN Write(T, f.of, p[f.id])
                               ELSE <<Value(f.type, Plain(p[f.id]))>>)
  IN (IF p = Nil THEN << >> ELSE FlattenSeq([j \in DOMAIN T[s].write |-> writeField(T[s].write[j])]))
       \o <<Stop>>

\* BLength: the length of the buffer FastWriteNocopy is given.
RECURSIVE BLength(_, _, _)
BLength(T, s, p) ==
  LET fieldLength(f) ==
        IF f.optional /\ p[f.id] = Nil THEN 0
        ELSE 3 + (IF f.type = "STRUCT" THEN BLength(T, f.of, p[f.id])
                  ELSE Size(Value(f.type, Plain(p[f.id]))))
  IN (IF p = Nil THEN 0 ELSE FoldLeft(LAMBDA n, f : n + fieldLength(f), 0, T[s].length)) + 1

Failed == [at |-> 0, val |-> Nil]

AtStop(buf, at) == at \in DOMAIN buf /\ buf[at] = Stop

\* Read and FastRead from position 'at' on: field by field up to the stop, a
\* field that is unknown or of another type skipped.  The result is the struct
\* and the position after it, or Failed.
RECURSIVE Read(_, _, _, _, _)
Read(T, s, p, buf, at) ==
  LET readField(f) ==
        IF f.type = "STRUCT" THEN Read(T, f.of, New(T, f.of), buf, at + 1)
        ELSE IF at + 1 \in DOMAIN buf /\ buf[at + 1].cell = "value" /\ buf[at + 1].type = f.type
        THEN [at |-> at + 2, val |-> buf[at + 1].v]
        ELSE Failed
      cases == {f \in T[s].read : f.id = buf[at].id /\ f.type = buf[at].type}
  IN IF AtStop(buf, at) THEN [at |-> at + 1, val |-> p]
     ELSE IF at \notin DOMAIN buf \/ buf[at].cell # "field" THEN Failed
     ELSE IF cases = {} THEN Read(T, s, p, buf, Skip(buf, at + 1, buf[at].type))
     ELSE LET f == CHOOSE f \in cases : TRUE
              r == readField(f)
          IN IF r = Failed THEN Failed ELSE Read(T, s, [p EXCEPT ![f.id] = r.val], buf, r.at)

\* DeepEqual: nil is equal to nil only, but a nil []byte to an empty one.
RECURSIVE DeepEqual(_, _, _, _)
DeepEqual(T, s, p, q) ==
  IF p = Nil \/ q = Nil THEN p = q
  ELSE \A f \in T[s].read :
         IF f.type = "STRUCT" THEN DeepEqual(T, f.of, p[f.id], q[f.id])
         ELSE Plain(p[f.id]) = Plain(q[f.id])
=============================================================================
