------------------------------ MODULE Options ------------------------------
(***************************************************************************)
(* Option slots: how values given in JavaScript become the options of a    *)
(* command.                                                                *)
(*                                                                         *)
(* A value is its type, a number (of a number: itself; of a string or a    *)
(* Buffer: its length in bytes) and a name that tells it from others of    *)
(* its type.  The type "none" is a V8 handle that is empty.  An object     *)
(* that holds options has their values in the field f.                     *)
(*                                                                         *)
(* Numbers are as in the code but narrower: Width32 and Width64 bits.      *)
(***************************************************************************)
EXTENDS Integers, Sequences, TLC

CONSTANTS Width32, Width64

ASSUME WidthAssumption ==
  /\ Width32 \in Nat \ {0} /\ Width64 \in Nat /\ Width32 < Width64

\* Arithmetic, which provers are not told of.
ASSUME PowersAssumption ==
  \A w \in {Width32, Width64} : 2^(w - 1) \in Nat \ {0} /\ 2^w = 2 * 2^(w - 1)

Value(type, n, s) == [t |-> type, n |-> n, s |-> s]
Num(n) == Value("number", n, "")
Str(s, n) == Value("string", n, s)
Plain(type) == Value(type, 0, "")
Object(f) == [t |-> "object", n |-> 0, s |-> "", f |-> f]
None == Plain("none")

\* ToString; what is neither string nor number has no text here.
AsText(v) == CASE v.t = "string" -> v
               [] v.t = "number" -> Str(ToString(v.n), Len(ToString(v.n)))
               [] OTHER -> Str("", 0)

\* BooleanValue of a value is false.
IsFalsy(v) == \/ v.t \in {"undefined", "null", "false"}
              \/ v.t \in {"number", "string"} /\ v.n = 0

-----------------------------------------------------------------------------
(* Slots. *)

Slot(status, v) == [status |-> status, v |-> v]
IsFound(slot) == slot.status = "found"

OptionType ==
  [expiry |-> "uint32", locktime |-> "uint32", flags |-> "uint32",
   initial |-> "uint64", offset |-> "int64",
   persist_to |-> "int32", replicate_to |-> "int32", timeout |-> "uint32",
   method |-> "int32", lcb_http_type |-> "int32",
   cas |-> "cas", format |-> "value", value |-> "value",
   spooled |-> "boolean", is_delete |-> "boolean",
   hashkey |-> "string", path |-> "string", data |-> "string",
   content_type |-> "string"]

\* What a slot holds before it is parsed.
Default(type) ==
  CASE type \in {"value", "string"} -> None
    [] type = "boolean" -> FALSE
    [] OTHER -> 0

EmptySlot(name) == Slot("empty", Default(OptionType[name]))

\* The narrowing cast (T)tmp, and the cast back (int64_t)v.
Signed(n, width) == ((n + 2^(width - 1)) % 2^width) - 2^(width - 1)

Narrow(type, n) ==
  CASE type = "uint32" -> n % 2^Width32
    [] type = "uint64" -> n % 2^Width64
    [] type = "int32" -> Signed(n, Width32)
    [] type = "int64" -> n

Widen(type, v) == IF type = "uint64" THEN Signed(v, Width64) ELSE v

\* maybeSetFalse
SetsFalse(v) == v.t \in {"undefined", "null", "false"}

\* The overflow goes undetected.
BadParseNumber(type, v) ==
  CASE SetsFalse(v) -> Slot("falseval", 0)
    [] ~SetsFalse(v) /\ v.t # "number" -> Slot("error", 0)
    [] OTHER -> Slot("found", Narrow(type, v.n))

\* NumericSlot<T>::parseValue
ParseNumber(type, v) ==
  CASE SetsFalse(v) -> Slot("falseval", 0)
    [] ~SetsFalse(v) /\ v.t # "number" -> Slot("error", 0)
    [] OTHER -> LET narrow == Narrow(type, v.n)
                IN Slot(IF Widen(type, narrow) = v.n THEN "found" ELSE "error", narrow)

\* CasSlot::parseValue.  A CAS is a value of its own type, its number in n.
ParseCas(v) ==
  CASE SetsFalse(v) -> Slot("falseval", 0)
    [] v.t = "cas" -> Slot("found", v.n)
    [] OTHER -> Slot("error", 0)

\* CallableOption::parseValue
ParseCallback(v) ==
  CASE SetsFalse(v) -> "falseval"
    [] v.t = "function" -> "found"
    [] OTHER -> "error"

\* The parseValue of each kind of slot.
ParseValue(name, v) ==
  LET type == OptionType[name]
  IN CASE type = "cas" -> ParseCas(v)
       [] type = "boolean" -> Slot("found", ~IsFalsy(v))
       [] type = "value" -> Slot("found", v)
       [] type = "string" -> IF v.t \in {"number", "string"} THEN Slot("found", AsText(v))
                                                           ELSE Slot("error", None)
       [] OTHER -> ParseNumber(type, v)

ObjectTypes == {"object", "array", "Buffer", "cas", "cyclic", "function"}
Properties(v) == IF "f" \in DOMAIN v THEN DOMAIN v.f ELSE {}

\* ParamSlot::parseAll.  It stops at the first value that is wrong, and the
\* slots are then used by nobody.
ParseAll(dict, names) ==
  LET given == dict.t \in ObjectTypes
      slots == [name \in names |-> IF name \in Properties(dict)
                                     THEN ParseValue(name, dict.f[name])
                                     ELSE EmptySlot(name)]
  IN [ok |-> IF given THEN \A name \in names : slots[name].status # "error"
                      ELSE dict = None \/ IsFalsy(dict),
      slots |-> slots]

\* The global options win.
BadMerge(own, global) ==
  [name \in DOMAIN own |-> IF IsFound(global[name]) THEN global[name] ELSE own[name]]

\* GetOptions::merge, ArithmeticOptions::merge: the key's options win.
Merge(own, global) ==
  [name \in DOMAIN own |-> IF IsFound(own[name]) THEN own[name] ELSE global[name]]
=============================================================================
