---------------------------- MODULE ValueFormat ----------------------------
(***************************************************************************)
(* Value formats: a value becomes bytes and flags when it is stored, and   *)
(* bytes and flags become a value when it is read.                         *)
(*                                                                         *)
(* Bytes are the value they were made of and the way it was done: "utf8",  *)
(* "json" or "raw".                                                        *)
(***************************************************************************)
EXTENDS Options

JSON == 0
UTF16 == 1
RAW == 2
UTF8 == 4
AUTO == 119       \* 0x777777 in the code
INVALID == -1

FormatNames == [auto |-> AUTO, raw |-> RAW, json |-> JSON, utf8 |-> UTF8]

\* ValueFormat::toSpec.  INVALID comes with an error set.
ToSpec(v) ==
  CASE v.t = "string" -> IF v.s \in DOMAIN FormatNames THEN FormatNames[v.s] ELSE INVALID
    [] v.t = "number" -> IF v.n \in {AUTO, JSON, UTF8, UTF16, RAW} THEN v.n ELSE INVALID
    [] v = None \/ (v.t \notin {"string", "number"} /\ IsFalsy(v)) -> AUTO
    [] OTHER -> INVALID

\* A Buffer is an object, too.
BadAutoSpec(v) ==
  IF v.t \in {"number", "array", "object", "cyclic", "function", "Buffer"} THEN JSON ELSE UTF8

\* ValueFormat::getAutoSpec
AutoSpec(v) ==
  CASE v.t \in {"number", "array", "object", "cyclic", "function"} -> JSON
    [] v.t = "Buffer" -> RAW
    [] OTHER -> UTF8

Bytes(as, v) == [t |-> as, n |-> v.n, s |-> v.s, of |-> v]

\* The JSON text of a value is never empty: quotes or braces around it, or at
\* least a digit.
JsonText(v) == [Bytes("json", v) EXCEPT !.n = IF v.t = "number" THEN 1 ELSE v.n + 2]

\* The result of encode: has it failed, the flags, the bytes, and whether
\* they are the literal "" and need no buffer.
Failure == [ok |-> FALSE, flags |-> 0, bytes |-> None, literal |-> FALSE]
Encoded(flags, bytes, literal) ==
  [ok |-> TRUE, flags |-> flags, bytes |-> bytes, literal |-> literal]

EncodeUtf8(v, flags) ==
  IF v.t = "string" THEN Encoded(flags, Bytes("utf8", v), v.n = 0) ELSE Failure

\* JSON.stringify makes no string of undefined and of functions, and throws
\* for an object that contains itself.
HasJson(v) == v.t \notin {"undefined", "function", "cyclic"}

\* ValueFormat::encode
Encode(v, spec) ==
  LET actual == IF spec = AUTO THEN AutoSpec(v) ELSE spec
  IN CASE actual = UTF8 -> EncodeUtf8(v, UTF8)
       [] actual = RAW -> IF v.t = "Buffer" THEN Encoded(RAW, Bytes("raw", v), FALSE)
                                            ELSE EncodeUtf8(v, RAW)
       [] actual = JSON -> IF HasJson(v) THEN Encoded(JSON, JsonText(v), FALSE)
                                         ELSE Failure
       [] OTHER -> Failure     \* UTF16 and INVALID

\* What JSON.parse makes of the text JSON.stringify made of v.
FromJson(v) == IF v.t = "Buffer" THEN Value("object", v.n, v.s) ELSE v

AsBuffer(bytes) == IF bytes.t = "raw" THEN bytes.of ELSE Value("Buffer", bytes.n, bytes.s)
AsString(bytes) == IF bytes.t = "utf8" THEN bytes.of ELSE Str(bytes.s, bytes.n)

\* ValueFormat::decode.  Only what was stored as JSON parses as JSON.
Decode(bytes, flags) ==
  CASE flags = UTF8 -> AsString(bytes)
    [] flags = JSON /\ bytes.t = "json" -> FromJson(bytes.of)
    [] OTHER -> AsBuffer(bytes)
=============================================================================
