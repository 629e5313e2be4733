----------------------------- MODULE MCCommands -----------------------------
(* Calls of every kind, with options that are there or not, right or wrong,  *)
(* for the key, for the call, or both.                                       *)
EXTENDS Commands

A == Str("a", 1)
B == Str("b", 2)
C == Str("c", 3)
D == Str("d", 4)
E == Str("e", 5)
Fun == Plain("function")
Cas(n) == Value("cas", n, "")

\* Objects that have some of the options in V, with values from V's sets.
Objects(V) ==
  UNION {{Object(f) : f \in {g \in [S -> UNION {V[n] : n \in S}] : \A n \in S : g[n] \in V[n]}}
         : S \in SUBSET DOMAIN V}

MadeOf(kind, keys, params, options) ==
  [kind |-> kind, keys |-> keys, params |-> params, options |-> options, callback |-> Fun]

\* Calls with an array of keys, and with an object of them; the options of the
\* second key are the other way round.
Arrays(kind, keysets, globals) ==
  {MadeOf(kind, keys, [i \in DOMAIN keys |-> None], g) : keys \in keysets, g \in globals}
Pairs(kind, keysets, owns, globals) ==
  {MadeOf(kind, keys, [i \in DOMAIN keys |-> IF i = 1 THEN o ELSE p], g)
     : keys \in keysets, o \in owns, p \in {CHOOSE x \in owns : TRUE}, g \in globals}

Falsy == {Plain("null"), Plain("undefined")}
Some == {<<A>>, <<C, B>>}
Two == {<<A, C>>}

HashKeys ==
  [hashkey |-> {A, C, Str("", 0)}]

GetOptions == [expiry |-> {Num(3), Plain("true")}, locktime |-> {Num(0), Num(2), Num(9)},
               format |-> {Str("raw", 3), Str("no", 2)}]
Gets == Arrays("get", {<<>>, <<A>>, <<B, C>>, <<D, A>>, <<Num(7), E>>, <<A, Plain("true")>>,
                       <<Str("", 0)>>},
               {Plain("null"), Plain("true"), Object([hashkey |-> C, spooled |-> Plain("true")]),
                Object([hashkey |-> Plain("null")]), Object([expiry |-> Num(3)])})
        \cup Pairs("get", Some, Objects(GetOptions), {Plain("null"), Object([locktime |-> Num(3)])})
        \cup Pairs("get", Two, {Object(<<>>), Object([locktime |-> Plain("null")])},
                   Objects(GetOptions))
        \cup Pairs("get", {<<A, C>>, <<B, A>>}, Objects(HashKeys) \cup {Plain("true")},
                   Objects(HashKeys))

Locks == Arrays("lock", Some, Objects([locktime |-> {Num(2), Num(0)}, expiry |-> {Num(3)}]))

Texts == {Str("", 0), A, D}
Blobs == {Value("Buffer", 0, "x"), Value("Buffer", 2, "x")}
Things == {Num(5), Value("array", 1, "x"), Value("object", 2, "x"), Plain("cyclic"),
           Plain("function"), Plain("null"), Plain("true")}
Formats == {Str("json", 4), Str("raw", 3), Str("utf8", 4), Str("auto", 4), Num(UTF16),
            Num(99), Plain("null"), Plain("true")}
With(f, g) == Object(g @@ f)

Stores ==
  Arrays("store", {<<>>}, {Plain("null")})
  \cup Pairs("store", {<<A, C>>},
        {With([value |-> v], o.f) : v \in {A, D},
           o \in Objects([cas |-> {Cas(6), Num(1)}, expiry |-> {Num(3)}, flags |-> {Num(1), Num(-1)}])},
        Objects([expiry |-> {Num(2), Num(8)}, flags |-> {Num(5)}, cas |-> {Cas(5)}]))
  \cup Pairs("store", {<<B, C>>, <<A>>},
        {Object([value |-> v]) : v \in Texts \cup Blobs \cup Things},
        {Plain("null"), Object([hashkey |-> B])})
  \cup Pairs("store", {<<A>>},
        {With([value |-> v], o.f) : v \in Texts \cup Blobs \cup {Num(5)},
                                    o \in Objects([format |-> Formats])},
        Objects([format |-> Formats]))

NumericOptions == [expiry |-> {Num(3)}, initial |-> {Num(-1), Num(0), Num(7)},
                   offset |-> {Num(-8), Num(5), Plain("false")}]
Arithmetics ==
  Pairs("arithmetic", Two, Objects(NumericOptions), Objects(NumericOptions))
  \cup Arrays("arithmetic", Some, Objects(NumericOptions))

CasOptions == Objects([cas |-> {Cas(6), Num(6), Plain("null")}])
CasOptions2 == Objects([cas |-> {Cas(5)}])
Expiries == Objects([expiry |-> {Num(0), Num(3), Num(8), Num(-1), Str("x", 1)}])
Others ==
  UNION {Arrays(kind, Some, CasOptions2) : kind \in {"remove", "unlock", "endure"}}
  \cup UNION {Pairs(kind, Two, CasOptions, CasOptions2) : kind \in {"remove", "unlock", "endure"}}
  \cup Arrays("touch", Some, Expiries) \cup Pairs("touch", Two, Expiries, Expiries)
  \cup Arrays("observe", Some, {Plain("null"), Fun})
  \cup Pairs("endure", Two, {Object(<<>>)},
             Objects([persist_to |-> {Num(0), Num(-1), Num(2), Num(4)}, replicate_to |-> {Num(1)},
                      is_delete |-> {Plain("true"), Plain("false")}, timeout |-> {Num(3)}]))
  \cup Arrays("stats", {<<Str("", 0)>>, <<B>>, <<A, B>>}, {Plain("null"), Object([hashkey |-> A])})
  \cup Arrays("http", {<<Plain("null")>>},
         {With([path |-> p], o.f) : p \in {C, Str("", 0), Plain("true")},
            o \in Objects([method |-> {Num(1), Num(9)}, lcb_http_type |-> {Num(1), Num(3)},
                           data |-> {B, D, Str("", 0), Num(0)}, content_type |-> {A, B}])})

NoCallback == {[c EXCEPT !.callback = f] : c \in Arrays("get", Some, {Plain("null")}),
                                           f \in {Plain("undefined"), Plain("object")}}

\* A value is stored and read.
Backs == {<<s, g>> :
  s \in Pairs("store", {<<A>>, <<C, A>>},
              {With([value |-> v], o.f) : v \in {A, Str("", 0), Num(5), Value("object", 2, "x")} \cup Blobs,
                 o \in Objects([format |-> {Str("json", 4), Str("raw", 3), Str("utf8", 4)},
                                flags |-> {Num(RAW)}])}, {Plain("null")}),
  g \in Arrays("get", {<<A>>}, {Plain("null"), Object([format |-> Str("raw", 3)]),
                                Object([format |-> Str("json", 4)])})
        \cup Pairs("get", {<<B, A>>, <<A, B>>}, Objects([format |-> {Str("utf8", 4), Str("raw", 3)}]),
                  {Plain("null"), Object([format |-> Str("json", 4)])})}

\* A key is stored, read, stored again if the second value has that format, and
\* read.
Store(keys, v, format) == MadeOf("store", keys, [i \in DOMAIN keys |->
                            Object([value |-> v, format |-> format])], Plain("null"))
Get(format) == MadeOf("get", <<A>>, <<Object([format |-> format])>>, Plain("null"))
Overwrites == {<<Store(keys, D, Str("utf8", 4)), Get(f), Store(<<A>>, v, Str("json", 4)), Get(f)>> :
               keys \in {<<A>>, <<C, A>>}, v \in {E, Value("Buffer", 2, "x"), Plain("cyclic")},
               f \in {Str("auto", 4), Str("utf8", 4), Str("json", 4)}}

AllPlans ==
  {<<c>> : c \in Gets \cup Locks \cup Stores \cup Arithmetics \cup Others \cup NoCallback}
  \cup Backs \cup Overwrites

\* An expiry for a get and a lock, and a cas and flags for all keys of a store.
DocumentedPlans ==
  {<<MadeOf("get", <<A>>, <<None>>, Object([expiry |-> Num(3)])),
     MadeOf("lock", <<A>>, <<None>>, Object([expiry |-> Num(3)])),
     MadeOf("store", <<A>>, <<Object([value |-> D])>>,
            Object([cas |-> Cas(5), flags |-> Num(5)]))>>}
=============================================================================
